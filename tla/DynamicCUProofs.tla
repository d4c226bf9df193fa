--------------------------- MODULE DynamicCUProofs ---------------------------
(***************************************************************************)
(* Proofs about the dynamic compute-unit price, for every window, lag,     *)
(* clock and target rate.                                                  *)
(***************************************************************************)
EXTENDS DynamicCU, TLAPS

USE ConstantsAssumption DEF ConstantsAssumption

-----------------------------------------------------------------------------
(* Type correctness.                                                       *)

LEMMA TypeInit == Init => TypeOK
<1> SUFFICES ASSUME Init PROVE TypeOK
    OBVIOUS
<1> USE DEF Init
<1>1. TradeActive \in BOOLEAN /\ dynamicCUActive \in BOOLEAN
    BY Zenon
<1> QED
    BY <1>1 DEF TypeOK

LEMMA TypeNext == TypeOK /\ [Next]_vars => TypeOK'
<1> SUFFICES ASSUME TypeOK, [Next]_vars PROVE TypeOK'
    OBVIOUS
<1> USE DEF TypeOK, streamVars, loggerVars, clocks, tickVars
<1>1. CASE Elapse
    BY <1>1 DEF Elapse, Older
<1>2. CASE NewSlot
    BY <1>2 DEF NewSlot
<1>3. CASE Record
    BY <1>3 DEF Record
<1>4. CASE Prune
    BY <1>4 DEF Prune
<1>5. CASE RecordDone
    BY <1>5 DEF RecordDone
<1>6. CASE Start
  <2>1. TradeActive' \in BOOLEAN
      BY <1>6, Zenon DEF Start
  <2> QED
      BY <1>6, <2>1 DEF Start
<1>7. CASE Stop
  <2>1. TradeActive' \in BOOLEAN
      BY <1>7, Zenon DEF Stop
  <2> QED
      BY <1>7, <2>1 DEF Stop
<1>8. CASE Tick
    BY <1>8 DEF Tick
<1>9. CASE Since
    BY <1>9 DEF Since
<1>10. CASE Adjust
  <2>1. level' \in 0..MaxLevel
      BY <1>10 DEF Adjust, SmallerOf
  <2> QED
      BY <1>10, <2>1 DEF Adjust
<1>11. CASE UNCHANGED vars
    BY <1>11 DEF vars
<1> QED
    BY <1>1, <1>2, <1>3, <1>4, <1>5, <1>6, <1>7, <1>8, <1>9, <1>10, <1>11
       DEF Next, StreamStep, LoggerStep, TickStep

\* The types hold in every reachable state; in particular the multiplier never
\* falls below 1.
THEOREM TypeCorrect == Spec => []TypeOK
BY TypeInit, TypeNext, PTL DEF Spec

-----------------------------------------------------------------------------
(* The span of the recorded slots.  A pair that is too far apart exists    *)
(* only while RecordLandedSlot is pruning, and its older slot goes.        *)

SpanInv ==
    \A a, b \in LandedSlots :
        \/ a - b <= SlotsToCheck
        \/ a - b <= MaxLag
        \/ recorded # 0 /\ b < Cutoff(recorded)

LEMMA SpanNext == TypeOK /\ SpanInv /\ [Next]_vars => SpanInv'
<1> SUFFICES ASSUME TypeOK, SpanInv, [Next]_vars PROVE SpanInv'
    OBVIOUS
<1> USE DEF TypeOK, SpanInv, Cutoff, streamVars, loggerVars, clocks, tickVars
<1>1. CASE Record
  <2>1. PICK slot \in (head - MaxLag)..head :
            recorded' = slot /\ LandedSlots' = LandedSlots \cup {slot}
      BY <1>1 DEF Record
  <2>2. slot # 0 /\ recorded = 0
      BY <1>1 DEF Record
  <2>3. ASSUME NEW a \in LandedSlots', NEW b \in LandedSlots'
        PROVE  a - b <= SlotsToCheck \/ a - b <= MaxLag \/ b < slot - SlotsToCheck
      BY <2>1, <2>2, <2>3
  <2> QED
      BY <2>1, <2>2, <2>3
<1>2. CASE Prune
    BY <1>2 DEF Prune
<1>3. CASE RecordDone
    BY <1>3 DEF RecordDone
<1>4. CASE UNCHANGED <<LandedSlots, recorded>>
    BY <1>4
<1>5. Elapse \/ NewSlot \/ LoggerStep \/ TickStep => UNCHANGED <<LandedSlots, recorded>>
    BY DEF Elapse, NewSlot, LoggerStep, Start, Stop, TickStep, Tick, Since, Adjust
<1> QED
    BY <1>1, <1>2, <1>3, <1>4, <1>5 DEF Next, StreamStep, vars

\* Outside RecordLandedSlot the recorded slots span one window, in whatever order
\* and however late the stream reports them.
THEOREM SpanCorrect == Spec => []LandedSpan
<1>1. Init => SpanInv
    BY DEF Init, SpanInv
<1>2. TypeOK /\ SpanInv => LandedSpan
    BY DEF SpanInv, LandedSpan
<1> QED
    BY <1>1, <1>2, SpanNext, TypeCorrect, PTL DEF Spec

-----------------------------------------------------------------------------
(* Tracking and the minute.  While trading is on, the time stamp is as old *)
(* as the trading period; the loop, once it has read the flag, may still   *)
(* read the stamp of that period or a newer one, never an older one.       *)

StampInv ==
    /\ TradeActive => age = active
    /\ lpc # "idle" => ~TradeActive
    /\ lpc = "starting" => age = 0
    /\ tpc = "since" => age = active \/ age = 0

LEMMA StampNext == TypeOK /\ StampInv /\ [Next]_vars => StampInv'
<1> SUFFICES ASSUME TypeOK, StampInv, [Next]_vars PROVE StampInv'
    OBVIOUS
<1> USE DEF TypeOK, StampInv, streamVars, loggerVars, clocks, tickVars
<1>1. CASE Elapse
    BY <1>1 DEF Elapse, Older
<1>2. CASE StreamStep
    BY <1>2 DEF StreamStep, NewSlot, Record, Prune, RecordDone
<1>3. CASE Start
    BY <1>3 DEF Start
<1>4. CASE Stop
    BY <1>4 DEF Stop
<1>5. CASE TickStep
    BY <1>5 DEF TickStep, Tick, Since, Adjust
<1>6. CASE UNCHANGED vars
    BY <1>6 DEF vars
<1> QED
    BY <1>1, <1>2, <1>3, <1>4, <1>5, <1>6 DEF Next, LoggerStep

\* Tracking starts only after a minute of trading, although the flag and the stamp
\* are read and written without a lock.
THEOREM TrackingDelayed == Spec => TrackedAfterMinute
<1>1. Init => StampInv
    BY DEF Init, StampInv
<1>2. TypeOK /\ StampInv /\ [Next]_vars =>
        [~dynamicCUActive /\ dynamicCUActive' => active = Minute]_vars
  <2> SUFFICES ASSUME TypeOK, StampInv, Next, ~dynamicCUActive, dynamicCUActive'
               PROVE  active = Minute
      BY DEF vars
  <2> USE DEF streamVars, loggerVars, clocks, tickVars
  <2>1. Since
      BY DEF Next, Elapse, StreamStep, NewSlot, Record, Prune, RecordDone, LoggerStep,
             Start, Stop, TickStep, Tick, Adjust
  <2>2. tpc = "since" /\ age >= Minute
      BY <2>1 DEF Since
  <2> QED
      BY <2>2 DEF TypeOK, StampInv
<1> QED
    BY <1>1, <1>2, StampNext, TypeCorrect, PTL DEF Spec, TrackedAfterMinute
=============================================================================
