------------------------------ MODULE DynamicCU ------------------------------
(***************************************************************************)
(* The dynamic compute-unit price of tradeLoop/dynamicCU.go and the bid    *)
(* SendTx makes with it.  Three goroutines share its state:                *)
(*   - the wallet stream records the slots in which a transaction landed   *)
(*     (RecordLandedSlot, under LandedMu);                                 *)
(*   - the hot-mint logger switches TradeActive and stamps LastTradeTime   *)
(*     (PushToMaster and printHotMints, no lock);                          *)
(*   - the dynamic loop reads all of that, with no lock, and moves         *)
(*     CurrentMultiplier.                                                  *)
(* Clocks are kept as ages that stop at a minute.  The multiplier starts   *)
(* at 1, is only multiplied and divided by PriceAdjustmentFactor and is    *)
(* never below 1, so it is the factor to the power "level".                *)
(***************************************************************************)
EXTENDS Integers, FiniteSets

CONSTANTS
    FirstSlot, LastSlot,    \* slots of the chain; LastSlot bounds the run
    SlotsToCheck,           \* config.SlotsToCheck
    MaxLag,                 \* a landed transaction is reported this many slots late
    Minute,                 \* clock steps in a minute
    MinLanded, MaxLanded,   \* the target landing rates times SlotsToCheck
    PriceAdjustmentFactor,  \* config.PriceAdjustmentFactor
    MaxLevel,               \* bounds the run: the multiplier rises no further
    MaxCUPrice,             \* config.MaxCUPrice
    CUPrices,               \* CU prices of configurations in the book
    IntBits                 \* width of Go's int, 64 in the program

\* A ledger shorter than SlotsToCheck would make the cutoff wrap around.
ASSUME ConstantsAssumption ==
    /\ FirstSlot \in Nat /\ LastSlot \in Nat /\ FirstSlot <= LastSlot
    /\ SlotsToCheck \in Nat \ {0} /\ MaxLag \in Nat
    /\ SlotsToCheck + MaxLag <= FirstSlot
    /\ Minute \in Nat \ {0}
    /\ MinLanded \in Nat /\ MaxLanded \in Nat
    /\ PriceAdjustmentFactor \in Nat \ {0} /\ MaxLevel \in Nat
    /\ MaxCUPrice \in Nat /\ CUPrices \subseteq Nat /\ IntBits \in Nat \ {0}

VARIABLES
    head,           \* the newest slot of the chain
    LandedSlots,
    recorded,       \* the slot RecordLandedSlot is at, or 0 outside it
    TradeActive,
    age,            \* time.Since(LastTradeTime), up to a minute
    lpc,            \* the logger: "idle", or between its two stores
    active,         \* (history variable) how long the last trading period was
    dynamicCUActive,
    level,          \* CurrentMultiplier
    tpc             \* the dynamic loop: where it is in a tick

streamVars == <<head, LandedSlots, recorded>>
loggerVars == <<TradeActive, lpc>>
clocks == <<age, active>>
tickVars == <<dynamicCUActive, level, tpc>>
vars == <<streamVars, loggerVars, clocks, tickVars>>

-----------------------------------------------------------------------------
Older(clock) == IF clock < Minute THEN clock + 1 ELSE clock

\* A cutoff that keeps one slot too many, and the real one.
LooseCutoff(slot) == slot - SlotsToCheck - 1
Cutoff(slot) == slot - SlotsToCheck

\* int(x) of a float64 on amd64, and uint64(i).
ToInt(x) == IF x < 2 ^ (IntBits - 1) THEN x ELSE -(2 ^ (IntBits - 1))
ToUint(i) == i % 2 ^ IntBits
SmallerOf(a, b) == IF a < b THEN a ELSE b

\* The price per compute unit SendTx bids, for the jitter it has drawn.
Bid(price, jitter) ==
    ToUint(SmallerOf(ToInt((price + jitter) * PriceAdjustmentFactor ^ level),
                     MaxCUPrice))

Init ==
    /\ head = FirstSlot
    /\ LandedSlots = {} /\ recorded = 0
    /\ TradeActive = FALSE /\ lpc = "idle"
    /\ age = Minute /\ active = 0     \* LastTradeTime is the zero Time
    /\ dynamicCUActive = FALSE /\ level = 0 /\ tpc = "idle"

-----------------------------------------------------------------------------
(* Time, and the wallet stream.                                            *)

\* A step of the clock is long: the two stores of the logger, and the two loads of
\* the condition in UpdateTrackingState, each lie within one.
Elapse ==
    /\ lpc = "idle" /\ tpc # "since"
    /\ age' = Older(age)
    /\ active' = IF TradeActive THEN Older(active) ELSE active
    /\ UNCHANGED <<streamVars, loggerVars, tickVars>>

NewSlot ==
    /\ head < LastSlot
    /\ head' = head + 1
    /\ UNCHANGED <<LandedSlots, recorded, loggerVars, clocks, tickVars>>

\* RecordLandedSlot takes LandedMu and adds the slot ...
Record ==
    /\ recorded = 0
    /\ \E slot \in (head - MaxLag)..head :
        /\ recorded' = slot
        /\ LandedSlots' = LandedSlots \cup {slot}
    /\ UNCHANGED <<head, loggerVars, clocks, tickVars>>

\* ... deletes the old ones in the order of the map ...
Prune ==
    /\ recorded # 0
    /\ \E s \in LandedSlots :
        /\ s < Cutoff(recorded)
        /\ LandedSlots' = LandedSlots \ {s}
    /\ UNCHANGED <<head, recorded, loggerVars, clocks, tickVars>>

\* ... and releases it when none is left.
RecordDone ==
    /\ recorded # 0
    /\ \A s \in LandedSlots : s >= Cutoff(recorded)
    /\ recorded' = 0
    /\ UNCHANGED <<head, LandedSlots, loggerVars, clocks, tickVars>>

-----------------------------------------------------------------------------
(* The logger.                                                             *)

\* The flag first, the time stamp after it.
StartFlagFirst ==
    /\ \/ /\ lpc = "idle" /\ ~TradeActive
          /\ TradeActive' = TRUE /\ active' = 0
          /\ lpc' = "starting"
          /\ UNCHANGED age
       \/ /\ lpc = "starting"
          /\ age' = 0
          /\ lpc' = "idle"
          /\ UNCHANGED <<TradeActive, active>>
    /\ UNCHANGED <<streamVars, tickVars>>

\* PushToMaster fetches the first configuration: LastTradeTime, then TradeActive.
Start ==
    /\ \/ /\ lpc = "idle" /\ ~TradeActive
          /\ age' = 0
          /\ lpc' = "starting"
          /\ UNCHANGED <<TradeActive, active>>
       \/ /\ lpc = "starting"
          /\ TradeActive' = TRUE /\ active' = 0
          /\ lpc' = "idle"
          /\ UNCHANGED age
    /\ UNCHANGED <<streamVars, tickVars>>

\* printHotMints has no hot mints: TradeActive, then LastTradeTime.
Stop ==
    /\ \/ /\ lpc = "idle"
          /\ TradeActive' = FALSE
          /\ lpc' = "stopping"
          /\ UNCHANGED age
       \/ /\ lpc = "stopping"
          /\ age' = 0
          /\ lpc' = "idle"
          /\ UNCHANGED TradeActive
    /\ UNCHANGED <<streamVars, active, tickVars>>

-----------------------------------------------------------------------------
(* The dynamic loop.                                                       *)

\* A tick that looks at the flag only to switch tracking on.
TickSticky ==
    /\ tpc = "idle"
    /\ tpc' = IF dynamicCUActive THEN "rate" ELSE IF TradeActive THEN "since" ELSE "idle"
    /\ UNCHANGED <<streamVars, loggerVars, clocks, dynamicCUActive, level>>

\* UpdateTrackingState reads TradeActive: tracking stops, goes on, or may start.
Tick ==
    /\ tpc = "idle"
    /\ dynamicCUActive' = (dynamicCUActive /\ TradeActive)
    /\ tpc' = IF ~TradeActive THEN "idle" ELSE IF dynamicCUActive THEN "rate" ELSE "since"
    /\ UNCHANGED <<streamVars, loggerVars, clocks, level>>

\* Then it reads LastTradeTime: tracking starts a minute after it.
Since ==
    /\ tpc = "since"
    /\ dynamicCUActive' = (age >= Minute)
    /\ tpc' = IF age >= Minute THEN "rate" ELSE "idle"
    /\ UNCHANGED <<streamVars, loggerVars, clocks, level>>

\* A decrease without the floor.
AdjustNoFloor ==
    /\ tpc = "rate"
    /\ LET landed == Cardinality(LandedSlots)
       IN  level' = IF landed < MinLanded THEN SmallerOf(level + 1, MaxLevel)
                    ELSE IF landed > MaxLanded THEN level - 1
                    ELSE level
    /\ tpc' = "idle"
    /\ UNCHANGED <<streamVars, loggerVars, clocks, dynamicCUActive>>

\* updateCUPriceMultiplier, with the number of slots in the map now.
Adjust ==
    /\ tpc = "rate"
    /\ LET landed == Cardinality(LandedSlots)
       IN  level' = IF landed < MinLanded THEN SmallerOf(level + 1, MaxLevel)
                    ELSE IF landed > MaxLanded /\ level > 0 THEN level - 1
                    ELSE level
    /\ tpc' = "idle"
    /\ UNCHANGED <<streamVars, loggerVars, clocks, dynamicCUActive>>

-----------------------------------------------------------------------------
StreamStep == NewSlot \/ Record \/ Prune \/ RecordDone
LoggerStep == Start \/ Stop
TickStep == Tick \/ Since \/ Adjust

Next == Elapse \/ StreamStep \/ LoggerStep \/ TickStep

Spec == Init /\ [][Next]_vars

\* Time passes however often the ticker fires; it does fire; and a goroutine that
\* is between two stores goes on.
FairSpec ==
    /\ Spec
    /\ SF_vars(Elapse) /\ WF_vars(TickStep)
    /\ WF_vars(LoggerStep /\ lpc # "idle") /\ WF_vars(Prune \/ RecordDone)

-----------------------------------------------------------------------------
(* Properties.                                                             *)

TypeOK ==
    /\ head \in FirstSlot..LastSlot
    /\ LandedSlots \subseteq (FirstSlot - MaxLag)..head
    /\ recorded \in {0} \cup ((FirstSlot - MaxLag)..head)
    /\ TradeActive \in BOOLEAN
    /\ age \in 0..Minute /\ active \in 0..Minute
    /\ lpc \in {"idle", "starting", "stopping"}
    /\ dynamicCUActive \in BOOLEAN
    /\ level \in 0..MaxLevel
    /\ tpc \in {"idle", "since", "rate"}

\* The slots counted for the landing rate never lie further apart than the window
\* once a record has pruned them, in whatever order late reports come: an old slot
\* may be recorded, but never one the newest would have pruned (unless reports can
\* be later than the window is long).
LandedSpan ==
    recorded = 0 =>
        \A a, b \in LandedSlots : a - b <= SlotsToCheck \/ a - b <= MaxLag

\* Tracking starts only in (or right after) a trading period of a minute or more,
\* although the loop reads the flag and the time stamp of the logger in two steps
\* and without a lock.
TrackedAfterMinute ==
    [][~dynamicCUActive /\ dynamicCUActive' => active = Minute]_vars

\* Tracking follows trading: it is on for good when trading goes on, and off for
\* good when trading has stopped.
TrackingFollows ==
    /\ <>[]TradeActive => <>[]dynamicCUActive
    /\ <>[]~TradeActive => <>[]~dynamicCUActive

-----------------------------------------------------------------------------
(* Claims of the source that the code does not keep.                       *)

\* RecordLandedSlot says "last 150 slots only": the landing rate counts no slot
\* that is older on the chain (one more and the lag allowed for).
LandedIsRecent ==
    recorded = 0 => \A s \in LandedSlots : s >= head - SlotsToCheck - MaxLag

\* SendTx takes the smaller of its price and MaxCUPrice: no bid exceeds it.
BidCapped ==
    \A price \in CUPrices :
        \A jitter \in 0..((price * 3) \div 10 - 1) : Bid(price, jitter) <= MaxCUPrice
=============================================================================
