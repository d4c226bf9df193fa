------------------------------ MODULE BinArrays ------------------------------
(***************************************************************************)
(* The Meteora DLMM bin-array window of fetcher/fetcherMeteora.go.  A bin  *)
(* array holds 64 consecutive bins; a transaction carries the array of the *)
(* pool's active bin and its two neighbours.  Bin ids are signed, and Go's *)
(* integer division truncates toward zero, so the array of a negative bin  *)
(* needs the correction FloorDiv makes.                                    *)
(***************************************************************************)
EXTENDS Integers

ArraySize == 64

\* Go's a / b and a % b on signed integers, for b > 0.
TruncDiv(a, b) == IF a >= 0 THEN a \div b ELSE -((-a) \div b)
TruncMod(a, b) == a - b * TruncDiv(a, b)

\* A FloorDiv without the correction for a negative dividend.
PlainFloorDiv(a, b) == TruncDiv(a, b)

FloorDiv(a, b) ==
    IF (a < 0) # (b < 0) /\ TruncMod(a, b) # 0
    THEN TruncDiv(a, b) - 1
    ELSE TruncDiv(a, b)

\* GetSurroundingBinPDAs: the indices of the three arrays it derives.
SurroundingArrays(activeID) ==
    LET curArrayID == FloorDiv(activeID, ArraySize)
    IN  (curArrayID - 1)..(curArrayID + 1)
=============================================================================
