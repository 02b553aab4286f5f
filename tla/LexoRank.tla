------------------------------ MODULE LexoRank ------------------------------
(***************************************************************************)
(* The rank strings that order the cards of a Kanban column.  Source:      *)
(* utils/lexorank.ts.                                                      *)
(*                                                                         *)
(* A rank is a string of decimal digits.  It is modelled by the number     *)
(* BigInt() reads from it and its length: "0000000655365" is               *)
(* [val |-> 655365, len |-> 13].  The two differ in how they order: the    *)
(* midpoint is computed on val, the database sorts the strings.            *)
(***************************************************************************)
EXTENDS Integers, FiniteSets

CONSTANTS Pad,       \* PAD_LENGTH, 12 in the code
          Gap,       \* DEFAULT_GAP, 65536 in the code
          Initial,   \* the number in INITIAL_RANK, 65536 in the code
          NoRank     \* null: no neighbour on that side

\* The powers of ten: TenTo[k] is the number that k decimal digits count to.
TenTo[k \in Nat] == IF k = 0 THEN 1 ELSE 10 * TenTo[k - 1]

ASSUME PadAssumption == Pad \in Nat \ {0}
ASSUME GapAssumption == Gap \in Nat \ {0}
ASSUME InitialAssumption == Initial \in Nat \ {0} /\ Initial < TenTo[Pad]

Rank == [val: Nat, len: Nat \ {0}]
ASSUME NoRankAssumption == NoRank \notin Rank

\* A rank of the ordinary form, of exactly Pad digits.
Padded == {r \in Rank : r.len = Pad /\ r.val < TenTo[Pad]}

\* String order of two ranks: digit by digit, a proper prefix first.
\* Scaled to a common length, the strings compare like numbers.
Before(a, b) ==
  IF a.len = b.len THEN a.val < b.val
  ELSE IF a.len < b.len THEN a.val * TenTo[b.len - a.len] =< b.val
  ELSE a.val < b.val * TenTo[a.len - b.len]

\* padRank: at least Pad digits, and one more for every power of ten that
\* the number reaches beyond them.
PadRank(n) ==
  [val |-> n,
   len |-> IF n < TenTo[Pad] THEN Pad
           ELSE Pad + Cardinality({k \in Pad .. 2 * Pad : TenTo[k] =< n})]

InitialRank == PadRank(Initial)

\* Twelve zeros and a five.
ExtendedZero == [val |-> 5, len |-> Pad + 1]

\* Appending a digit five to the string.
Extend(r) == [val |-> 10 * r.val + 5, len |-> r.len + 1]

\* Cases 4 and 5 are refused when the numbers are not in order.
Throws(prev, next) == prev # NoRank /\ next # NoRank /\ next.val =< prev.val

\* Fault: half the distance, forgetting to add it to prev.
GetHalfDistance(prev, next) ==
  LET below == IF prev = NoRank THEN 0 ELSE prev.val IN
  CASE next # NoRank -> PadRank((next.val - below) \div 2)
    [] next = NoRank -> PadRank(below + Gap)

\* Fault: appended at the gap itself, whatever the last rank is.
GetMidpointFixedAppend(prev, next) ==
  IF next = NoRank THEN PadRank(Gap) ELSE PadRank(next.val \div 2)

\* Fault: a rank before the first is a gap below it, as one after the last
\* is a gap above.
GetMidpointSubtracting(prev, next) ==
  IF next = NoRank THEN InitialRank ELSE PadRank(next.val - Gap)

\* getMidpointRank where it does not throw.
GetMidpointRank(prev, next) ==
  CASE prev = NoRank /\ next = NoRank -> InitialRank
    [] prev # NoRank /\ next = NoRank -> PadRank(prev.val + Gap)
    [] prev = NoRank /\ next # NoRank ->
         IF next.val \div 2 = 0 THEN ExtendedZero ELSE PadRank(next.val \div 2)
    [] OTHER ->
         LET mid == (prev.val + next.val) \div 2 IN
         IF mid = prev.val THEN Extend(prev) ELSE PadRank(mid)
=============================================================================
