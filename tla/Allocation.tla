----------------------------- MODULE Allocation -----------------------------
(***************************************************************************)
(* Sums of quantities, and the loop that draws a quantity from lots or     *)
(* from reservation rows taken in order, each giving what it can.          *)
(***************************************************************************)
EXTENDS Integers, FiniteSets

CONSTANT MaxUnits   \* bound: units of a lot, a carton line or an order line

ASSUME MaxUnitsAssumption == MaxUnits \in Nat \ {0}

Units == 0 .. MaxUnits

Smaller(a, b) == IF a <= b THEN a ELSE b

\* The units counted by f, one element each; Total(f) is the sum of f.
UnitsOf(f) == {u \in (DOMAIN f) \X (1 .. MaxUnits) : u[2] <= f[u[1]]}
Total(f) == Cardinality(UnitsOf(f))

\* How much each x gives when q is drawn in the order of `rank`.
Greedy(avail, rank, q) ==
    [x \in DOMAIN avail |->
        LET ahead == Total([y \in DOMAIN avail |-> IF rank[y] < rank[x] THEN avail[y] ELSE 0])
        IN  IF q <= ahead THEN 0 ELSE Smaller(avail[x], q - ahead)]
=============================================================================
