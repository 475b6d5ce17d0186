------------------------------- MODULE StockMC -------------------------------
(* Small instances of Stock for TLC.                                        *)
EXTENDS Stock, TLC

CONSTANTS p1, l1

OneProduct == [l \in Lot |-> p1]
\* l1 expires first; the other lot has no expiry date, so a release, where the
\* database sorts NULL first, takes it first.
Fefo == [l \in Lot |-> IF l = l1 THEN 0 ELSE 1]
NullsFirst == [l \in Lot |-> IF l = l1 THEN 1 ELSE 0]
\* Equal codes let either carton come first, which keeps cartons symmetric.
Codes == [c \in Carton |-> 0]
Symmetric == Permutations(Carton) \cup Permutations(Clerk) \cup Permutations(Order)
=============================================================================
