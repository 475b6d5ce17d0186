----------------------------- MODULE ShippingMC -----------------------------
(* Small instances of Shipping for TLC.                                     *)
EXTENDS Shipping, TLC

Symmetric == Permutations(Shipment) \cup Permutations(Carton) \cup Permutations(Request)
=============================================================================
