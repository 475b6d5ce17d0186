------------------------------ MODULE CaseFile ------------------------------
(***************************************************************************)
(* What the tracking board promises of a shipment's case: the four         *)
(* milestones a case needs are reached in order and stay reached, and a    *)
(* case is closed once, when it has them all.                              *)
(***************************************************************************)
EXTENDS Naturals

CONSTANT Shipment

VARIABLES
    reached,  \* the milestones each shipment has a tracking event for
    closed    \* the shipments whose case has a closed_at

\* The columns of the tracking board that can_close requires.
Milestone == {"planned", "boarding_ok", "received_correspondent", "received_recipient"}
Rank == [m \in Milestone |->
            CASE m = "planned" -> 1
              [] m = "boarding_ok" -> 2
              [] m = "received_correspondent" -> 3
              [] m = "received_recipient" -> 4]
Before(m) == {n \in Milestone : Rank[n] < Rank[m]}

Init ==
    /\ reached = [s \in Shipment |-> {}]
    /\ closed = [s \in Shipment |-> FALSE]

Reach(s, m) ==
    /\ Before(m) \subseteq reached[s]
    /\ reached' = [reached EXCEPT ![s] = @ \cup {m}]
    /\ UNCHANGED closed

Close(s) ==
    /\ reached[s] = Milestone
    /\ closed' = [closed EXCEPT ![s] = TRUE]
    /\ UNCHANGED reached

Next == \E s \in Shipment : Close(s) \/ \E m \in Milestone : Reach(s, m)

Spec == Init /\ [][Next]_<<reached, closed>>
=============================================================================
