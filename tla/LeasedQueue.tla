----------------------------- MODULE LeasedQueue -----------------------------
(***************************************************************************)
(* What the job queues of wms/ promise to each other's runs: a job is held *)
(* by one worker at a time for as long as its lease lasts, a job that is   *)
(* done is never taken again, and only the worker that holds a job settles *)
(* it. EmailQueue and DocumentScanQueue implement it; the synchronization  *)
(* of print artifacts, which claims nothing, does not.                     *)
(***************************************************************************)
EXTENDS FiniteSets

CONSTANTS Job, Worker

VARIABLES
    state,    \* where each job stands
    holders,  \* the workers that hold it
    lapsed    \* the jobs one of whose leases ended before they were settled

vars == <<state, holders, lapsed>>

Init ==
    /\ state = [j \in Job |-> "absent"]
    /\ holders = [j \in Job |-> {}]
    /\ lapsed = {}

Add(j) ==
    /\ state[j] = "absent"
    /\ state' = [state EXCEPT ![j] = "pending"]
    /\ UNCHANGED <<holders, lapsed>>

\* A job in hand is taken over only once its lease has lapsed.
Take(w, j) ==
    /\ state[j] \in {"pending", "failed", "processing"}
    /\ j \notin lapsed => state[j] # "processing" /\ holders[j] = {}
    /\ state' = [state EXCEPT ![j] = "processing"]
    /\ holders' = [holders EXCEPT ![j] = @ \cup {w}]
    /\ UNCHANGED lapsed

Settle(w, j) ==
    /\ w \in holders[j]
    /\ \E outcome \in {"pending", "processed", "failed"} :
          state' = [state EXCEPT ![j] = outcome]
    /\ holders' = [holders EXCEPT ![j] = @ \ {w}]
    /\ UNCHANGED lapsed

\* A worker that dies leaves what it held in processing.
Drop(w) ==
    /\ holders' = [j \in Job |-> holders[j] \ {w}]
    /\ UNCHANGED <<state, lapsed>>

Lapse(j) ==
    /\ state[j] = "processing"
    /\ lapsed' = lapsed \cup {j}
    /\ UNCHANGED <<state, holders>>

Next ==
    \/ \E j \in Job : Add(j) \/ Lapse(j)
    \/ \E w \in Worker : Drop(w) \/ \E j \in Job : Take(w, j) \/ Settle(w, j)

Spec == Init /\ [][Next]_vars
=============================================================================
