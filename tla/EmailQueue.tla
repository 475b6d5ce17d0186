----------------------------- MODULE EmailQueue -----------------------------
(***************************************************************************)
(* The email queue of wms/emailing.py: outbound IntegrationEvents, and the *)
(* runs of process_email_queue that a scheduler, an operator or a script   *)
(* start side by side. A run reads the candidates, claims them one by one  *)
(* with a conditional UPDATE, and only then sends and saves them one by    *)
(* one.                                                                    *)
(*                                                                         *)
(* Time is what the code compares it for: a lease is stale or not when a   *)
(* run starts, a retry is due or not. Counters stop at the last value the  *)
(* code tells apart.                                                       *)
(***************************************************************************)
EXTENDS Naturals, FiniteSets

CONSTANTS
    Event,         \* event ids, in the order they are created
    Worker,        \* runs of the command that may be alive together
    MaxAttempts,   \* EMAIL_QUEUE_MAX_ATTEMPTS
    Limit          \* the command's --limit

ASSUME ConfigAssumption ==
    /\ Event \subseteq Nat
    /\ MaxAttempts \in Nat \ {0}
    /\ Limit \in Nat \ {0}

VARIABLES
    row,       \* the events as committed
    run,       \* what each run holds in memory
    confirmed, \* how many sends of an event reported success, up to 2
    tries,     \* how many sends of an event reported failure, up to MaxAttempts
    lapsed     \* the events one of whose leases ever went stale

vars == <<row, run, confirmed, tries, lapsed>>

Status == {"absent", "pending", "processing", "processed", "failed"}
\* stale: processed_at is older than the processing timeout; due: there is no
\* next_attempt_at in the future.
Row == [status: Status, attempts: 0..MaxAttempts, due: BOOLEAN, stale: BOOLEAN]

\* todo: the candidates not yet looked at; attempts: as read with them;
\* deferred: those that wait for their retry; old: those whose lease was stale
\* when the run started and has not been renewed; selected: those claimed and
\* not yet saved; cur: the one being sent, ok: what its send returned.
Run == [todo: SUBSET Event, attempts: [Event -> 0..MaxAttempts], deferred: SUBSET Event,
        old: SUBSET Event, failedToo: BOOLEAN, selected: SUBSET Event,
        cur: SUBSET Event, ok: BOOLEAN]
Idle == [todo |-> {}, attempts |-> [e \in Event |-> 0], deferred |-> {}, old |-> {},
         failedToo |-> FALSE, selected |-> {}, cur |-> {}, ok |-> FALSE]

\* A run with nothing left is over; one that goes on holds nothing it will not
\* look at again.
Kept(x) ==
    IF x.todo = {} /\ x.selected = {} THEN Idle
    ELSE [x EXCEPT !.attempts = [e \in Event |-> IF e \in x.todo \cup x.selected THEN @[e] ELSE 0],
                   !.deferred = @ \cap x.todo, !.old = @ \cap x.todo,
                   !.failedToo = @ /\ x.todo # {}, !.ok = @ /\ x.cur # {}]

\* A counter that only matters up to top.
UpTo(n, top) == IF n < top THEN n + 1 ELSE top

Init ==
    /\ row = [e \in Event |->
                [status |-> "absent", attempts |-> 0, due |-> TRUE, stale |-> FALSE]]
    /\ run = [w \in Worker |-> Idle]
    /\ confirmed = [e \in Event |-> 0]
    /\ tries = [e \in Event |-> 0]
    /\ lapsed = {}

----------------------------------------------------------------------------
\* enqueue_email_safe.
Enqueue(e) ==
    /\ row[e].status = "absent"
    /\ \A o \in Event : o < e => row[o].status # "absent"
    /\ row' = [row EXCEPT ![e].status = "pending"]
    /\ UNCHANGED <<run, confirmed, tries, lapsed>>

\* _queue_candidate_statuses.
Statuses(failedToo) == IF failedToo THEN {"pending", "failed"} ELSE {"pending"}

\* Mutants of ClaimFilter: a lease never ends; a lease protects nothing.
ClaimFilterForever(e, failedToo, old) == row[e].status \in Statuses(failedToo)
ClaimFilterNoLease(e, failedToo, old) == row[e].status \in Statuses(failedToo) \cup {"processing"}

\* _queue_claim_filter, for a run to which the leases in old are stale.
ClaimFilter(e, failedToo, old) ==
    row[e].status \in Statuses(failedToo) \/ (row[e].status = "processing" /\ e \in old)

\* _selector_queryset: the run reads its candidates.
Start(w, failedToo) ==
    LET old == {e \in Event : row[e].stale}
        candidates == {e \in Event : ClaimFilter(e, failedToo, old)}
    IN  /\ run[w] = Idle /\ candidates # {}
        /\ run' = [run EXCEPT ![w] =
                     Kept([Idle EXCEPT
                        !.todo = candidates, !.attempts = [e \in Event |-> row[e].attempts],
                        !.deferred = {e \in candidates : row[e].status = "pending" /\ ~ row[e].due},
                        !.old = old, !.failedToo = failedToo])]
        /\ UNCHANGED <<row, confirmed, tries, lapsed>>

First(e, set) == e \in set /\ \A o \in set : e <= o
Claiming(w) == run[w].todo # {} /\ Cardinality(run[w].selected) < Limit

\* _should_defer_event.
Defer(w, e) ==
    /\ Claiming(w) /\ First(e, run[w].todo)
    /\ e \in run[w].deferred
    /\ run' = [run EXCEPT ![w] = Kept([run[w] EXCEPT !.todo = @ \ {e}])]
    /\ UNCHANGED <<row, confirmed, tries, lapsed>>

\* Mutant: the UPDATE filters on the id only.
ClaimById(w, e) ==
    /\ Claiming(w) /\ First(e, run[w].todo)
    /\ e \notin run[w].deferred
    /\ row' = [row EXCEPT ![e].status = "processing", ![e].stale = FALSE]
    /\ run' = [run EXCEPT ![w].todo = @ \ {e}, ![w].selected = @ \cup {e}]
    /\ UNCHANGED <<confirmed, tries, lapsed>>

\* _claim_queue_event: the UPDATE filters on the row as it is now.
Claim(w, e) ==
    /\ Claiming(w) /\ First(e, run[w].todo)
    /\ e \notin run[w].deferred
    /\ ClaimFilter(e, run[w].failedToo, run[w].old)
    /\ row' = [row EXCEPT ![e].status = "processing", ![e].stale = FALSE]
    /\ run' = [v \in Worker |->
                 IF v = w
                 THEN Kept([run[w] EXCEPT !.todo = @ \ {e}, !.selected = @ \cup {e}])
                 ELSE [run[v] EXCEPT !.old = @ \ {e}]]
    /\ UNCHANGED <<confirmed, tries, lapsed>>

\* The UPDATE matches no row: another run was faster.
Skip(w, e) ==
    /\ Claiming(w) /\ First(e, run[w].todo)
    /\ e \notin run[w].deferred
    /\ ~ ClaimFilter(e, run[w].failedToo, run[w].old)
    /\ run' = [run EXCEPT ![w] = Kept([run[w] EXCEPT !.todo = @ \ {e}])]
    /\ UNCHANGED <<row, confirmed, tries, lapsed>>

\* _send_event_payload, once the claims are made.
Send(w, e, ok) ==
    /\ ~ Claiming(w) /\ run[w].cur = {} /\ First(e, run[w].selected)
    /\ run' = [run EXCEPT ![w] = Kept([run[w] EXCEPT !.todo = {}, !.cur = {e}, !.ok = ok])]
    /\ confirmed' = IF ok THEN [confirmed EXCEPT ![e] = UpTo(@, 2)] ELSE confirmed
    /\ tries' = IF ok THEN tries ELSE [tries EXCEPT ![e] = UpTo(@, MaxAttempts)]
    /\ UNCHANGED <<row, lapsed>>

\* Mutants of Save: the result is saved as the status; one attempt too few.
SaveResult(w, e) ==
    /\ run[w].cur = {e}
    /\ row' = [row EXCEPT ![e].status = IF run[w].ok THEN "processed" ELSE "retried"]
    /\ run' = [run EXCEPT ![w] = Kept([run[w] EXCEPT !.selected = @ \ {e}, !.cur = {}])]
    /\ UNCHANGED <<confirmed, tries, lapsed>>
SaveFailedEarly(w, e) ==
    /\ run[w].cur = {e}
    /\ row' = [row EXCEPT ![e].status =
                  IF run[w].ok THEN "processed"
                  ELSE IF run[w].attempts[e] + 2 >= MaxAttempts THEN "failed" ELSE "pending"]
    /\ run' = [run EXCEPT ![w] = Kept([run[w] EXCEPT !.selected = @ \ {e}, !.cur = {}])]
    /\ UNCHANGED <<confirmed, tries, lapsed>>

\* _apply_send_result and the save of the event, from the attempts it was read
\* with.
Save(w, e) ==
    LET attempts == IF run[w].ok THEN run[w].attempts[e]
                    ELSE UpTo(run[w].attempts[e], MaxAttempts)
        status == IF run[w].ok THEN "processed"
                  ELSE IF attempts >= MaxAttempts THEN "failed" ELSE "pending"
    IN  /\ run[w].cur = {e}
        /\ row' = [row EXCEPT ![e] = [status |-> status, attempts |-> attempts,
                                      due |-> status # "pending", stale |-> FALSE]]
        /\ run' = [run EXCEPT ![w] = Kept([run[w] EXCEPT !.selected = @ \ {e}, !.cur = {}])]
        /\ UNCHANGED <<confirmed, tries, lapsed>>

\* The process dies, or the send raises what send_email_safe does not catch.
Crash(w) ==
    /\ run[w] # Idle
    /\ run' = [run EXCEPT ![w] = Idle]
    /\ UNCHANGED <<row, confirmed, tries, lapsed>>

\* Time passes: a claim outlives the processing timeout, a retry falls due.
LeaseLapses(e) ==
    /\ row[e].status = "processing" /\ ~ row[e].stale
    /\ row' = [row EXCEPT ![e].stale = TRUE]
    /\ lapsed' = lapsed \cup {e}
    /\ UNCHANGED <<run, confirmed, tries>>
RetryDue(e) ==
    /\ row[e].status = "pending" /\ ~ row[e].due
    /\ row' = [row EXCEPT ![e].due = TRUE]
    /\ UNCHANGED <<run, confirmed, tries, lapsed>>

----------------------------------------------------------------------------
\* The next step of a run that has started.
Advance(w) ==
    \E e \in Event :
        \/ Defer(w, e) \/ Claim(w, e) \/ Skip(w, e)
        \/ \E ok \in BOOLEAN : Send(w, e, ok)
        \/ Save(w, e)

TimePasses == \E e \in Event : LeaseLapses(e) \/ RetryDue(e)

Works(w) == Advance(w) \/ \E failedToo \in BOOLEAN : Start(w, failedToo)

Next ==
    \/ \E e \in Event : Enqueue(e)
    \/ \E w \in Worker : Works(w) \/ Crash(w)
    \/ TimePasses

Spec == Init /\ [][Next]_vars

\* The scheduler keeps starting the plain command, a started run goes on, time
\* passes; nobody asks for the failed events.
Routine ==
    \/ \E e \in Event : Enqueue(e)
    \/ \E w \in Worker : Advance(w) \/ Start(w, FALSE) \/ Crash(w)
    \/ TimePasses
Fairness ==
    /\ \A w \in Worker : WF_vars(Advance(w)) /\ WF_vars(Start(w, FALSE))
    /\ \A e \in Event : WF_vars(LeaseLapses(e)) /\ WF_vars(RetryDue(e))
LiveSpec == Init /\ [][Routine]_vars /\ Fairness

----------------------------------------------------------------------------
(***************************************************************************)
(* Properties.                                                             *)
(***************************************************************************)
\* The rows and the runs hold what their fields may hold.
TypeOK ==
    /\ row \in [Event -> Row]
    /\ run \in [Worker -> Run]
    /\ confirmed \in [Event -> 0..2]
    /\ tries \in [Event -> 0..MaxAttempts]
    /\ lapsed \subseteq Event

\* Two runs hold one event only if a lease of it went stale: the claim is the
\* mutual exclusion, whatever each run read before.
ExclusiveClaim ==
    \A v, w \in Worker : v # w => run[v].selected \cap run[w].selected \subseteq lapsed

\* An email is sent twice with success only if a lease of it went stale; a
\* crash alone, and runs that overlap, do not repeat it.
DuplicateOnlyAfterLapse ==
    \A e \in Event : confirmed[e] > 1 => e \in lapsed

\* What an event says is backed by what was sent: processed, a send succeeded;
\* failed, MaxAttempts sends failed; never more attempts than failures, however
\* runs overwrite each other's payload.
OutcomesEarned ==
    \A e \in Event :
        /\ row[e].status = "processed" => confirmed[e] > 0
        /\ row[e].status = "failed" => tries[e] = MaxAttempts
        /\ row[e].attempts <= tries[e]

\* An event that was sent leaves PROCESSED only by the late save of a run whose
\* lease went stale.
SentStaysSent ==
    [][\A e \in Event :
          row[e].status = "processed" /\ row'[e].status # "processed" => e \in lapsed]_vars

\* The runs of the command take and settle emails like the workers of a leased
\* queue.
EQ == INSTANCE LeasedQueue WITH
        Job <- Event, state <- [e \in Event |-> row[e].status],
        holders <- [e \in Event |-> {w \in Worker : e \in run[w].selected}]
EmailsAreLeased == EQ!Spec

\* If runs stop dying, every queued email is in the end sent or given up: claims
\* left by dead runs are taken over, and no event is starved by those before it.
QueueDrains ==
    <>[][\A w \in Worker : ~ Crash(w)]_vars =>
        \A e \in Event : row[e].status = "pending" ~> row[e].status \in {"processed", "failed"}
=============================================================================
