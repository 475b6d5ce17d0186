-------------------------- MODULE EmailQueueProofs --------------------------
(***************************************************************************)
(* What the email queue keeps true for any events, any number of runs that *)
(* overlap and die, any limit and any number of attempts.                  *)
(***************************************************************************)
EXTENDS EmailQueue, TLAPS

\* What a run x remembers is no more than what happened.
Faithful(x) ==
    /\ x \in Run
    /\ x.cur \subseteq x.selected
    /\ x.old \subseteq lapsed
    /\ \A e \in Event : x.attempts[e] <= tries[e]
    /\ \A e \in x.cur : /\ x.ok => confirmed[e] > 0
                        /\ ~ x.ok => UpTo(x.attempts[e], MaxAttempts) <= tries[e]

\* A stale lease is known, and an event held under a lease that never went
\* stale is in PROCESSING.
LeasesKnown ==
    /\ \A e \in Event : row[e].stale => e \in lapsed
    /\ \A w \in Worker : \A e \in run[w].selected \ lapsed : row[e].status = "processing"

\* While no lease of an event lapsed, its one success is saved or about to be
\* by whoever holds it.
SentOnce ==
    \A e \in Event \ lapsed :
        /\ confirmed[e] <= 1
        /\ confirmed[e] > 0 =>
              \/ row[e].status = "processed"
              \/ /\ row[e].status = "processing"
                 /\ \A w \in Worker : e \in run[w].selected => run[w].cur = {e} /\ run[w].ok

IInv ==
    /\ TypeOK
    /\ \A w \in Worker : Faithful(run[w])
    /\ ExclusiveClaim
    /\ LeasesKnown
    /\ OutcomesEarned
    /\ SentOnce

(***************************************************************************)
(* The bookkeeping of a run.                                               *)
(***************************************************************************)
LEMMA UpToFacts ==
    ASSUME NEW top \in Nat, NEW n \in 0..top
    PROVE  /\ UpTo(n, top) \in 0..top /\ n <= UpTo(n, top)
           /\ \A m \in 0..top : n <= m => UpTo(n, top) <= UpTo(m, top)
           /\ top > 0 => UpTo(n, top) > 0
  BY DEF UpTo

LEMMA IdleIsRun == Idle \in Run
  BY ConfigAssumption DEF Idle, Run

\* Forgetting what is done with changes nothing of what a run holds.
LEMMA KeptFacts ==
    ASSUME NEW x \in Run, x.cur \subseteq x.selected
    PROVE  /\ Kept(x) \in Run
           /\ Kept(x).selected = x.selected /\ Kept(x).cur = x.cur
           /\ Kept(x).old \subseteq x.old
           /\ x.cur # {} => Kept(x).ok = x.ok
           /\ \A e \in Event : Kept(x).attempts[e] \in {0, x.attempts[e]}
           /\ \A e \in x.selected : Kept(x).attempts[e] = x.attempts[e]
  <1>1. CASE x.todo = {} /\ x.selected = {}
    <2>1. Kept(x) = Idle
      BY <1>1 DEF Kept
    <2>2. /\ Idle.selected = {} /\ Idle.cur = {} /\ Idle.old = {}
          /\ \A e \in Event : Idle.attempts[e] = 0
      BY DEF Idle
    <2>3. x.selected = {} /\ x.cur = {}
      BY <1>1
    <2> QED
      BY <2>1, <2>2, <2>3, IdleIsRun
  <1>2. CASE ~ (x.todo = {} /\ x.selected = {})
    <2> DEFINE attempts == [e \in Event |-> IF e \in x.todo \cup x.selected THEN x.attempts[e] ELSE 0]
               y == [x EXCEPT !.attempts = attempts, !.deferred = @ \cap x.todo,
                              !.old = @ \cap x.todo, !.failedToo = @ /\ x.todo # {},
                              !.ok = @ /\ x.cur # {}]
    <2>1. Kept(x) = y
      BY <1>2 DEF Kept, Run
    <2>2. attempts \in [Event -> 0..MaxAttempts]
      BY ConfigAssumption DEF Run
    <2>3. /\ \A e \in Event : attempts[e] \in {0, x.attempts[e]}
          /\ \A e \in x.selected : attempts[e] = x.attempts[e]
      BY DEF Run
    <2> HIDE DEF attempts
    <2>4. (x.failedToo /\ x.todo # {}) \in BOOLEAN /\ (x.ok /\ x.cur # {}) \in BOOLEAN
      OBVIOUS
    <2>5. y \in Run
      BY <2>2, <2>4 DEF Run
    <2>6. /\ y.selected = x.selected /\ y.cur = x.cur /\ y.old = x.old \cap x.todo
          /\ y.attempts = attempts /\ y.ok = (x.ok /\ x.cur # {})
      BY DEF Run
    <2>7. x.cur # {} => y.ok = x.ok
      BY <2>6 DEF Run
    <2> QED
      BY <2>1, <2>3, <2>5, <2>6, <2>7
  <1> QED
    BY <1>1, <1>2

\* A run that forgets what is done with stays faithful.
LEMMA KeptFaithful ==
    ASSUME NEW x \in Run, Faithful(x), TypeOK
    PROVE  Faithful(Kept(x))
  <1>1. /\ Kept(x) \in Run
        /\ Kept(x).selected = x.selected /\ Kept(x).cur = x.cur
        /\ Kept(x).old \subseteq x.old
        /\ x.cur # {} => Kept(x).ok = x.ok
        /\ \A e \in Event : Kept(x).attempts[e] \in {0, x.attempts[e]}
        /\ \A e \in x.selected : Kept(x).attempts[e] = x.attempts[e]
    BY KeptFacts DEF Faithful
  <1>2. \A e \in Event : tries[e] \in Nat
    BY ConfigAssumption DEF TypeOK
  <1>3. \A e \in Event : Kept(x).attempts[e] <= tries[e]
    BY <1>1, <1>2 DEF Faithful
  <1>4. Kept(x).cur \subseteq Kept(x).selected /\ Kept(x).old \subseteq lapsed
    BY <1>1 DEF Faithful
  <1>5. \A e \in Kept(x).cur : /\ Kept(x).ok => confirmed[e] > 0
                               /\ ~ Kept(x).ok => UpTo(Kept(x).attempts[e], MaxAttempts) <= tries[e]
    <2> SUFFICES ASSUME NEW e \in x.cur
                 PROVE  /\ Kept(x).ok => confirmed[e] > 0
                        /\ ~ Kept(x).ok => UpTo(Kept(x).attempts[e], MaxAttempts) <= tries[e]
      BY <1>1
    <2>1. Kept(x).ok = x.ok /\ Kept(x).attempts[e] = x.attempts[e]
      BY <1>1 DEF Faithful
    <2> QED
      BY <2>1 DEF Faithful
  <1> QED
    BY <1>1, <1>3, <1>4, <1>5 DEF Faithful

\* A step that only replaces what run w holds in memory, by no more than it
\* held.
LEMMA RunStep ==
    ASSUME IInv, NEW w \in Worker, NEW x \in Run, Faithful(x),
           x.selected \subseteq run[w].selected,
           x.selected # {} => x.cur = run[w].cur /\ (x.cur # {} => x.ok = run[w].ok),
           run' = [run EXCEPT ![w] = x],
           UNCHANGED <<row, confirmed, tries, lapsed>>
    PROVE  IInv'
  <1>1. /\ \A v \in Worker : run'[v] = IF v = w THEN x ELSE run[v]
        /\ run' \in [Worker -> Run]
    BY DEF IInv, TypeOK
  <1>2. TypeOK'
    BY <1>1 DEF IInv, TypeOK
  <1>3. (\A v \in Worker : Faithful(run[v]))'
    BY <1>1 DEF IInv, Faithful
  <1>4. ExclusiveClaim' /\ LeasesKnown'
    BY <1>1 DEF IInv, ExclusiveClaim, LeasesKnown
  <1>5. OutcomesEarned'
    BY DEF IInv, OutcomesEarned
  <1>6. SentOnce'
    BY <1>1 DEF IInv, SentOnce
  <1> QED
    BY <1>2, <1>3, <1>4, <1>5, <1>6 DEF IInv

(***************************************************************************)
(* One lemma per action.                                                   *)
(***************************************************************************)
LEMMA InitHolds == Init => IInv
  <1> SUFFICES ASSUME Init PROVE IInv
    OBVIOUS
  <1>1. /\ \A w \in Worker : run[w] = Idle
        /\ \A e \in Event : /\ row[e] = [status |-> "absent", attempts |-> 0,
                                         due |-> TRUE, stale |-> FALSE]
                            /\ confirmed[e] = 0 /\ tries[e] = 0
        /\ lapsed = {}
    BY DEF Init
  <1>2. Idle.selected = {} /\ Idle.cur = {} /\ Idle.old = {} /\ \A e \in Event : Idle.attempts[e] = 0
    BY DEF Idle
  <1>3. TypeOK
    BY IdleIsRun, ConfigAssumption DEF Init, TypeOK, Row, Status
  <1>4. \A w \in Worker : Faithful(run[w])
    BY <1>1, <1>2, IdleIsRun DEF Faithful
  <1>5. ExclusiveClaim /\ LeasesKnown /\ OutcomesEarned /\ SentOnce
    BY <1>1, <1>2 DEF ExclusiveClaim, LeasesKnown, OutcomesEarned, SentOnce
  <1> QED
    BY <1>3, <1>4, <1>5 DEF IInv

LEMMA EnqueueKeeps ==
    ASSUME IInv, NEW e \in Event, Enqueue(e)
    PROVE  IInv'
  <1>1. row' \in [Event -> Row] /\ UNCHANGED <<run, confirmed, tries, lapsed>>
    BY DEF IInv, TypeOK, Enqueue, Row, Status
  <1>2. /\ row[e].status = "absent"
        /\ row'[e].status = "pending" /\ row'[e].stale = row[e].stale
        /\ row'[e].attempts = row[e].attempts
        /\ \A o \in Event : o # e => row'[o] = row[o]
    BY DEF IInv, TypeOK, Enqueue, Row
  <1>3. TypeOK'
    BY <1>1 DEF IInv, TypeOK
  <1>4. (\A v \in Worker : Faithful(run[v]))' /\ ExclusiveClaim'
    BY <1>1 DEF IInv, Faithful, ExclusiveClaim
  <1>5. LeasesKnown'
    <2>1. \A v \in Worker : run[v].selected \subseteq Event
      BY DEF IInv, TypeOK, Run
    <2> QED
      BY <1>1, <1>2, <2>1 DEF IInv, LeasesKnown
  <1>6. OutcomesEarned'
    BY <1>1, <1>2 DEF IInv, OutcomesEarned
  <1>7. SentOnce'
    BY <1>1, <1>2 DEF IInv, SentOnce
  <1> QED
    BY <1>3, <1>4, <1>5, <1>6, <1>7 DEF IInv

LEMMA StartKeeps ==
    ASSUME IInv, NEW w \in Worker, NEW failedToo \in BOOLEAN, Start(w, failedToo)
    PROVE  IInv'
  <1> DEFINE old == {e \in Event : row[e].stale}
             candidates == {e \in Event : ClaimFilter(e, failedToo, old)}
             deferred == {e \in candidates : row[e].status = "pending" /\ ~ row[e].due}
             attempts == [e \in Event |-> row[e].attempts]
             x == [Idle EXCEPT !.todo = candidates, !.attempts = attempts,
                               !.deferred = deferred, !.old = old, !.failedToo = failedToo]
  <1>1. /\ run' = [run EXCEPT ![w] = Kept(x)]
        /\ UNCHANGED <<row, confirmed, tries, lapsed>>
    BY DEF Start
  <1>2. attempts \in [Event -> 0..MaxAttempts]
    BY DEF IInv, TypeOK, Row
  <1>3. \A e \in Event : attempts[e] <= tries[e]
    BY DEF IInv, OutcomesEarned
  <1>4. old \subseteq lapsed /\ old \subseteq Event /\ candidates \subseteq Event /\ deferred \subseteq Event
    BY DEF IInv, LeasesKnown
  <1> HIDE DEF attempts, old, candidates, deferred
  <1>5. x \in Run /\ x.old = old /\ x.attempts = attempts /\ x.cur = {} /\ x.selected = {}
    BY <1>2, <1>4 DEF Idle, Run
  <1> HIDE DEF x
  <1>6. Faithful(x)
    BY <1>3, <1>4, <1>5 DEF Faithful
  <1>7. Kept(x) \in Run /\ Kept(x).selected = {}
    BY <1>5, KeptFacts
  <1>8. Faithful(Kept(x))
    BY <1>5, <1>6, KeptFaithful DEF IInv
  <1> QED
    BY <1>1, <1>7, <1>8, RunStep

\* Defer and Skip: the run goes past a candidate.
LEMMA PassesOver ==
    ASSUME IInv, NEW w \in Worker, NEW e \in Event,
           run' = [run EXCEPT ![w] = Kept([run[w] EXCEPT !.todo = @ \ {e}])],
           UNCHANGED <<row, confirmed, tries, lapsed>>
    PROVE  IInv'
  <1> DEFINE x == [run[w] EXCEPT !.todo = @ \ {e}]
  <1>1. run[w] \in Run /\ Faithful(run[w])
    BY DEF IInv, TypeOK
  <1>2. /\ x \in Run /\ x.selected = run[w].selected /\ x.cur = run[w].cur
        /\ x.ok = run[w].ok /\ x.old = run[w].old /\ x.attempts = run[w].attempts
    BY <1>1 DEF Run
  <1>3. run' = [run EXCEPT ![w] = Kept(x)]
    OBVIOUS
  <1> HIDE DEF x
  <1>4. Faithful(x)
    BY <1>1, <1>2 DEF Faithful
  <1>5. /\ Kept(x) \in Run
        /\ Kept(x).selected = x.selected /\ Kept(x).cur = x.cur
        /\ x.cur # {} => Kept(x).ok = x.ok
    BY <1>2, <1>4, KeptFacts DEF Faithful
  <1>6. Faithful(Kept(x))
    BY <1>2, <1>4, KeptFaithful DEF IInv
  <1> QED
    BY <1>2, <1>3, <1>5, <1>6, RunStep

LEMMA CrashKeeps ==
    ASSUME IInv, NEW w \in Worker, Crash(w)
    PROVE  IInv'
  <1>1. Idle.selected = {} /\ Idle.cur = {} /\ Idle.old = {} /\ \A e \in Event : Idle.attempts[e] = 0
    BY DEF Idle
  <1>2. \A e \in Event : tries[e] \in Nat
    BY ConfigAssumption DEF IInv, TypeOK
  <1>3. Faithful(Idle)
    BY <1>1, <1>2, IdleIsRun DEF Faithful
  <1> QED
    BY <1>1, <1>3, IdleIsRun, RunStep DEF Crash

\* The UPDATE finds an event that nobody holds under a live lease: whoever held
\* it before has seen its lease lapse.
LEMMA ClaimKeeps ==
    ASSUME IInv, NEW w \in Worker, NEW e \in Event, Claim(w, e)
    PROVE  IInv' /\ (e \in lapsed \/ row[e].status # "processed")
  <1> DEFINE x == [run[w] EXCEPT !.todo = @ \ {e}, !.selected = @ \cup {e}]
  <1>1. /\ run[w] \in Run /\ Faithful(run[w])
        /\ \A v \in Worker : run[v].selected \subseteq Event
    BY DEF IInv, TypeOK, Run
  <1>2. /\ x \in Run /\ x.selected = run[w].selected \cup {e} /\ x.cur = run[w].cur
        /\ x.ok = run[w].ok /\ x.old = run[w].old /\ x.attempts = run[w].attempts
    BY <1>1 DEF Run
  <1>3. run' = [v \in Worker |-> IF v = w THEN Kept(x) ELSE [run[v] EXCEPT !.old = @ \ {e}]]
    BY DEF Claim
  <1> HIDE DEF x
  <1>4. Faithful(x)
    BY <1>1, <1>2 DEF Faithful
  <1>5. /\ Kept(x) \in Run
        /\ Kept(x).selected = x.selected /\ Kept(x).cur = x.cur
        /\ x.cur # {} => Kept(x).ok = x.ok
    BY <1>2, <1>4, KeptFacts DEF Faithful
  <1>6. Faithful(Kept(x))
    BY <1>2, <1>4, KeptFaithful DEF IInv
  <1>7. \A v \in Worker \ {w} :
           /\ run'[v] \in Run
           /\ run'[v].selected = run[v].selected /\ run'[v].cur = run[v].cur
           /\ run'[v].ok = run[v].ok /\ run'[v].attempts = run[v].attempts
           /\ run'[v].old \subseteq run[v].old
    <2> SUFFICES ASSUME NEW v \in Worker \ {w}
                 PROVE  /\ run'[v] \in Run
                        /\ run'[v].selected = run[v].selected /\ run'[v].cur = run[v].cur
                        /\ run'[v].ok = run[v].ok /\ run'[v].attempts = run[v].attempts
                        /\ run'[v].old \subseteq run[v].old
      OBVIOUS
    <2>1. run'[v] = [run[v] EXCEPT !.old = @ \ {e}] /\ run[v] \in Run
      BY <1>3 DEF IInv, TypeOK
    <2> QED
      BY <2>1 DEF Run
  <1>8. /\ run'[w] = Kept(x)
        /\ UNCHANGED <<confirmed, tries, lapsed>>
    BY <1>3 DEF Claim
  <1>9. /\ row'[e].status = "processing" /\ row'[e].stale = FALSE
        /\ row'[e].attempts = row[e].attempts
        /\ \A o \in Event : o # e => row'[o] = row[o]
        /\ row' \in [Event -> Row]
    <2>1. /\ row' = [row EXCEPT ![e].status = "processing", ![e].stale = FALSE]
          /\ row[e] \in Row /\ row \in [Event -> Row]
      BY DEF Claim, IInv, TypeOK
    <2> QED
      BY <2>1 DEF Row, Status
  <1>10. \/ e \in lapsed
         \/ /\ row[e].status \in {"pending", "failed"}
            /\ \A v \in Worker : e \notin run[v].selected
    <2>1. CASE row[e].status \in {"pending", "failed"}
      BY <2>1 DEF IInv, LeasesKnown
    <2>2. CASE row[e].status = "processing" /\ e \in run[w].old
      BY <1>1, <2>2 DEF Faithful
    <2> QED
      BY <2>1, <2>2 DEF Claim, ClaimFilter, Statuses
  <1>11. TypeOK'
    <2>1. run' \in [Worker -> Run]
      BY <1>3, <1>5, <1>7
    <2> QED
      BY <1>8, <1>9, <2>1 DEF IInv, TypeOK
  <1>12. (\A v \in Worker : Faithful(run[v]))'
    <2>1. Faithful(run[w])'
      BY <1>6, <1>8 DEF Faithful
    <2>2. \A v \in Worker \ {w} : Faithful(run[v])'
      BY <1>7, <1>8 DEF IInv, Faithful
    <2> QED
      BY <2>1, <2>2
  <1>13. ExclusiveClaim'
    BY <1>2, <1>5, <1>7, <1>8, <1>10 DEF IInv, ExclusiveClaim
  <1>14. LeasesKnown'
    <2>1. \A o \in Event : row'[o].stale => o \in lapsed
      BY <1>9 DEF IInv, LeasesKnown
    <2>2. \A v \in Worker : run'[v].selected \subseteq run[v].selected \cup {e}
      BY <1>2, <1>5, <1>7, <1>8
    <2>3. \A v \in Worker : \A o \in run'[v].selected \ lapsed : row'[o].status = "processing"
      BY <1>1, <1>9, <2>2 DEF IInv, LeasesKnown
    <2> QED
      BY <1>8, <2>1, <2>3 DEF LeasesKnown
  <1>15. OutcomesEarned'
    BY <1>8, <1>9 DEF IInv, OutcomesEarned
  <1>16. SentOnce'
    <2> SUFFICES ASSUME NEW o \in Event \ lapsed
                 PROVE  /\ confirmed[o] <= 1
                        /\ confirmed[o] > 0 =>
                              \/ row'[o].status = "processed"
                              \/ /\ row'[o].status = "processing"
                                 /\ \A v \in Worker : o \in run'[v].selected
                                                         => run'[v].cur = {o} /\ run'[v].ok
      BY <1>8 DEF SentOnce
    <2>1. CASE o = e
      BY <1>10, <2>1 DEF IInv, SentOnce
    <2>2. CASE o # e
      <3>1. /\ confirmed[o] <= 1
            /\ confirmed[o] > 0 =>
                  \/ row[o].status = "processed"
                  \/ /\ row[o].status = "processing"
                     /\ \A v \in Worker : o \in run[v].selected => run[v].cur = {o} /\ run[v].ok
        BY DEF IInv, SentOnce
      <3>2. \A v \in Worker : o \in run'[v].selected => o \in run[v].selected
        BY <1>2, <1>5, <1>7, <1>8, <2>2
      <3>3. \A v \in Worker : run[v].cur = {o} /\ run[v].ok => run'[v].cur = {o} /\ run'[v].ok
        BY <1>2, <1>5, <1>7, <1>8
      <3> QED
        BY <1>9, <2>2, <3>1, <3>2, <3>3
    <2> QED
      BY <2>1, <2>2
  <1> QED
    BY <1>10, <1>11, <1>12, <1>13, <1>14, <1>15, <1>16 DEF IInv

LEMMA LeaseLapsesKeeps ==
    ASSUME IInv, NEW e \in Event, LeaseLapses(e)
    PROVE  IInv'
  <1>1. /\ row' \in [Event -> Row]
        /\ UNCHANGED <<run, confirmed, tries>> /\ lapsed' = lapsed \cup {e}
    BY DEF IInv, TypeOK, LeaseLapses, Row
  <1>2. /\ row'[e].status = row[e].status /\ row'[e].attempts = row[e].attempts
        /\ \A o \in Event : o # e => row'[o] = row[o]
    BY DEF IInv, TypeOK, LeaseLapses, Row
  <1>3. \A v \in Worker : run[v].selected \subseteq Event
    BY DEF IInv, TypeOK, Run
  <1>4. TypeOK'
    BY <1>1 DEF IInv, TypeOK
  <1>5. (\A v \in Worker : Faithful(run[v]))' /\ ExclusiveClaim'
    BY <1>1 DEF IInv, Faithful, ExclusiveClaim
  <1>6. LeasesKnown'
    BY <1>1, <1>2, <1>3 DEF IInv, LeasesKnown
  <1>7. OutcomesEarned'
    BY <1>1, <1>2 DEF IInv, OutcomesEarned
  <1>8. SentOnce'
    BY <1>1, <1>2 DEF IInv, SentOnce
  <1> QED
    BY <1>4, <1>5, <1>6, <1>7, <1>8 DEF IInv

LEMMA RetryDueKeeps ==
    ASSUME IInv, NEW e \in Event, RetryDue(e)
    PROVE  IInv'
  <1>1. row' \in [Event -> Row] /\ UNCHANGED <<run, confirmed, tries, lapsed>>
    BY DEF IInv, TypeOK, RetryDue, Row
  <1>2. \A o \in Event : /\ row'[o].status = row[o].status
                         /\ row'[o].attempts = row[o].attempts
                         /\ row'[o].stale = row[o].stale
    BY DEF IInv, TypeOK, RetryDue, Row
  <1>3. \A v \in Worker : run[v].selected \subseteq Event
    BY DEF IInv, TypeOK, Run
  <1>4. TypeOK'
    BY <1>1 DEF IInv, TypeOK
  <1>5. (\A v \in Worker : Faithful(run[v]))' /\ ExclusiveClaim'
    BY <1>1 DEF IInv, Faithful, ExclusiveClaim
  <1>6. LeasesKnown'
    BY <1>1, <1>2, <1>3 DEF IInv, LeasesKnown
  <1>7. OutcomesEarned'
    BY <1>1, <1>2 DEF IInv, OutcomesEarned
  <1>8. SentOnce'
    BY <1>1, <1>2 DEF IInv, SentOnce
  <1> QED
    BY <1>4, <1>5, <1>6, <1>7, <1>8 DEF IInv

\* A send under a live lease is the first with success.
LEMMA SendKeeps ==
    ASSUME IInv, NEW w \in Worker, NEW e \in Event, NEW ok \in BOOLEAN, Send(w, e, ok)
    PROVE  IInv'
  <1> DEFINE x == [run[w] EXCEPT !.todo = {}, !.cur = {e}, !.ok = ok]
  <1>1. /\ run[w] \in Run /\ Faithful(run[w]) /\ e \in run[w].selected /\ run[w].cur = {}
        /\ \A v \in Worker : run[v].selected \subseteq Event
    BY DEF IInv, TypeOK, Run, Send, First
  <1>2. /\ x \in Run /\ x.selected = run[w].selected /\ x.cur = {e}
        /\ x.ok = ok /\ x.old = run[w].old /\ x.attempts = run[w].attempts
    BY <1>1 DEF Run
  <1>3. run' = [run EXCEPT ![w] = Kept(x)] /\ UNCHANGED <<row, lapsed>>
    BY DEF Send
  <1> HIDE DEF x
  <1>4. \A o \in Event : /\ confirmed[o] \in 0..2 /\ confirmed'[o] \in 0..2
                         /\ confirmed[o] <= confirmed'[o]
                         /\ confirmed'[o] # confirmed[o] => o = e /\ ok
                         /\ tries[o] \in 0..MaxAttempts /\ tries'[o] \in 0..MaxAttempts
                         /\ tries[o] <= tries'[o]
    BY ConfigAssumption DEF Send, UpTo, IInv, TypeOK
  <1>5. /\ ok => confirmed'[e] > 0 /\ confirmed'[e] = UpTo(confirmed[e], 2)
        /\ ~ ok => tries'[e] = UpTo(tries[e], MaxAttempts)
    BY ConfigAssumption DEF Send, UpTo, IInv, TypeOK
  <1>6. confirmed' \in [Event -> 0..2] /\ tries' \in [Event -> 0..MaxAttempts]
    BY ConfigAssumption DEF Send, UpTo, IInv, TypeOK
  <1>7. /\ Kept(x) \in Run
        /\ Kept(x).selected = run[w].selected /\ Kept(x).cur = {e} /\ Kept(x).ok = ok
        /\ Kept(x).old \subseteq run[w].old
        /\ Kept(x).attempts[e] = run[w].attempts[e]
        /\ \A o \in Event : Kept(x).attempts[o] \in {0, run[w].attempts[o]}
    BY <1>1, <1>2, KeptFacts
  <1>8. /\ \A v \in Worker : run'[v] = IF v = w THEN Kept(x) ELSE run[v]
        /\ run' \in [Worker -> Run]
    BY <1>3, <1>7 DEF IInv, TypeOK
  <1>9. TypeOK'
    BY <1>3, <1>6, <1>8 DEF IInv, TypeOK
  <1>10. (\A v \in Worker : Faithful(run[v]))'
    <2>1. run[w].attempts[e] \in 0..MaxAttempts /\ run[w].attempts[e] <= tries[e]
      BY <1>1 DEF Faithful, Run
    <2>2. ~ ok => UpTo(Kept(x).attempts[e], MaxAttempts) <= tries'[e]
      BY <1>4, <1>5, <1>7, <2>1, UpToFacts, ConfigAssumption
    <2>3. \A o \in Event : Kept(x).attempts[o] <= tries'[o]
      BY <1>1, <1>4, <1>7, ConfigAssumption DEF Faithful, Run
    <2>4. /\ run'[w] \in Run /\ run'[w].selected = run[w].selected /\ run'[w].cur = {e}
          /\ run'[w].ok = ok /\ run'[w].old \subseteq lapsed'
          /\ \A o \in Event : run'[w].attempts[o] <= tries'[o]
          /\ ~ ok => UpTo(run'[w].attempts[e], MaxAttempts) <= tries'[e]
      BY <1>1, <1>3, <1>7, <1>8, <2>2, <2>3 DEF Faithful
    <2>5. Faithful(run[w])'
      BY <1>1, <1>5, <2>4 DEF Faithful
    <2>6. \A v \in Worker \ {w} : Faithful(run[v])'
      <3> SUFFICES ASSUME NEW v \in Worker \ {w} PROVE Faithful(run[v])'
        OBVIOUS
      <3>1. run'[v] = run[v] /\ Faithful(run[v]) /\ run[v] \in Run
        BY <1>8 DEF IInv, TypeOK
      <3>2. \A o \in Event : run[v].attempts[o] <= tries'[o]
        BY <1>4, <3>1, ConfigAssumption DEF Faithful, Run
      <3>3. \A o \in run[v].cur : /\ run[v].ok => confirmed'[o] > 0
                                  /\ ~ run[v].ok => UpTo(run[v].attempts[o], MaxAttempts) <= tries'[o]
        <4> SUFFICES ASSUME NEW o \in run[v].cur
                     PROVE  /\ run[v].ok => confirmed'[o] > 0
                            /\ ~ run[v].ok => UpTo(run[v].attempts[o], MaxAttempts) <= tries'[o]
          OBVIOUS
        <4>1. o \in Event /\ UpTo(run[v].attempts[o], MaxAttempts) \in 0..MaxAttempts
          BY <3>1, UpToFacts, ConfigAssumption DEF Run
        <4> QED
          BY <1>4, <3>1, <4>1, ConfigAssumption DEF Faithful
      <3> QED
        BY <1>3, <3>1, <3>2, <3>3 DEF Faithful
    <2> QED
      BY <2>5, <2>6
  <1>11. \A v \in Worker : run'[v].selected = run[v].selected
    BY <1>7, <1>8
  <1>12. ExclusiveClaim' /\ LeasesKnown'
    BY <1>3, <1>11 DEF IInv, ExclusiveClaim, LeasesKnown
  <1>13. OutcomesEarned'
    BY <1>3, <1>4, ConfigAssumption DEF IInv, OutcomesEarned, TypeOK, Row
  <1>14. SentOnce'
    <2> SUFFICES ASSUME NEW o \in Event \ lapsed
                 PROVE  /\ confirmed'[o] <= 1
                        /\ confirmed'[o] > 0 =>
                              \/ row[o].status = "processed"
                              \/ /\ row[o].status = "processing"
                                 /\ \A v \in Worker : o \in run'[v].selected
                                                         => run'[v].cur = {o} /\ run'[v].ok
      BY <1>3 DEF SentOnce
    <2>1. /\ confirmed[o] <= 1
          /\ confirmed[o] > 0 =>
                \/ row[o].status = "processed"
                \/ /\ row[o].status = "processing"
                   /\ \A v \in Worker : o \in run[v].selected => run[v].cur = {o} /\ run[v].ok
      BY DEF IInv, SentOnce
    <2>2. CASE o = e
      <3>1. row[e].status = "processing"
        BY <1>1, <2>2 DEF IInv, LeasesKnown
      <3>2. confirmed[e] = 0
        BY <1>1, <1>4, <2>1, <2>2, <3>1
      <3>3. confirmed'[e] <= 1 /\ (confirmed'[e] > 0 => ok)
        BY <1>4, <1>5, <3>2 DEF UpTo
      <3>4. \A v \in Worker : e \in run'[v].selected => v = w
        BY <1>1, <1>11, <2>2 DEF IInv, ExclusiveClaim
      <3> QED
        BY <1>7, <1>8, <2>2, <3>1, <3>3, <3>4
    <2>3. CASE o # e
      <3>1. confirmed'[o] = confirmed[o]
        BY <1>4, <2>3
      <3>2. CASE o \in run[w].selected
        BY <1>1, <2>1, <3>1, <3>2 DEF IInv, LeasesKnown
      <3>3. CASE o \notin run[w].selected
        BY <1>7, <1>8, <2>1, <3>1, <3>3
      <3> QED
        BY <3>2, <3>3
    <2> QED
      BY <2>2, <2>3
  <1> QED
    BY <1>9, <1>10, <1>12, <1>13, <1>14 DEF IInv

\* A run that saves under a live lease saves the one result there is.
LEMMA SaveKeeps ==
    ASSUME IInv, NEW w \in Worker, NEW e \in Event, Save(w, e)
    PROVE  IInv' /\ (e \in lapsed \/ row[e].status = "processing")
  <1> DEFINE x == [run[w] EXCEPT !.selected = @ \ {e}, !.cur = {}]
             attempts == IF run[w].ok THEN run[w].attempts[e]
                         ELSE UpTo(run[w].attempts[e], MaxAttempts)
             status == IF run[w].ok THEN "processed"
                       ELSE IF attempts >= MaxAttempts THEN "failed" ELSE "pending"
  <1>1. /\ run[w] \in Run /\ Faithful(run[w]) /\ e \in run[w].selected /\ run[w].cur = {e}
        /\ \A v \in Worker : run[v].selected \subseteq Event
    BY DEF IInv, TypeOK, Run, Save, Faithful
  <1>2. /\ x \in Run /\ x.selected = run[w].selected \ {e} /\ x.cur = {}
        /\ x.old = run[w].old /\ x.attempts = run[w].attempts
    BY <1>1 DEF Run
  <1>3. /\ run' = [run EXCEPT ![w] = Kept(x)]
        /\ row' = [row EXCEPT ![e] = [status |-> status, attempts |-> attempts,
                                      due |-> status # "pending", stale |-> FALSE]]
        /\ UNCHANGED <<confirmed, tries, lapsed>>
    BY DEF Save
  <1> HIDE DEF x
  <1>4. attempts \in 0..MaxAttempts /\ tries[e] \in 0..MaxAttempts /\ attempts <= tries[e]
    BY <1>1, UpToFacts, ConfigAssumption DEF Faithful, Run, IInv, TypeOK
  <1>5. /\ status \in {"processed", "failed", "pending"}
        /\ status = "processed" <=> run[w].ok
        /\ status = "failed" => attempts >= MaxAttempts
    OBVIOUS
  <1> HIDE DEF attempts, status
  <1>6. /\ row' \in [Event -> Row]
        /\ row'[e].status = status /\ row'[e].attempts = attempts /\ row'[e].stale = FALSE
        /\ \A o \in Event : o # e => row'[o] = row[o]
    BY <1>3, <1>4, <1>5 DEF IInv, TypeOK, Row, Status
  <1>7. Faithful(x)
    BY <1>1, <1>2 DEF Faithful
  <1>8. /\ Kept(x) \in Run
        /\ Kept(x).selected = run[w].selected \ {e} /\ Kept(x).cur = {}
    BY <1>2, KeptFacts
  <1>9. Faithful(Kept(x))
    BY <1>2, <1>7, KeptFaithful DEF IInv
  <1>10. /\ \A v \in Worker : run'[v] = IF v = w THEN Kept(x) ELSE run[v]
         /\ run' \in [Worker -> Run]
    BY <1>3, <1>8 DEF IInv, TypeOK
  <1>11. \A v \in Worker : run'[v].selected \subseteq run[v].selected
    BY <1>8, <1>10
  <1>12. e \in lapsed \/ (row[e].status = "processing" /\ \A v \in Worker : e \notin run'[v].selected)
    BY <1>1, <1>8, <1>10 DEF IInv, LeasesKnown, ExclusiveClaim
  <1>13. TypeOK'
    BY <1>3, <1>6, <1>10 DEF IInv, TypeOK
  <1>14. (\A v \in Worker : Faithful(run[v]))'
    BY <1>3, <1>9, <1>10 DEF IInv, Faithful
  <1>15. ExclusiveClaim'
    BY <1>3, <1>11 DEF IInv, ExclusiveClaim
  <1>16. LeasesKnown'
    BY <1>1, <1>3, <1>6, <1>11, <1>12 DEF IInv, LeasesKnown
  <1>17. OutcomesEarned'
    <2>1. row'[e].status = "processed" => confirmed[e] > 0
      BY <1>1, <1>5, <1>6 DEF Faithful
    <2>2. row'[e].status = "failed" => tries[e] = MaxAttempts
      BY <1>4, <1>5, <1>6, ConfigAssumption
    <2> QED
      BY <1>3, <1>4, <1>6, <2>1, <2>2 DEF IInv, OutcomesEarned
  <1>18. SentOnce'
    <2> SUFFICES ASSUME NEW o \in Event \ lapsed
                 PROVE  /\ confirmed[o] <= 1
                        /\ confirmed[o] > 0 =>
                              \/ row'[o].status = "processed"
                              \/ /\ row'[o].status = "processing"
                                 /\ \A v \in Worker : o \in run'[v].selected
                                                         => run'[v].cur = {o} /\ run'[v].ok
      BY <1>3 DEF SentOnce
    <2>1. /\ confirmed[o] <= 1
          /\ confirmed[o] > 0 =>
                \/ row[o].status = "processed"
                \/ /\ row[o].status = "processing"
                   /\ \A v \in Worker : o \in run[v].selected => run[v].cur = {o} /\ run[v].ok
      BY DEF IInv, SentOnce
    <2>2. CASE o = e
      BY <1>1, <1>5, <1>6, <1>12, <2>1, <2>2
    <2>3. CASE o # e
      <3>1. CASE o \in run[w].selected
        BY <1>1, <2>1, <2>3, <3>1, <1>6 DEF IInv, LeasesKnown
      <3>2. CASE o \notin run[w].selected
        BY <1>6, <1>8, <1>10, <2>1, <2>3, <3>2
      <3> QED
        BY <3>1, <3>2
    <2> QED
      BY <2>2, <2>3
  <1> QED
    BY <1>12, <1>13, <1>14, <1>15, <1>16, <1>17, <1>18 DEF IInv

(***************************************************************************)
(* The theorems.                                                           *)
(***************************************************************************)
LEMMA StepKeeps == IInv /\ [Next]_vars => IInv'
  <1> SUFFICES ASSUME IInv, [Next]_vars PROVE IInv'
    OBVIOUS
  <1>1. ASSUME NEW e \in Event, Enqueue(e) PROVE IInv'
    BY <1>1, EnqueueKeeps
  <1>2. ASSUME NEW w \in Worker, Advance(w) PROVE IInv'
    <2>1. PICK e \in Event : \/ Defer(w, e) \/ Claim(w, e) \/ Skip(w, e)
                             \/ \E ok \in BOOLEAN : Send(w, e, ok)
                             \/ Save(w, e)
      BY <1>2 DEF Advance
    <2>2. CASE Defer(w, e)
      BY <2>2, PassesOver DEF Defer
    <2>3. CASE Claim(w, e)
      BY <2>3, ClaimKeeps
    <2>4. CASE Skip(w, e)
      BY <2>4, PassesOver DEF Skip
    <2>5. CASE \E ok \in BOOLEAN : Send(w, e, ok)
      BY <2>5, SendKeeps
    <2>6. CASE Save(w, e)
      BY <2>6, SaveKeeps
    <2> QED
      BY <2>1, <2>2, <2>3, <2>4, <2>5, <2>6
  <1>3. ASSUME NEW w \in Worker, NEW failedToo \in BOOLEAN, Start(w, failedToo) PROVE IInv'
    BY <1>3, StartKeeps
  <1>4. ASSUME NEW w \in Worker, Crash(w) PROVE IInv'
    BY <1>4, CrashKeeps
  <1>5. CASE TimePasses
    BY <1>5, LeaseLapsesKeeps, RetryDueKeeps DEF TimePasses
  <1>6. CASE UNCHANGED vars
    BY <1>6 DEF vars, IInv, TypeOK, Faithful, ExclusiveClaim, LeasesKnown, OutcomesEarned, SentOnce
  <1> QED
    BY <1>1, <1>2, <1>3, <1>4, <1>5, <1>6 DEF Next, Works

\* The inductive invariant: whatever runs overlap, die or come back late.
THEOREM QueueInvariant == Spec => []IInv
  BY InitHolds, StepKeeps, PTL DEF Spec

\* The rows and the runs hold what their fields may hold.
THEOREM QueueTypeCorrect == Spec => []TypeOK
  <1>1. IInv => TypeOK
    BY DEF IInv
  <1> QED
    BY <1>1, QueueInvariant, PTL

\* Two runs hold one event only if a lease of it went stale.
THEOREM ClaimsExclude == Spec => []ExclusiveClaim
  <1>1. IInv => ExclusiveClaim
    BY DEF IInv
  <1> QED
    BY <1>1, QueueInvariant, PTL

\* An email is sent twice with success only if a lease of it went stale.
THEOREM NoDuplicateWithoutLapse == Spec => []DuplicateOnlyAfterLapse
  <1>1. IInv => DuplicateOnlyAfterLapse
    <2> SUFFICES ASSUME IInv, NEW e \in Event, confirmed[e] > 1, e \notin lapsed
                 PROVE  FALSE
      BY DEF DuplicateOnlyAfterLapse
    <2>1. confirmed[e] <= 1 /\ confirmed[e] \in 0..2
      BY DEF IInv, TypeOK, SentOnce
    <2> QED
      BY <2>1
  <1> QED
    BY <1>1, QueueInvariant, PTL

\* What an event says of its email is backed by what was sent.
THEOREM OutcomesAreEarned == Spec => []OutcomesEarned
  <1>1. IInv => OutcomesEarned
    BY DEF IInv
  <1> QED
    BY <1>1, QueueInvariant, PTL

\* An event that was sent leaves PROCESSED only by a save that comes too late.
THEOREM SentEventsStay == Spec => SentStaysSent
  <1> DEFINE Stays == \A e \in Event :
                row[e].status = "processed" /\ row'[e].status # "processed" => e \in lapsed
  <1>1. IInv /\ [Next]_vars => [Stays]_vars
    <2> SUFFICES ASSUME IInv, Next, NEW o \in Event,
                        row[o].status = "processed", row'[o].status # "processed"
                 PROVE  o \in lapsed
      BY DEF Stays
    <2>1. row \in [Event -> Row]
      BY DEF IInv, TypeOK
    <2>2. ASSUME NEW e \in Event, Enqueue(e) \/ LeaseLapses(e) \/ RetryDue(e) PROVE FALSE
      BY <2>1, <2>2 DEF Enqueue, LeaseLapses, RetryDue, Row
    <2>3. ASSUME NEW w \in Worker, NEW e \in Event, Claim(w, e) PROVE o \in lapsed
      <3>1. e = o
        BY <2>1, <2>3 DEF Claim, Row
      <3> QED
        BY <2>3, <3>1, ClaimKeeps
    <2>4. ASSUME NEW w \in Worker, NEW e \in Event, Save(w, e) PROVE o \in lapsed
      <3>1. e = o
        BY <2>1, <2>4 DEF Save
      <3> QED
        BY <2>4, <3>1, SaveKeeps
    <2>5. ASSUME row' = row PROVE FALSE
      BY <2>5
    <2> QED
      BY <2>2, <2>3, <2>4, <2>5 DEF Next, Works, Advance, TimePasses, Start, Defer, Skip, Send, Crash
  <1> QED
    BY <1>1, QueueInvariant, PTL DEF Spec, SentStaysSent

(***************************************************************************)
(* The runs of the command are workers of a leased queue.                  *)
(***************************************************************************)
LeaseStep == [EQ!Next]_(EQ!vars)

\* What a run reads, looks over, sends or forgets is no step of the queue.
LEMMA LeaseUntouched ==
    ASSUME UNCHANGED lapsed,
           \A e \in Event : row'[e].status = row[e].status,
           \A w \in Worker : run'[w].selected = run[w].selected
    PROVE  LeaseStep
  <1>1. [e \in Event |-> row'[e].status] = [e \in Event |-> row[e].status]
    OBVIOUS
  <1>2. \A e \in Event : {w \in Worker : e \in run'[w].selected} = {w \in Worker : e \in run[w].selected}
    OBVIOUS
  <1>3. [e \in Event |-> {w \in Worker : e \in run'[w].selected}]
            = [e \in Event |-> {w \in Worker : e \in run[w].selected}]
    BY <1>2
  <1> QED
    BY <1>1, <1>3 DEF LeaseStep, EQ!vars

\* The same of a run w that holds x instead.
LEMMA MemoryUntouched ==
    ASSUME IInv, NEW w \in Worker, NEW x \in Run,
           x.selected = run[w].selected, run' = [run EXCEPT ![w] = x],
           UNCHANGED <<row, lapsed>>
    PROVE  LeaseStep
  <1>1. \A v \in Worker : run'[v].selected = run[v].selected
    BY DEF IInv, TypeOK
  <1> QED
    BY <1>1, LeaseUntouched

LEMMA EnqueueAdds ==
    ASSUME IInv, NEW e \in Event, Enqueue(e)
    PROVE  LeaseStep
  <1>1. row \in [Event -> Row] /\ UNCHANGED <<run, lapsed>>
    BY DEF IInv, TypeOK, Enqueue
  <1>2. /\ row[e].status = "absent"
        /\ [o \in Event |-> row'[o].status] = [[o \in Event |-> row[o].status] EXCEPT ![e] = "pending"]
    BY <1>1 DEF Enqueue, Row
  <1>3. EQ!Add(e)
    BY <1>1, <1>2 DEF EQ!Add
  <1> QED
    BY <1>3 DEF LeaseStep, EQ!Next

LEMMA ClaimTakes ==
    ASSUME IInv, NEW w \in Worker, NEW e \in Event, Claim(w, e)
    PROVE  LeaseStep
  <1> DEFINE x == [run[w] EXCEPT !.todo = @ \ {e}, !.selected = @ \cup {e}]
  <1>1. /\ row \in [Event -> Row] /\ run \in [Worker -> Run]
        /\ Faithful(run[w]) /\ LeasesKnown /\ UNCHANGED lapsed
    BY DEF IInv, TypeOK, Claim
  <1>2. /\ x \in Run /\ x.cur \subseteq x.selected
        /\ x.selected = run[w].selected \cup {e}
    BY <1>1 DEF Faithful, Run
  <1>3. Kept(x).selected = run[w].selected \cup {e}
    BY <1>2, KeptFacts
  <1>4. \A v \in Worker : run'[v].selected =
                              IF v = w THEN run[w].selected \cup {e} ELSE run[v].selected
    <2>1. \A v \in Worker : run'[v] = IF v = w THEN Kept(x) ELSE [run[v] EXCEPT !.old = @ \ {e}]
      BY DEF Claim
    <2>2. \A v \in Worker : [run[v] EXCEPT !.old = @ \ {e}].selected = run[v].selected
      BY <1>1 DEF Run
    <2> QED
      BY <1>3, <2>1, <2>2
  <1> HIDE DEF x
  <1>5. [o \in Event |-> {v \in Worker : o \in run'[v].selected}]
          = [[o \in Event |-> {v \in Worker : o \in run[v].selected}] EXCEPT
                ![e] = {v \in Worker : e \in run[v].selected} \cup {w}]
    <2>1. \A o \in Event : {v \in Worker : o \in run'[v].selected}
                             = IF o = e THEN {v \in Worker : e \in run[v].selected} \cup {w}
                               ELSE {v \in Worker : o \in run[v].selected}
      BY <1>4
    <2> QED
      BY <2>1
  <1>6. [o \in Event |-> row'[o].status] = [[o \in Event |-> row[o].status] EXCEPT ![e] = "processing"]
    BY <1>1 DEF Claim, Row
  <1>7. row[e].status \in {"pending", "failed"} \/ (row[e].status = "processing" /\ e \in lapsed)
    <2>1. row[e].status \in {"pending", "failed"} \/ (row[e].status = "processing" /\ e \in run[w].old)
      BY DEF Claim, ClaimFilter, Statuses
    <2> QED
      BY <1>1, <2>1 DEF Faithful
  <1>8. e \notin lapsed => row[e].status # "processing" /\ {v \in Worker : e \in run[v].selected} = {}
    BY <1>1, <1>7 DEF LeasesKnown
  <1>9. EQ!Take(w, e)
    BY <1>1, <1>5, <1>6, <1>7, <1>8 DEF EQ!Take
  <1> QED
    BY <1>9 DEF LeaseStep, EQ!Next

LEMMA SaveSettles ==
    ASSUME IInv, NEW w \in Worker, NEW e \in Event, Save(w, e)
    PROVE  LeaseStep
  <1> DEFINE x == [run[w] EXCEPT !.selected = @ \ {e}, !.cur = {}]
  <1>1. /\ row \in [Event -> Row] /\ run \in [Worker -> Run]
        /\ Faithful(run[w]) /\ UNCHANGED lapsed /\ run[w].cur = {e}
        /\ run' = [run EXCEPT ![w] = Kept(x)]
    BY DEF IInv, TypeOK, Save
  <1>2. x \in Run /\ x.cur \subseteq x.selected /\ x.selected = run[w].selected \ {e}
    BY <1>1 DEF Run
  <1>3. Kept(x).selected = run[w].selected \ {e}
    BY <1>2, KeptFacts
  <1> HIDE DEF x
  <1>4. \A v \in Worker : run'[v].selected =
                              IF v = w THEN run[w].selected \ {e} ELSE run[v].selected
    BY <1>1, <1>3
  <1>5. [o \in Event |-> {v \in Worker : o \in run'[v].selected}]
          = [[o \in Event |-> {v \in Worker : o \in run[v].selected}] EXCEPT
                ![e] = {v \in Worker : e \in run[v].selected} \ {w}]
    <2>1. \A o \in Event : {v \in Worker : o \in run'[v].selected}
                             = IF o = e THEN {v \in Worker : e \in run[v].selected} \ {w}
                               ELSE {v \in Worker : o \in run[v].selected}
      BY <1>4
    <2> QED
      BY <2>1
  <1>6. PICK outcome \in {"pending", "processed", "failed"} :
            [o \in Event |-> row'[o].status] = [[o \in Event |-> row[o].status] EXCEPT ![e] = outcome]
    <2> DEFINE attempts == IF run[w].ok THEN run[w].attempts[e]
                           ELSE UpTo(run[w].attempts[e], MaxAttempts)
               status == IF run[w].ok THEN "processed"
                         ELSE IF attempts >= MaxAttempts THEN "failed" ELSE "pending"
    <2>1. row' = [row EXCEPT ![e] = [status |-> status, attempts |-> attempts,
                                     due |-> status # "pending", stale |-> FALSE]]
      BY DEF Save
    <2>2. status \in {"pending", "processed", "failed"}
      OBVIOUS
    <2> HIDE DEF attempts, status
    <2>3. [o \in Event |-> row'[o].status] = [[o \in Event |-> row[o].status] EXCEPT ![e] = status]
      BY <1>1, <2>1
    <2> QED
      BY <2>2, <2>3
  <1>7. w \in {v \in Worker : e \in run[v].selected}
    BY <1>1 DEF Faithful
  <1>8. EQ!Settle(w, e)
    BY <1>1, <1>5, <1>6, <1>7 DEF EQ!Settle
  <1> QED
    BY <1>8 DEF LeaseStep, EQ!Next

LEMMA CrashDrops ==
    ASSUME IInv, NEW w \in Worker, Crash(w)
    PROVE  LeaseStep
  <1>1. run \in [Worker -> Run] /\ UNCHANGED <<row, lapsed>>
    BY DEF IInv, TypeOK, Crash
  <1>2. \A v \in Worker : run'[v].selected = IF v = w THEN {} ELSE run[v].selected
    BY <1>1 DEF Crash, Idle
  <1>3. \A o \in Event : {v \in Worker : o \in run'[v].selected}
                             = {v \in Worker : o \in run[v].selected} \ {w}
    BY <1>2
  <1>4. EQ!Drop(w)
    BY <1>1, <1>3 DEF EQ!Drop
  <1> QED
    BY <1>4 DEF LeaseStep, EQ!Next

LEMMA TimeLapses ==
    ASSUME IInv, NEW e \in Event, LeaseLapses(e) \/ RetryDue(e)
    PROVE  LeaseStep
  <1>1. row \in [Event -> Row] /\ UNCHANGED run
    BY DEF IInv, TypeOK, LeaseLapses, RetryDue
  <1>2. \A o \in Event : row'[o].status = row[o].status
    BY <1>1 DEF LeaseLapses, RetryDue, Row
  <1>3. CASE LeaseLapses(e)
    <2>1. EQ!Lapse(e)
      BY <1>1, <1>2, <1>3 DEF EQ!Lapse, LeaseLapses
    <2> QED
      BY <2>1 DEF LeaseStep, EQ!Next
  <1>4. CASE RetryDue(e)
    BY <1>1, <1>2, <1>4, LeaseUntouched DEF RetryDue
  <1> QED
    BY <1>3, <1>4

LEMMA StepLeased == IInv /\ [Next]_vars => LeaseStep
  <1> SUFFICES ASSUME IInv, [Next]_vars PROVE LeaseStep
    OBVIOUS
  <1>0. /\ run \in [Worker -> Run]
        /\ \A w \in Worker : Faithful(run[w])
    BY DEF IInv, TypeOK
  <1>1. ASSUME NEW w \in Worker, NEW e \in Event, Defer(w, e) \/ Skip(w, e) PROVE LeaseStep
    <2> DEFINE x == [run[w] EXCEPT !.todo = @ \ {e}]
    <2>1. x \in Run /\ x.cur \subseteq x.selected /\ x.selected = run[w].selected
      BY <1>0 DEF Run, Faithful
    <2>2. /\ run' = [run EXCEPT ![w] = Kept(x)]
          /\ UNCHANGED <<row, lapsed>>
      BY <1>1 DEF Defer, Skip
    <2> HIDE DEF x
    <2> QED
      BY <2>1, <2>2, KeptFacts, MemoryUntouched
  <1>2. ASSUME NEW w \in Worker, NEW e \in Event, NEW ok \in BOOLEAN, Send(w, e, ok) PROVE LeaseStep
    <2> DEFINE x == [run[w] EXCEPT !.todo = {}, !.cur = {e}, !.ok = ok]
    <2>1. x \in Run /\ x.cur \subseteq x.selected /\ x.selected = run[w].selected
      BY <1>0, <1>2 DEF Run, Send, First
    <2>2. /\ run' = [run EXCEPT ![w] = Kept(x)]
          /\ UNCHANGED <<row, lapsed>>
      BY <1>2 DEF Send
    <2> HIDE DEF x
    <2> QED
      BY <2>1, <2>2, KeptFacts, MemoryUntouched
  <1>3. ASSUME NEW w \in Worker, NEW failedToo \in BOOLEAN, Start(w, failedToo) PROVE LeaseStep
    <2> DEFINE old == {e \in Event : row[e].stale}
               candidates == {e \in Event : ClaimFilter(e, failedToo, old)}
               x == [Idle EXCEPT
                        !.todo = candidates, !.attempts = [e \in Event |-> row[e].attempts],
                        !.deferred = {e \in candidates : row[e].status = "pending" /\ ~ row[e].due},
                        !.old = old, !.failedToo = failedToo]
    <2>1. /\ run' = [run EXCEPT ![w] = Kept(x)]
          /\ run[w] = Idle /\ UNCHANGED <<row, lapsed>>
      BY <1>3 DEF Start
    <2>2. [e \in Event |-> row[e].attempts] \in [Event -> 0..MaxAttempts]
      BY DEF IInv, TypeOK, Row
    <2>3. x \in Run /\ x.cur \subseteq x.selected /\ x.selected = Idle.selected
      BY <2>2, IdleIsRun DEF Idle, Run
    <2> HIDE DEF x
    <2> QED
      BY <2>1, <2>3, KeptFacts, MemoryUntouched
  <1>4. CASE UNCHANGED vars
    BY <1>4, LeaseUntouched DEF vars
  <1> QED
    BY <1>1, <1>2, <1>3, <1>4, EnqueueAdds, ClaimTakes, SaveSettles, CrashDrops, TimeLapses
    DEF Next, Works, Advance, TimePasses

\* The queue implements the leased queue: an event is taken over only once its
\* lease has lapsed, settled only by a run that holds it, and never taken again
\* once it was sent.
THEOREM QueueIsLeased == Spec => EmailsAreLeased
  <1>1. Init => EQ!Init
    <2> SUFFICES ASSUME Init PROVE EQ!Init
      OBVIOUS
    <2>1. \A w \in Worker : run[w].selected = {}
      BY DEF Init, Idle
    <2> QED
      BY <2>1 DEF Init, EQ!Init
  <1> QED
    BY <1>1, StepLeased, QueueInvariant, PTL DEF Spec, EmailsAreLeased, EQ!Spec, LeaseStep
=============================================================================
