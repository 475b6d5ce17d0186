------------------------------- MODULE JobsMC -------------------------------
(* Small instances of the background jobs, of the public forms and accounts, *)
(* and of the notices, for TLC. They share no row, so a behaviour is one of  *)
(* one of them while the tables of the others stay as they are.              *)
EXTENDS EmailQueue, DocumentScanQueue, PrintArtifactSync, PublicForms, Accounts, Notices, TLC

CONSTANT Busy   \* the server process that serves any number of forms

VARIABLE job   \* what this behaviour is about

rest == <<scanVars, syncVars>>
requests == <<formVars, accountVars, noticeVars>>
jobsVars == <<vars, rest, requests, job>>

JobsInit ==
    /\ Init /\ ScanInit /\ SyncInit /\ FormsInit /\ NoticesInit
    /\ job \in {"email", "scan", "sync", "forms", "accounts", "notices"}
    /\ AccountsInit /\ (job # "accounts" => Accounts = {})

\* The other processes serve one form, and the forms of a behaviour are of one kind,
\* since forms of two kinds share no slot.
FewForms ==
    /\ \A p \in Process \ {Busy} : \A v, w \in Visit : visit'[v].process = p /\ visit'[w].process = p => v = w
    /\ \A v, w \in Visit : visit'[v].process # Unknown /\ visit'[w].process # Unknown => visit'[v].kind = visit'[w].kind
FewNotices ==
    \A r, c \in Clerk : r # c => Len(atWork'[r].notices)
                         <= (IF atWork'[c].step \in {"away", "loaded"} /\ ~atWork'[c].atomic THEN 2 ELSE 1)

\* Behaviours are followed until what their property excuses.
RequestsNext ==
    \/ /\ job = "forms" /\ ~overran /\ FormsNext /\ FewForms
       /\ UNCHANGED <<accountVars, noticeVars>>
    \/ /\ job = "accounts" /\ ~crossed /\ AccountsNext
       /\ UNCHANGED <<formVars, noticeVars>>
    \/ /\ job = "notices" /\ ~blurred /\ NoticesNext /\ FewNotices
       /\ UNCHANGED <<formVars, accountVars>>

JobsNext ==
    /\ UNCHANGED job
    /\ \/ job = "email" /\ Next /\ UNCHANGED <<rest, requests>>
       \/ job = "scan" /\ ScanNext /\ UNCHANGED <<vars, syncVars, requests>>
       \/ job = "sync" /\ SyncNext /\ UNCHANGED <<vars, scanVars, requests>>
       \/ RequestsNext /\ UNCHANGED <<vars, rest>>

JobsRoutine ==
    /\ UNCHANGED <<job, requests>>
    /\ \/ job = "email" /\ Routine /\ UNCHANGED rest
       \/ job = "scan" /\ ScanRoutine /\ UNCHANGED <<vars, syncVars>>
       \/ job = "sync" /\ SyncRoutine /\ UNCHANGED <<vars, scanVars>>

JobsSpec == JobsInit /\ [][JobsNext]_jobsVars

\* Each job's fairness, in the behaviours about it.
ServedInit == JobsInit /\ job \in {"email", "scan", "sync"}
JobsLiveSpec ==
    /\ ServedInit /\ [][JobsRoutine]_jobsVars
    /\ \/ job = "email" /\ Fairness
       \/ job = "scan" /\ ScanFairness
       \/ job = "sync" /\ SyncFairness

\* Every job comes to its end: what is due is sent, or tried as often as it may be;
\* what was uploaded is scanned; what was printed is synchronized, or given up.
JobsSettle == QueueDrains /\ ScansSettle /\ ArtifactsSettle

Symmetric == Permutations(Worker) \cup Permutations(Sender)
=============================================================================
