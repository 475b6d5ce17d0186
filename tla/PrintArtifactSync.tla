-------------------------- MODULE PrintArtifactSync --------------------------
(***************************************************************************)
(* Print packs: wms/print_pack_engine.py makes an artifact, and runs of    *)
(* process_print_artifact_queue (wms/print_pack_sync.py) push its PDF to   *)
(* OneDrive. A run loads up to SyncLimit artifacts and uploads and saves   *)
(* them one by one from what it loaded; it claims none of them.            *)
(***************************************************************************)
EXTENDS Naturals, FiniteSets

CONSTANTS
    Artifact,  \* artifact ids, in the order they are created
    Syncer,    \* runs of the command that may be alive together
    SyncMax,   \* max_attempts
    SyncLimit  \* the command's --limit

ASSUME SyncAssumption ==
    /\ Artifact \subseteq Nat
    /\ SyncMax \in Nat \ {0}
    /\ SyncLimit \in Nat \ {0}

VARIABLES
    artifact,  \* the artifacts as committed
    sync,      \* what each run holds in memory
    uploads,   \* the artifacts OneDrive has
    puts,      \* how many uploads of an artifact ended, up to SyncMax
    shared     \* the artifacts that two runs held at once

syncVars == <<artifact, sync, uploads, puts, shared>>

\* attempts stops at SyncMax: the code compares it with that and shows it.
ArtifactRow == [status: {"absent", "generated", "sync_pending", "synced", "sync_failed"},
                attempts: 0..SyncMax]

\* todo: the artifacts loaded and not yet saved; attempts: as loaded; cur: the
\* one whose upload ended, ok: how.
Sync == [todo: SUBSET Artifact, attempts: [Artifact -> 0..SyncMax],
         cur: SUBSET Artifact, ok: BOOLEAN]
NoSync == [todo |-> {}, attempts |-> [a \in Artifact |-> 0], cur |-> {}, ok |-> FALSE]

OneMore(n) == IF n < SyncMax THEN n + 1 ELSE n

SyncInit ==
    /\ artifact = [a \in Artifact |-> [status |-> "absent", attempts |-> 0]]
    /\ sync = [w \in Syncer |-> NoSync]
    /\ uploads = {}
    /\ puts = [a \in Artifact |-> 0]
    /\ shared = {}

----------------------------------------------------------------------------
\* generate_pack: the row first, the documents through Graph, the merged PDF
\* last. A conversion that fails leaves the row generated for good.
CreateArtifact(a) ==
    /\ artifact[a].status = "absent"
    /\ \A o \in Artifact : o < a => artifact[o].status # "absent"
    /\ artifact' = [artifact EXCEPT ![a].status = "generated"]
    /\ UNCHANGED <<sync, uploads, puts, shared>>
FinishArtifact(a) ==
    /\ artifact[a].status = "generated"
    /\ artifact' = [artifact EXCEPT ![a].status = "sync_pending"]
    /\ UNCHANGED <<sync, uploads, puts, shared>>

\* Mutant: on demand, everything that was made is taken again.
SyncStatusesAll(failedToo) ==
    IF failedToo THEN {"sync_pending", "sync_failed", "synced"} ELSE {"sync_pending"}

SyncStatuses(failedToo) == IF failedToo THEN {"sync_pending", "sync_failed"} ELSE {"sync_pending"}

\* process_print_artifact_queue loads its batch.
StartSync(w, failedToo) ==
    LET candidates == {a \in Artifact : artifact[a].status \in SyncStatuses(failedToo)}
        batch == {a \in candidates : Cardinality({o \in candidates : o < a}) < SyncLimit}
        others == UNION {sync[v].todo : v \in Syncer \ {w}}
    IN  /\ sync[w] = NoSync /\ candidates # {}
        /\ sync' = [sync EXCEPT ![w] =
                      [NoSync EXCEPT !.todo = batch,
                          !.attempts = [a \in Artifact |->
                                          IF a \in batch THEN artifact[a].attempts ELSE 0]]]
        /\ shared' = shared \cup (batch \cap others)
        /\ UNCHANGED <<artifact, uploads, puts>>

\* _upload_artifact_pdf_to_onedrive, of the oldest left: a PUT, or a
\* PrintArtifactSyncError.
UploadPdf(w, a, ok) ==
    /\ sync[w].cur = {} /\ a \in sync[w].todo /\ \A o \in sync[w].todo : a <= o
    /\ sync' = [sync EXCEPT ![w].cur = {a}, ![w].ok = ok]
    /\ uploads' = IF ok THEN uploads \cup {a} ELSE uploads
    /\ puts' = [puts EXCEPT ![a] = OneMore(@)]
    /\ UNCHANGED <<artifact, shared>>

\* Forgets what the run has saved.
SyncNextOne(x, a) ==
    IF x.todo = {a} THEN NoSync
    ELSE [x EXCEPT !.todo = @ \ {a}, !.attempts[a] = 0, !.cur = {}, !.ok = FALSE]

\* Mutants of SaveSync: a failure counts from the artifact's last attempt; the
\* failures are not counted.
SaveSyncEarly(w, a) ==
    /\ sync[w].cur = {a}
    /\ LET attempts == OneMore(sync[w].attempts[a])
       IN  artifact' = [artifact EXCEPT ![a] =
                [status |-> IF sync[w].ok THEN "synced"
                            ELSE IF attempts + 1 >= SyncMax THEN "sync_failed"
                            ELSE "sync_pending",
                 attempts |-> attempts]]
    /\ sync' = [sync EXCEPT ![w] = SyncNextOne(sync[w], a)]
    /\ UNCHANGED <<uploads, puts, shared>>
SaveSyncUncounted(w, a) ==
    /\ sync[w].cur = {a}
    /\ artifact' = [artifact EXCEPT ![a].status =
                      IF sync[w].ok THEN "synced"
                      ELSE IF OneMore(sync[w].attempts[a]) >= SyncMax THEN "sync_failed"
                      ELSE "sync_pending"]
    /\ sync' = [sync EXCEPT ![w] = SyncNextOne(sync[w], a)]
    /\ UNCHANGED <<uploads, puts, shared>>

\* _apply_sync_success and _apply_sync_failure, from the copy that was loaded.
SaveSync(w, a) ==
    /\ sync[w].cur = {a}
    /\ LET attempts == OneMore(sync[w].attempts[a])
       IN  artifact' = [artifact EXCEPT ![a] =
                [status |-> IF sync[w].ok THEN "synced"
                            ELSE IF attempts >= SyncMax THEN "sync_failed"
                            ELSE "sync_pending",
                 attempts |-> attempts]]
    /\ sync' = [sync EXCEPT ![w] = SyncNextOne(sync[w], a)]
    /\ UNCHANGED <<uploads, puts, shared>>

\* The process dies, or the upload raises what the loop does not catch: a token
\* that Graph refuses, a PDF that is not on the disk any more.
CrashSync(w) ==
    /\ sync[w] # NoSync
    /\ sync' = [sync EXCEPT ![w] = NoSync]
    /\ UNCHANGED <<artifact, uploads, puts, shared>>

----------------------------------------------------------------------------
AdvanceSync(w) ==
    \E a \in Artifact : SaveSync(w, a) \/ \E ok \in BOOLEAN : UploadPdf(w, a, ok)

Printing == \E a \in Artifact : CreateArtifact(a) \/ FinishArtifact(a)

SyncNext ==
    \/ Printing
    \/ \E w \in Syncer :
          AdvanceSync(w) \/ CrashSync(w) \/ \E failedToo \in BOOLEAN : StartSync(w, failedToo)

SyncSpec == SyncInit /\ [][SyncNext]_syncVars

SyncRoutine ==
    \/ Printing
    \/ \E w \in Syncer : AdvanceSync(w) \/ CrashSync(w) \/ StartSync(w, FALSE)
SyncFairness == \A w \in Syncer : WF_syncVars(AdvanceSync(w)) /\ WF_syncVars(StartSync(w, FALSE))

----------------------------------------------------------------------------
(***************************************************************************)
(* Properties.                                                             *)
(***************************************************************************)
\* The rows and the runs hold what their fields may hold.
SyncTypeOK ==
    /\ artifact \in [Artifact -> ArtifactRow]
    /\ sync \in [Syncer -> Sync]
    /\ uploads \subseteq Artifact
    /\ puts \in [Artifact -> 0..SyncMax]
    /\ shared \subseteq Artifact

\* What an artifact says was earned, however many runs save it from their stale
\* copies: synced, OneDrive has it; given up, SyncMax uploads ended; never more
\* attempts than uploads.
SyncEarned ==
    \A a \in Artifact :
        /\ artifact[a].status = "synced" => a \in uploads
        /\ artifact[a].status = "sync_failed" => puts[a] = SyncMax
        /\ artifact[a].attempts <= puts[a]

\* A synced artifact goes back to the queue, or fails, only when two runs held
\* it at once; and attempts are uncounted only then.
SyncUndoneOnlyShared ==
    [][\A a \in Artifact \ shared :
          /\ artifact[a].status = "synced" => artifact'[a].status = "synced"
          /\ artifact'[a].attempts >= artifact[a].attempts]_syncVars

\* If runs stop dying, every finished artifact is in the end synced or given up.
ArtifactsSettle ==
    <>[][\A w \in Syncer : ~ CrashSync(w)]_syncVars =>
        \A a \in Artifact : artifact[a].status = "sync_pending"
                                ~> artifact[a].status \in {"synced", "sync_failed"}
=============================================================================
