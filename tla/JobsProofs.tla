------------------------------ MODULE JobsProofs ------------------------------
(***************************************************************************)
(* What the jobs that several processes share keep true, for any number of *)
(* artifacts, forms and accounts, of runs, processes, approvals and clerks:*)
(* the synchronization of print artifacts, the public forms, the approvals *)
(* of account requests and the notices of changes.                         *)
(***************************************************************************)
EXTENDS PrintArtifactSync, PublicForms, Accounts, Notices, FoldFacts, TLAPS

-------------------------------------------------------------------------------
(***************************************************************************)
(* The synchronization of print artifacts, although it claims nothing.     *)
(***************************************************************************)
\* What a run x remembers of an artifact is no more than what happened.
Recalls(x) ==
    /\ x \in Sync
    /\ x.cur \subseteq x.todo
    /\ \A a \in Artifact : x.attempts[a] <= puts[a]
    /\ \A a \in x.cur : /\ x.cur = {a}
                        /\ x.ok => a \in uploads
                        /\ OneMore(x.attempts[a]) <= puts[a]

\* An artifact that no two runs held is as its one holder loaded it.
HeldAsLoaded ==
    \A a \in Artifact \ shared :
        /\ \A v, w \in Syncer : a \in sync[v].todo /\ a \in sync[w].todo => v = w
        /\ \A w \in Syncer : a \in sync[w].todo =>
              /\ artifact[a].status \in {"sync_pending", "sync_failed"}
              /\ artifact[a].attempts = sync[w].attempts[a]

SyncInv ==
    /\ SyncTypeOK
    /\ \A w \in Syncer : Recalls(sync[w])
    /\ HeldAsLoaded
    /\ SyncEarned

LEMMA OneMoreFacts ==
    ASSUME NEW n \in 0..SyncMax
    PROVE  /\ OneMore(n) \in 0..SyncMax /\ n <= OneMore(n)
           /\ \A m \in 0..SyncMax : n <= m => OneMore(n) <= OneMore(m)
  BY SyncAssumption DEF OneMore

LEMMA NoSyncFacts ==
    /\ NoSync \in Sync /\ NoSync.todo = {} /\ NoSync.cur = {}
    /\ \A a \in Artifact : NoSync.attempts[a] = 0
  BY SyncAssumption DEF NoSync, Sync

\* A run that dies, or is over, remembers nothing.
LEMMA NoSyncRecalls ==
    ASSUME SyncTypeOK
    PROVE  Recalls(NoSync)
  BY NoSyncFacts DEF SyncTypeOK, Recalls

\* What a run keeps once artifact a is saved.
LEMMA NextOneFacts ==
    ASSUME NEW a \in Artifact, NEW x, Recalls(x), SyncTypeOK, a \in x.todo, x.cur \subseteq {a}
    PROVE  /\ Recalls(SyncNextOne(x, a))
           /\ SyncNextOne(x, a).todo = x.todo \ {a}
           /\ \A o \in x.todo \ {a} : SyncNextOne(x, a).attempts[o] = x.attempts[o]
  <1>1. CASE x.todo = {a}
    BY <1>1, NoSyncFacts, NoSyncRecalls DEF SyncNextOne
  <1>2. CASE x.todo # {a}
    <2> DEFINE y == [x EXCEPT !.todo = @ \ {a}, !.attempts[a] = 0, !.cur = {}, !.ok = FALSE]
    <2>1. SyncNextOne(x, a) = y
      BY <1>2 DEF SyncNextOne
    <2>2. x \in Sync /\ \A o \in Artifact : puts[o] \in 0..SyncMax /\ x.attempts[o] \in 0..SyncMax
      BY DEF Recalls, SyncTypeOK, Sync
    <2>3. [x.attempts EXCEPT ![a] = 0] \in [Artifact -> 0..SyncMax]
      BY <2>2, SyncAssumption DEF Sync
    <2>4. /\ y \in Sync /\ y.todo = x.todo \ {a} /\ y.cur = {}
          /\ y.attempts = [x.attempts EXCEPT ![a] = 0]
      BY <2>2, <2>3 DEF Sync
    <2>5. \A o \in Artifact : y.attempts[o] = IF o = a THEN 0 ELSE x.attempts[o]
      BY <2>2, <2>4 DEF Sync
    <2> HIDE DEF y
    <2>6. Recalls(y)
      BY <2>2, <2>4, <2>5 DEF Recalls
    <2>7. x.todo \subseteq Artifact
      BY <2>2 DEF Sync
    <2> QED
      BY <2>1, <2>4, <2>5, <2>6, <2>7
  <1> QED
    BY <1>1, <1>2

(***************************************************************************)
(* One lemma per action.                                                   *)
(***************************************************************************)
LEMMA SyncInitHolds == SyncInit => SyncInv
  <1> SUFFICES ASSUME SyncInit PROVE SyncInv
    OBVIOUS
  <1>1. SyncTypeOK
    BY NoSyncFacts, SyncAssumption DEF SyncInit, SyncTypeOK, ArtifactRow
  <1>2. \A w \in Syncer : Recalls(sync[w])
    BY <1>1, NoSyncRecalls DEF SyncInit
  <1>3. HeldAsLoaded
    BY NoSyncFacts DEF SyncInit, HeldAsLoaded
  <1>4. SyncEarned
    BY DEF SyncInit, SyncEarned
  <1> QED
    BY <1>1, <1>2, <1>3, <1>4 DEF SyncInv

LEMMA PrintingKeeps ==
    ASSUME SyncInv, NEW a \in Artifact, CreateArtifact(a) \/ FinishArtifact(a)
    PROVE  SyncInv'
  <1>1. artifact \in [Artifact -> ArtifactRow] /\ UNCHANGED <<sync, uploads, puts, shared>>
    BY DEF SyncInv, SyncTypeOK, CreateArtifact, FinishArtifact
  <1>2. /\ artifact' \in [Artifact -> ArtifactRow]
        /\ artifact[a].status \notin {"sync_pending", "sync_failed"}
        /\ artifact'[a].status \in {"generated", "sync_pending"}
        /\ artifact'[a].attempts = artifact[a].attempts
        /\ \A o \in Artifact : o # a => artifact'[o] = artifact[o]
    BY <1>1 DEF CreateArtifact, FinishArtifact, ArtifactRow
  <1>3. SyncTypeOK'
    BY <1>1, <1>2 DEF SyncInv, SyncTypeOK
  <1>4. (\A w \in Syncer : Recalls(sync[w]))'
    BY <1>1 DEF SyncInv, Recalls
  <1>5. HeldAsLoaded'
    BY <1>1, <1>2 DEF SyncInv, HeldAsLoaded
  <1>6. SyncEarned'
    BY <1>1, <1>2 DEF SyncInv, SyncEarned
  <1> QED
    BY <1>3, <1>4, <1>5, <1>6 DEF SyncInv

\* A step that replaces what run w holds in memory, and may count an upload.
LEMMA SyncMemoryStep ==
    ASSUME SyncInv, NEW w \in Syncer, NEW x, Recalls(x)',
           sync' = [sync EXCEPT ![w] = x],
           uploads \subseteq uploads', uploads' \subseteq Artifact,
           puts' \in [Artifact -> 0..SyncMax], \A a \in Artifact : puts[a] <= puts'[a],
           UNCHANGED artifact, HeldAsLoaded', shared' \subseteq Artifact
    PROVE  SyncInv'
  <1>1. /\ \A v \in Syncer : sync'[v] = IF v = w THEN x ELSE sync[v]
        /\ x \in Sync /\ sync' \in [Syncer -> Sync]
        /\ puts \in [Artifact -> 0..SyncMax]
        /\ artifact \in [Artifact -> ArtifactRow]
    BY DEF SyncInv, SyncTypeOK, Recalls
  <1>2. SyncTypeOK'
    BY <1>1 DEF SyncInv, SyncTypeOK
  <1>3. ASSUME NEW v \in Syncer PROVE Recalls(sync[v])'
    <2>1. CASE v = w
      BY <1>1, <2>1
    <2>2. CASE v # w
      <3>1. PICK y : y = sync[v]
        OBVIOUS
      <3>2. Recalls(y) /\ sync'[v] = y /\ y \in Sync
        BY <1>1, <2>2, <3>1 DEF SyncInv, Recalls
      <3>3. \A a \in Artifact : /\ y.attempts[a] \in 0..SyncMax
                                /\ OneMore(y.attempts[a]) \in 0..SyncMax
                                /\ puts[a] \in 0..SyncMax /\ puts'[a] \in 0..SyncMax
        BY <1>1, <3>2, OneMoreFacts DEF Sync
      <3>4. y.cur \subseteq Artifact
        BY <3>2 DEF Sync
      <3>5. Recalls(y)'
        BY <3>2, <3>3, <3>4 DEF Recalls
      <3> QED
        BY <3>2, <3>5
    <2> QED
      BY <2>1, <2>2
  <1>4. SyncEarned'
    <2>1. \A a \in Artifact : /\ puts[a] \in 0..SyncMax /\ puts'[a] \in 0..SyncMax
                              /\ artifact[a].attempts \in 0..SyncMax
      BY <1>1 DEF ArtifactRow
    <2>2. \A a \in Artifact : /\ puts[a] = SyncMax => puts'[a] = SyncMax
                              /\ artifact[a].attempts <= puts[a] => artifact[a].attempts <= puts'[a]
      BY <2>1, SyncAssumption
    <2> QED
      BY <2>2 DEF SyncInv, SyncEarned
  <1> QED
    BY <1>2, <1>3, <1>4 DEF SyncInv

LEMMA StartSyncKeeps ==
    ASSUME SyncInv, NEW w \in Syncer, NEW failedToo \in BOOLEAN, StartSync(w, failedToo)
    PROVE  SyncInv'
  <1> DEFINE candidates == {a \in Artifact : artifact[a].status \in SyncStatuses(failedToo)}
             batch == {a \in candidates : Cardinality({o \in candidates : o < a}) < SyncLimit}
             others == UNION {sync[v].todo : v \in Syncer \ {w}}
             loaded == [a \in Artifact |-> IF a \in batch THEN artifact[a].attempts ELSE 0]
             x == [NoSync EXCEPT !.todo = batch, !.attempts = loaded]
  <1>1. /\ sync' = [sync EXCEPT ![w] = x]
        /\ shared' = shared \cup (batch \cap others)
        /\ UNCHANGED <<artifact, uploads, puts>>
    BY DEF StartSync
  <1>2. \A a \in batch : a \in Artifact /\ artifact[a].status \in {"sync_pending", "sync_failed"}
    BY DEF SyncStatuses
  <1> HIDE DEF batch
  <1>3. /\ artifact \in [Artifact -> ArtifactRow] /\ puts \in [Artifact -> 0..SyncMax]
        /\ shared \subseteq Artifact /\ sync \in [Syncer -> Sync] /\ uploads \subseteq Artifact
    BY DEF SyncInv, SyncTypeOK
  <1>4. /\ loaded \in [Artifact -> 0..SyncMax]
        /\ \A a \in Artifact : /\ loaded[a] <= puts[a]
                               /\ a \in batch => loaded[a] = artifact[a].attempts
    <2>1. \A a \in Artifact : /\ puts[a] \in 0..SyncMax
                              /\ artifact[a].attempts \in 0..SyncMax
                              /\ artifact[a].attempts <= puts[a]
      BY <1>3 DEF ArtifactRow, SyncInv, SyncEarned
    <2>2. ASSUME NEW a \in Artifact
          PROVE  /\ loaded[a] \in 0..SyncMax /\ loaded[a] <= puts[a]
                 /\ a \in batch => loaded[a] = artifact[a].attempts
      <3>1. /\ puts[a] \in Nat /\ 0 \in 0..SyncMax
            /\ artifact[a].attempts \in 0..SyncMax /\ artifact[a].attempts <= puts[a]
        BY <2>1, SyncAssumption
      <3>2. loaded[a] = IF a \in batch THEN artifact[a].attempts ELSE 0
        OBVIOUS
      <3> HIDE DEF loaded
      <3> QED
        BY <3>1, <3>2
    <2>3. loaded = [a \in Artifact |-> loaded[a]]
      OBVIOUS
    <2> HIDE DEF loaded
    <2> QED
      BY <2>2, <2>3
  <1> HIDE DEF loaded
  <1>5. x \in Sync /\ x.todo = batch /\ x.cur = {} /\ x.attempts = loaded
    BY <1>2, <1>4, NoSyncFacts DEF Sync, NoSync
  <1>6. PICK y : y = x
    OBVIOUS
  <1> HIDE DEF x
  <1>7. Recalls(y)'
    BY <1>1, <1>4, <1>5, <1>6 DEF Recalls
  <1>8. \A v \in Syncer : sync'[v] = IF v = w THEN y ELSE sync[v]
    BY <1>1, <1>3, <1>6
  <1>9. \A v \in Syncer, a \in Artifact \ shared' :
           v # w /\ a \in sync[v].todo => a \notin batch
    BY <1>1
  <1> HIDE DEF others
  <1>10. HeldAsLoaded'
    BY <1>1, <1>2, <1>4, <1>5, <1>6, <1>8, <1>9 DEF SyncInv, HeldAsLoaded
  <1> QED
    <2>1. \A a \in Artifact : puts[a] <= puts[a] /\ puts[a] \in Nat
      BY <1>3, SyncAssumption
    <2> QED
      BY <1>1, <1>2, <1>3, <1>6, <1>7, <1>10, <2>1, SyncMemoryStep

LEMMA UploadPdfKeeps ==
    ASSUME SyncInv, NEW w \in Syncer, NEW a \in Artifact, NEW ok \in BOOLEAN, UploadPdf(w, a, ok)
    PROVE  SyncInv'
  <1>1. PICK x : x = [sync[w] EXCEPT !.cur = {a}, !.ok = ok]
    OBVIOUS
  <1>2. /\ sync[w] \in Sync /\ Recalls(sync[w]) /\ sync \in [Syncer -> Sync]
        /\ puts \in [Artifact -> 0..SyncMax] /\ uploads \subseteq Artifact /\ shared \subseteq Artifact
    BY DEF SyncInv, SyncTypeOK
  <1>3. /\ x \in Sync /\ x.todo = sync[w].todo /\ x.cur = {a} /\ x.ok = ok
        /\ x.attempts = sync[w].attempts
    BY <1>1, <1>2 DEF Sync
  <1>4. /\ sync' = [sync EXCEPT ![w] = x]
        /\ uploads' = IF ok THEN uploads \cup {a} ELSE uploads
        /\ puts' = [puts EXCEPT ![a] = OneMore(puts[a])]
        /\ a \in sync[w].todo
        /\ UNCHANGED <<artifact, shared>>
    <2>1. sync' = [sync EXCEPT ![w] = x]
      BY <1>1, <1>2 DEF UploadPdf
    <2> QED
      BY <2>1 DEF UploadPdf
  <1>5. /\ puts' \in [Artifact -> 0..SyncMax]
        /\ \A o \in Artifact : puts[o] <= puts'[o]
        /\ puts'[a] = OneMore(puts[a])
    <2>1. \A o \in Artifact : puts[o] \in 0..SyncMax /\ OneMore(puts[o]) \in 0..SyncMax
                              /\ puts[o] <= OneMore(puts[o])
      BY <1>2, OneMoreFacts
    <2>2. \A o \in Artifact : puts'[o] = IF o = a THEN OneMore(puts[o]) ELSE puts[o]
      BY <1>2, <1>4
    <2> QED
      BY <1>2, <1>4, <2>1, <2>2
  <1>6. Recalls(x)'
    <2>1. \A o \in Artifact : /\ x.attempts[o] \in 0..SyncMax /\ puts[o] \in 0..SyncMax
                              /\ puts'[o] \in 0..SyncMax
      BY <1>2, <1>3, <1>5 DEF Sync
    <2>2. OneMore(x.attempts[a]) <= puts'[a]
      BY <1>2, <1>3, <1>5, <2>1, OneMoreFacts DEF Recalls
    <2>3. \A o \in Artifact : x.attempts[o] <= puts'[o]
      BY <1>2, <1>3, <1>5, <2>1 DEF Recalls
    <2> QED
      BY <1>3, <1>4, <2>2, <2>3 DEF Recalls
  <1>7. HeldAsLoaded'
    BY <1>2, <1>3, <1>4 DEF SyncInv, HeldAsLoaded
  <1> QED
    BY <1>2, <1>4, <1>5, <1>6, <1>7, SyncMemoryStep

LEMMA CrashSyncKeeps ==
    ASSUME SyncInv, NEW w \in Syncer, CrashSync(w)
    PROVE  SyncInv'
  <1>1. PICK x : x = NoSync
    OBVIOUS
  <1>2. /\ sync' = [sync EXCEPT ![w] = x] /\ UNCHANGED <<artifact, uploads, puts, shared>>
        /\ sync \in [Syncer -> Sync] /\ puts \in [Artifact -> 0..SyncMax]
        /\ uploads \subseteq Artifact /\ shared \subseteq Artifact
    BY <1>1 DEF CrashSync, SyncInv, SyncTypeOK
  <1>3. Recalls(x)'
    BY <1>1, <1>2, SyncAssumption, NoSyncFacts DEF Recalls
  <1>4. HeldAsLoaded'
    BY <1>1, <1>2, NoSyncFacts DEF SyncInv, HeldAsLoaded
  <1>5. \A a \in Artifact : puts[a] <= puts[a]
    BY <1>2, SyncAssumption
  <1> QED
    BY <1>2, <1>3, <1>4, <1>5, SyncMemoryStep

LEMMA SaveSyncKeeps ==
    ASSUME SyncInv, NEW w \in Syncer, NEW a \in Artifact, SaveSync(w, a)
    PROVE  /\ SyncInv'
           /\ a \in sync[w].todo
           /\ artifact'[a].attempts = OneMore(sync[w].attempts[a])
           /\ \A o \in Artifact : o # a => artifact'[o] = artifact[o]
  <1>1. /\ Recalls(sync[w]) /\ sync[w] \in Sync /\ sync[w].cur = {a} /\ a \in sync[w].todo
        /\ sync \in [Syncer -> Sync] /\ artifact \in [Artifact -> ArtifactRow]
        /\ puts \in [Artifact -> 0..SyncMax]
        /\ UNCHANGED <<uploads, puts, shared>>
    BY DEF SyncInv, SyncTypeOK, Recalls, SaveSync
  <1>2. PICK n : n = OneMore(sync[w].attempts[a])
    OBVIOUS
  <1>3. n \in 0..SyncMax /\ puts[a] \in 0..SyncMax /\ n <= puts[a]
    BY <1>1, <1>2, OneMoreFacts DEF Sync, Recalls
  <1>4. PICK s : s = IF sync[w].ok THEN "synced"
                     ELSE IF n >= SyncMax THEN "sync_failed" ELSE "sync_pending"
    OBVIOUS
  <1>5. artifact' = [artifact EXCEPT ![a] = [status |-> s, attempts |-> n]]
    BY <1>2, <1>4 DEF SaveSync
  <1>6. /\ artifact' \in [Artifact -> ArtifactRow]
        /\ artifact'[a] = [status |-> s, attempts |-> n]
        /\ \A o \in Artifact : o # a => artifact'[o] = artifact[o]
    <2>1. [status |-> s, attempts |-> n] \in ArtifactRow
      BY <1>3, <1>4 DEF ArtifactRow
    <2> QED
      BY <1>1, <1>5, <2>1
  <1>7. PICK x : x = SyncNextOne(sync[w], a)
    OBVIOUS
  <1>8. /\ Recalls(x)
        /\ x.todo = sync[w].todo \ {a}
        /\ \A o \in sync[w].todo \ {a} : x.attempts[o] = sync[w].attempts[o]
    BY <1>1, <1>7, NextOneFacts DEF SyncInv
  <1>9. /\ x \in Sync
        /\ \A v \in Syncer : sync'[v] = IF v = w THEN x ELSE sync[v]
        /\ sync' \in [Syncer -> Sync]
    BY <1>1, <1>7, <1>8 DEF SaveSync, Recalls
  <1>10. SyncTypeOK'
    BY <1>1, <1>6, <1>9 DEF SyncInv, SyncTypeOK
  <1>11. ASSUME NEW v \in Syncer PROVE Recalls(sync[v])'
    <2>1. PICK y : y = sync'[v]
      OBVIOUS
    <2>2. Recalls(y)
      BY <1>8, <1>9, <2>1 DEF SyncInv
    <2>3. Recalls(y)'
      BY <1>1, <2>2 DEF Recalls
    <2> QED
      BY <2>1, <2>3
  <1>12. HeldAsLoaded'
    <2> SUFFICES ASSUME NEW o \in Artifact \ shared
                 PROVE  /\ \A u, v \in Syncer : o \in sync'[u].todo /\ o \in sync'[v].todo => u = v
                        /\ \A v \in Syncer : o \in sync'[v].todo =>
                              /\ artifact'[o].status \in {"sync_pending", "sync_failed"}
                              /\ artifact'[o].attempts = sync'[v].attempts[o]
      BY <1>1 DEF HeldAsLoaded
    <2>1. \A v \in Syncer : sync'[v].todo \subseteq sync[v].todo
      BY <1>8, <1>9
    <2>2. \A u, v \in Syncer : o \in sync[u].todo /\ o \in sync[v].todo => u = v
      BY DEF SyncInv, HeldAsLoaded
    <2>3. \A v \in Syncer : o \in sync'[v].todo => o # a
      BY <1>1, <1>8, <1>9, <2>1, <2>2
    <2>4. \A v \in Syncer : o \in sync'[v].todo => sync'[v].attempts[o] = sync[v].attempts[o]
      BY <1>8, <1>9, <2>1, <2>3
    <2>5. \A v \in Syncer : o \in sync[v].todo =>
                              /\ artifact[o].status \in {"sync_pending", "sync_failed"}
                              /\ artifact[o].attempts = sync[v].attempts[o]
      BY DEF SyncInv, HeldAsLoaded
    <2> QED
      BY <1>6, <2>1, <2>2, <2>3, <2>4, <2>5
  <1>13. SyncEarned'
    <2>1. s = "synced" => a \in uploads
      BY <1>1, <1>4 DEF Recalls
    <2>2. s = "sync_failed" => puts[a] = SyncMax
      BY <1>3, <1>4, SyncAssumption
    <2> QED
      BY <1>1, <1>3, <1>6, <2>1, <2>2 DEF SyncInv, SyncEarned
  <1> QED
    BY <1>1, <1>2, <1>6, <1>10, <1>11, <1>12, <1>13 DEF SyncInv

LEMMA SyncStepKeeps == SyncInv /\ [SyncNext]_syncVars => SyncInv'
  <1> SUFFICES ASSUME SyncInv, [SyncNext]_syncVars PROVE SyncInv'
    OBVIOUS
  <1>1. CASE Printing
    BY <1>1, PrintingKeeps DEF Printing
  <1>2. ASSUME NEW w \in Syncer, AdvanceSync(w) PROVE SyncInv'
    BY <1>2, SaveSyncKeeps, UploadPdfKeeps DEF AdvanceSync
  <1>3. ASSUME NEW w \in Syncer, CrashSync(w) PROVE SyncInv'
    BY <1>3, CrashSyncKeeps
  <1>4. ASSUME NEW w \in Syncer, NEW failedToo \in BOOLEAN, StartSync(w, failedToo) PROVE SyncInv'
    BY <1>4, StartSyncKeeps
  <1>5. CASE UNCHANGED syncVars
    BY <1>5 DEF syncVars, SyncInv, SyncTypeOK, Recalls, HeldAsLoaded, SyncEarned
  <1> QED
    BY <1>1, <1>2, <1>3, <1>4, <1>5 DEF SyncNext

(***************************************************************************)
(* The theorems.                                                           *)
(***************************************************************************)
\* The inductive invariant: what each run remembers of its artifacts happened.
THEOREM SyncsRecall == SyncSpec => []SyncInv
  BY SyncInitHolds, SyncStepKeeps, PTL DEF SyncSpec

\* The rows and the runs hold what their fields may hold.
THEOREM SyncTypeCorrect == SyncSpec => []SyncTypeOK
  <1>1. SyncInv => SyncTypeOK
    BY DEF SyncInv
  <1> QED
    BY <1>1, SyncsRecall, PTL

\* What an artifact says was earned, however many runs save it.
THEOREM SyncStaysEarned == SyncSpec => []SyncEarned
  <1>1. SyncInv => SyncEarned
    BY DEF SyncInv
  <1> QED
    BY <1>1, SyncsRecall, PTL

\* A synced artifact is undone, and attempts are uncounted, only where two runs
\* held it at once: alone, a run saves what it loaded, one attempt later.
THEOREM UndoneOnlyWhereShared == SyncSpec => SyncUndoneOnlyShared
  <1> DEFINE Kept == \A a \in Artifact \ shared :
                        /\ artifact[a].status = "synced" => artifact'[a].status = "synced"
                        /\ artifact'[a].attempts >= artifact[a].attempts
  <1>1. SyncInv /\ [SyncNext]_syncVars => [Kept]_syncVars
    <2> SUFFICES ASSUME SyncInv, SyncNext, NEW o \in Artifact \ shared
                 PROVE  /\ artifact[o].status = "synced" => artifact'[o].status = "synced"
                        /\ artifact'[o].attempts >= artifact[o].attempts
      BY DEF Kept
    <2>1. artifact \in [Artifact -> ArtifactRow] /\ artifact[o].attempts \in 0..SyncMax
      BY DEF SyncInv, SyncTypeOK, ArtifactRow
    <2>2. CASE artifact'[o] = artifact[o]
      BY <2>1, <2>2, SyncAssumption
    <2>3. ASSUME NEW a \in Artifact, CreateArtifact(a) \/ FinishArtifact(a), artifact'[o] # artifact[o]
          PROVE  artifact[o].status # "synced" /\ artifact'[o].attempts = artifact[o].attempts
      BY <2>1, <2>3 DEF CreateArtifact, FinishArtifact, ArtifactRow
    <2>4. ASSUME NEW w \in Syncer, NEW a \in Artifact, SaveSync(w, a), artifact'[o] # artifact[o]
          PROVE  artifact[o].status # "synced" /\ artifact'[o].attempts >= artifact[o].attempts
      <3>1. /\ a = o /\ o \in sync[w].todo
            /\ artifact'[o].attempts = OneMore(sync[w].attempts[o])
        BY <2>4, SaveSyncKeeps
      <3>2. /\ artifact[o].status \in {"sync_pending", "sync_failed"}
            /\ artifact[o].attempts = sync[w].attempts[o]
        BY <3>1 DEF SyncInv, HeldAsLoaded
      <3> QED
        BY <2>1, <3>1, <3>2, OneMoreFacts, SyncAssumption
    <2>5. ASSUME NEW w \in Syncer, \/ CrashSync(w) \/ \E failedToo \in BOOLEAN : StartSync(w, failedToo)
                                   \/ \E a \in Artifact, ok \in BOOLEAN : UploadPdf(w, a, ok)
          PROVE  artifact' = artifact
      BY <2>5 DEF CrashSync, StartSync, UploadPdf
    <2>6. CASE Printing
      BY <2>1, <2>2, <2>3, <2>6, SyncAssumption DEF Printing
    <2>7. ASSUME NEW w \in Syncer, AdvanceSync(w)
          PROVE  /\ artifact[o].status = "synced" => artifact'[o].status = "synced"
                 /\ artifact'[o].attempts >= artifact[o].attempts
      BY <2>2, <2>4, <2>5, <2>7 DEF AdvanceSync
    <2> QED
      BY <2>2, <2>5, <2>6, <2>7 DEF SyncNext
  <1> QED
    BY <1>1, SyncsRecall, PTL DEF SyncSpec, SyncUndoneOnlyShared

-------------------------------------------------------------------------------
(***************************************************************************)
(* The public forms: who holds which slot, and what a pending request bars. *)
(***************************************************************************)
AllKeys == Kinds \X (Sender \cup Address \cup {Unknown})
Serving == {"checked", "half", "reserved", "returning"}
VisitRow == [step: Serving \cup {"unsent", "refused", "accepted"}, kind: Kinds,
             email: Sender \cup {Unknown}, address: Address \cup {Unknown},
             process: Process \cup {Unknown}, got: SUBSET AllKeys, open: SUBSET AllKeys,
             review: {"none", "pending", "reviewed"}]

\* What the form x says of itself.
WellKept(x) ==
    /\ x \in VisitRow
    /\ x.got \subseteq Keys(x) /\ x.open \subseteq Keys(x)
    /\ x.step \in Serving \cup {"accepted"} =>
         x.process \in Process /\ x.email \in Sender /\ x.address \in Address
    /\ x.step = "checked" => x.got = {}
    /\ x.step = "reserved" => x.got = Keys(x)
    /\ x.review = "pending" => x.step = "accepted" /\ x.kind = "account"

\* The keys that the form x has in the cache.
Holds(x) == IF x.step = "accepted" THEN x.open ELSE IF x.step \in Serving THEN x.got ELSE {}

\* The keys in the cache are held by one form, and a request that is pending bars
\* those that looked before it was written.
Apart(x, y) ==
    x.process = y.process =>
        /\ Holds(x) \cap Holds(y) = {}
        /\ x.review = "pending" /\ x.email = y.email =>
             /\ y.review # "pending"
             /\ y.step \in Serving /\ y.kind = "account" => <<"account", x.email>> \in x.open

Backed(x) ==
    /\ x.step \in Serving \cup {"accepted"} => Holds(x) \subseteq slot[x.process]
    /\ x.step = "reserved" => x.open = Keys(x)

FormsInv ==
    /\ slot \in [Process -> SUBSET (Kinds \X (Sender \cup Address))]
    /\ visit \in [Visit -> VisitRow]
    /\ overran \in BOOLEAN
    /\ \A v \in Visit : WellKept(visit[v])
    /\ overran \/ /\ \A v \in Visit : Backed(visit[v])
                  /\ \A v, w \in Visit : v # w => Apart(visit[v], visit[w])

LEMMA FormsImplied == FormsInv => FormsOnce
  <1> SUFFICES ASSUME FormsInv PROVE FormsOnce
    OBVIOUS
  <1>1. FormsTypeOK
    BY DEF FormsInv, WellKept, VisitRow, FormsTypeOK, Serving
  <1>2. ASSUME ~overran, NEW v \in Visit, NEW w \in Visit, v # w,
               visit[v].step = "accepted", visit[w].step = "accepted"
        PROVE  /\ visit[v].process = visit[w].process => visit[v].open \cap visit[w].open = {}
               /\ visit[v].review = "pending" /\ visit[w].review = "pending"
                  /\ visit[v].email = visit[w].email => visit[v].process # visit[w].process
    BY <1>2 DEF FormsInv, Apart, Holds
  <1> QED
    BY <1>1, <1>2 DEF FormsOnce

LEMMA NotSentKept ==
    /\ WellKept(NotSent) /\ WellKept(Refused)
    /\ NotSent.step = "unsent" /\ Refused.step = "refused"
    /\ NotSent.review = "none" /\ Refused.review = "none"
  BY DEF NotSent, Refused, WellKept, VisitRow, Serving, Kinds, Keys

LEMMA FormsInitHolds == FormsInit => FormsInv
  BY NotSentKept DEF FormsInit, FormsInv, WellKept, Backed, Apart, Holds, Serving

\* A step that changes one form, and the cache.
LEMMA OneForm ==
    ASSUME FormsInv, NEW v \in Visit, NEW x, WellKept(x),
           visit' = [visit EXCEPT ![v] = x],
           slot' \in [Process -> SUBSET (Kinds \X (Sender \cup Address))],
           overran' = overran,
           overran \/ /\ Backed(x)'
                      /\ \A w \in Visit \ {v} :
                           Backed(visit[w])' /\ Apart(x, visit[w]) /\ Apart(visit[w], x)
    PROVE  FormsInv'
  <1>1. \A w \in Visit : visit'[w] = IF w = v THEN x ELSE visit[w]
    BY DEF FormsInv
  <1>2. x \in VisitRow
    BY DEF WellKept
  <1>3. visit' \in [Visit -> VisitRow]
    BY <1>2 DEF FormsInv
  <1>4. (\A w \in Visit : WellKept(visit[w]))'
    BY <1>1 DEF FormsInv, WellKept, Keys
  <1>5. ASSUME ~overran PROVE (\A w \in Visit : Backed(visit[w]))'
    <2>1. ASSUME NEW w \in Visit PROVE Backed(visit[w])'
      BY <1>1, <1>5, <2>1 DEF Backed, Holds, Keys
    <2> QED
      BY <2>1
  <1>6. ASSUME ~overran, NEW u \in Visit, NEW w \in Visit, u # w PROVE Apart(visit[u], visit[w])'
    <2>1. Apart(visit'[u], visit'[w])
      BY <1>1, <1>6 DEF FormsInv
    <2> QED
      BY <2>1 DEF Apart, Holds
  <1> QED
    BY <1>3, <1>4, <1>5, <1>6 DEF FormsInv

\* What the invariant says of the other forms.
LEMMA OthersBacked ==
    ASSUME FormsInv, ~overran, NEW v \in Visit, NEW w \in Visit, w # v
    PROVE  /\ Backed(visit[w]) /\ Apart(visit[v], visit[w]) /\ Apart(visit[w], visit[v])
  BY DEF FormsInv

LEMMA CheckKeeps ==
    ASSUME FormsInv, NEW v \in Visit, NEW kind \in Kinds, NEW email \in Sender,
           NEW address \in Address, NEW process \in Process,
           Check(v, kind, email, address, process)
    PROVE  FormsInv'
  <1>1. PICK x : x = [NotSent EXCEPT !.step = "checked", !.kind = kind, !.email = email,
                                     !.address = address, !.process = process]
    OBVIOUS
  <1>2. /\ x.step = "checked" /\ x.kind = kind /\ x.email = email /\ x.got = {} /\ x.open = {}
        /\ x.review = "none" /\ x.process = process
        /\ WellKept(x)
    BY <1>1 DEF NotSent, WellKept, VisitRow, Serving, Kinds, Keys
  <1>3. /\ visit' = [visit EXCEPT ![v] = x] /\ slot' = slot /\ overran' = overran
        /\ kind = "account" => ~HasPending(email)
    BY <1>1 DEF Check
  <1>4. ASSUME ~overran, NEW w \in Visit, w # v PROVE Apart(x, visit[w]) /\ Apart(visit[w], x)
    BY <1>2, <1>3, <1>4 DEF Apart, Holds, Serving, HasPending
  <1>5. ASSUME ~overran PROVE Backed(x)'
    BY <1>2 DEF Backed, Holds, Serving
  <1>6. ASSUME ~overran, NEW w \in Visit PROVE Backed(visit[w])'
    <2>1. visit'[w] = IF w = v THEN x ELSE visit[w]
      BY <1>3 DEF FormsInv
    <2> QED
      BY <1>3, <1>5, <1>6, <2>1 DEF FormsInv, Backed, Holds, Keys
  <1> QED
    BY <1>2, <1>3, <1>4, <1>5, <1>6, OneForm DEF FormsInv

LEMMA AddKeyKeeps ==
    ASSUME FormsInv, NEW v \in Visit, NEW key \in Keys(visit[v]), AddKey(v, key),
           \/ visit[v].step = "checked"
           \/ visit[v].step = "half"
    PROVE  FormsInv'
  <1> DEFINE old == visit[v]
             p == old.process
             mine == IF key \in slot[p] THEN old.got ELSE old.got \cup {key}
             step == CASE old.step = "checked" -> "half"
                       [] mine = Keys(old) -> "reserved"
                       [] OTHER -> "returning"
  <1>1. PICK x : x = [old EXCEPT !.got = mine, !.open = mine, !.step = step]
    OBVIOUS
  <1>2. /\ WellKept(old) /\ old \in VisitRow /\ p \in Process
        /\ old.email \in Sender /\ old.address \in Address /\ old.kind \in Kinds
        /\ old.step \in Serving
    <2>1. WellKept(old) /\ old \in VisitRow
      BY DEF FormsInv
    <2>2. old.step \in Serving
      BY DEF Serving
    <2> HIDE DEF old
    <2> QED
      BY <2>1, <2>2 DEF WellKept, VisitRow
  <1>3. mine \subseteq Keys(old) /\ mine \subseteq AllKeys
    BY <1>2 DEF WellKept, AllKeys, Keys
  <1>4. /\ step \in {"half", "reserved", "returning"} /\ (step = "reserved" => mine = Keys(old))
    BY <1>2
  <1> HIDE DEF step
  <1>5. /\ x.step = step /\ x.kind = old.kind /\ x.email = old.email /\ x.address = old.address
        /\ x.process = p /\ x.got = mine /\ x.open = mine /\ x.review = old.review
        /\ x \in VisitRow
    BY <1>1, <1>2, <1>3, <1>4 DEF VisitRow, Serving
  <1>6. Keys(x) = Keys(old) /\ x.review # "pending" /\ old.review # "pending"
    BY <1>2, <1>5 DEF Keys, WellKept, Serving
  <1>7. WellKept(x)
    BY <1>2, <1>3, <1>4, <1>5, <1>6 DEF WellKept, Serving
  <1>8. /\ visit' = [visit EXCEPT ![v] = x] /\ overran' = overran
        /\ slot' = [slot EXCEPT ![p] = @ \cup {key}]
    <2>1. visit' = [visit EXCEPT ![v].got = mine, ![v].open = mine, ![v].step = step]
      BY DEF AddKey, step
    <2>2. visit' = [visit EXCEPT ![v] = x]
      BY <1>1, <2>1 DEF FormsInv
    <2> QED
      BY <2>2 DEF AddKey
  <1>9. slot' \in [Process -> SUBSET (Kinds \X (Sender \cup Address))]
        /\ \A q \in Process : slot'[q] = IF q = p THEN slot[q] \cup {key} ELSE slot[q]
    <2>1. key \in Kinds \X (Sender \cup Address)
      BY <1>2 DEF Keys
    <2> QED
      BY <1>2, <1>8, <2>1 DEF FormsInv
  <1>10. ASSUME ~overran PROVE Backed(x)'
    BY <1>2, <1>4, <1>5, <1>6, <1>9, <1>10 DEF Backed, Holds, Serving, FormsInv
  <1>11. ASSUME ~overran, NEW w \in Visit, w # v
         PROVE  Backed(visit[w])' /\ Apart(x, visit[w]) /\ Apart(visit[w], x)
    <2>1. Backed(visit[w]) /\ Apart(old, visit[w]) /\ Apart(visit[w], old) /\ WellKept(visit[w])
      BY <1>11, OthersBacked DEF FormsInv
    <2>2. visit'[w] = visit[w]
      BY <1>8, <1>11 DEF FormsInv
    <2>3. Backed(visit[w])'
      BY <1>9, <2>1, <2>2 DEF Backed, Holds, WellKept, Keys
    <2>4. visit[w].process = p => x.got \cap Holds(visit[w]) = {}
      BY <1>2, <1>5, <2>1 DEF Apart, Holds, Backed, Serving
    <2>5. Holds(x) = x.got
      BY <1>4, <1>5 DEF Holds, Serving
    <2> QED
      BY <1>2, <1>4, <1>5, <1>6, <2>1, <2>3, <2>4, <2>5 DEF Apart, Serving
  <1> QED
    BY <1>7, <1>8, <1>9, <1>10, <1>11, OneForm

LEMMA GiveBackKeeps ==
    ASSUME FormsInv, NEW v \in Visit, GiveBack(v)
    PROVE  FormsInv'
  <1> DEFINE old == visit[v]
  <1>1. /\ WellKept(visit[v]) /\ visit[v].step = "returning" /\ visit[v].process \in Process
        /\ visit[v] \in VisitRow
    BY DEF GiveBack, FormsInv, WellKept, Serving
  <1>2. visit[v] = old
    OBVIOUS
  <1>3. CASE old.got = {}
    <2>1. visit' = [visit EXCEPT ![v] = Refused] /\ slot' = slot /\ overran' = overran
      BY <1>2, <1>3 DEF GiveBack, GivesBack
    <2>2. ASSUME ~overran PROVE Backed(Refused)'
      BY NotSentKept DEF Backed, Serving
    <2>3. ASSUME ~overran, NEW w \in Visit, w # v
          PROVE  Backed(visit[w])' /\ Apart(Refused, visit[w]) /\ Apart(visit[w], Refused)
      <3>1. Backed(visit[w]) /\ visit'[w] = visit[w]
        BY <2>1, <2>3 DEF FormsInv
      <3> QED
        BY <2>1, <3>1, NotSentKept DEF Backed, Apart, Holds, Serving, Keys
    <2> QED
      BY <2>1, <2>2, <2>3, OneForm, NotSentKept DEF FormsInv
  <1>4. CASE old.got # {}
    <2>1. PICK key \in old.got :
             /\ slot' = [slot EXCEPT ![old.process] = @ \ {key}]
             /\ visit' = [visit EXCEPT ![v] = IF old.got \subseteq {key} THEN Refused
                                            ELSE [old EXCEPT !.got = @ \ {key}, !.open = {}]]
             /\ overran' = overran
      BY <1>4 DEF GiveBack, GivesBack
    <2> HIDE DEF old
    <2>2. PICK x : x = IF old.got \subseteq {key} THEN Refused
                       ELSE [old EXCEPT !.got = @ \ {key}, !.open = {}]
      OBVIOUS
    <2>3. /\ WellKept(x) /\ x.review # "pending" /\ Holds(x) \subseteq old.got \ {key}
          /\ x.step \in {"refused", "returning"}
          /\ x.step = "returning" => x.process = old.process
      <3>1. CASE old.got \subseteq {key}
        BY <2>2, <3>1, NotSentKept DEF Holds, Serving
      <3>2. CASE ~(old.got \subseteq {key})
        <4>1. /\ x \in VisitRow /\ x.step = "returning" /\ x.got = old.got \ {key} /\ x.open = {}
              /\ x.process = old.process /\ x.kind = old.kind /\ x.email = old.email
              /\ x.address = old.address /\ x.review = old.review
          BY <1>1, <1>2, <2>2, <3>2 DEF VisitRow
        <4> QED
          BY <1>1, <1>2, <4>1 DEF WellKept, Holds, Serving, Keys
      <3> QED
        BY <3>1, <3>2
    <2>4. /\ slot' \in [Process -> SUBSET (Kinds \X (Sender \cup Address))]
          /\ \A q \in Process : slot'[q] = IF q = old.process THEN slot[q] \ {key} ELSE slot[q]
      BY <1>1, <1>2, <2>1 DEF FormsInv
    <2>5. visit' = [visit EXCEPT ![v] = x] /\ overran' = overran
      BY <2>1, <2>2
    <2>6. Holds(old) = old.got
      BY <1>1, <1>2 DEF Holds, Serving
    <2>7. ASSUME ~overran PROVE Backed(x)'
      <3>1. Holds(old) \subseteq slot[old.process]
        BY <1>1, <1>2, <2>7 DEF FormsInv, Backed, Serving
      <3> QED
        BY <1>1, <1>2, <2>3, <2>4, <2>6, <3>1 DEF Backed, Serving
    <2>8. ASSUME ~overran, NEW w \in Visit, w # v
          PROVE  Backed(visit[w])' /\ Apart(x, visit[w]) /\ Apart(visit[w], x)
      <3>1. Backed(visit[w]) /\ Apart(old, visit[w]) /\ Apart(visit[w], old) /\ WellKept(visit[w])
        BY <1>2, <2>8, OthersBacked DEF FormsInv
      <3>2. visit'[w] = visit[w]
        BY <2>5, <2>8 DEF FormsInv
      <3>3. Backed(visit[w])'
        <4>1. visit[w].process = old.process => key \notin Holds(visit[w])
          BY <2>6, <3>1 DEF Apart
        <4>2. visit[w].step \in Serving \cup {"accepted"} =>
                 visit[w].process \in Process /\ Holds(visit[w]) \subseteq slot'[visit[w].process]
          BY <2>4, <3>1, <4>1 DEF Backed, WellKept
        <4> QED
          BY <3>1, <3>2, <4>2 DEF Backed, Holds, Keys
      <3>4. x.step = "refused" => Holds(x) = {}
        BY DEF Holds, Serving
      <3>5. visit[w].process = x.process => Holds(x) \cap Holds(visit[w]) = {}
        BY <2>3, <2>6, <3>1, <3>4 DEF Apart
      <3>6. Apart(x, visit[w])
        BY <2>3, <3>5 DEF Apart
      <3>7. Apart(visit[w], x)
        <4>1. CASE x.step = "refused"
          BY <2>3, <3>5, <4>1 DEF Apart, Serving
        <4>2. CASE x.step = "returning"
          <5>1. x.kind = old.kind /\ x.email = old.email
            BY <1>1, <1>2, <2>2, <4>2, NotSentKept DEF VisitRow
          <5> QED
            BY <1>1, <1>2, <2>3, <3>1, <3>5, <4>2, <5>1 DEF Apart, Serving
        <4> QED
          BY <2>3, <4>1, <4>2
      <3> QED
        BY <3>3, <3>6, <3>7
    <2> QED
      BY <2>3, <2>4, <2>5, <2>7, <2>8, OneForm
  <1> QED
    BY <1>3, <1>4

\* A form that leaves the page without its slot, or keeps it, or gives it back.
LEMMA EndKeeps ==
    ASSUME FormsInv, NEW v \in Visit, Accept(v) \/ Fail(v) \/ Abandon(v) \/ Decide(v)
    PROVE  FormsInv'
  <1>1. PICK old : old = visit[v]
    OBVIOUS
  <1>2. /\ WellKept(old) /\ old \in VisitRow /\ slot' = slot /\ overran' = overran
        /\ old.step = "reserved" \/ old.review = "pending"
    BY <1>1 DEF Accept, Fail, Abandon, Decide, FormsInv
  <1>3. PICK x : visit' = [visit EXCEPT ![v] = x] /\
                 \/ /\ old.step = "reserved"
                    /\ x = [old EXCEPT !.step = "accepted", !.got = {},
                               !.review = IF old.kind = "account" THEN "pending" ELSE "none"]
                 \/ old.step = "reserved" /\ x = [old EXCEPT !.step = "returning"]
                 \/ x = Refused
                 \/ old.review = "pending" /\ x = [old EXCEPT !.review = "reviewed"]
    <2>1. CASE Accept(v)
      BY <1>1, <2>1 DEF Accept, FormsInv
    <2>2. CASE Fail(v)
      BY <1>1, <2>2 DEF Fail, FormsInv
    <2>3. CASE Abandon(v)
      BY <1>1, <2>3 DEF Abandon, FormsInv
    <2>4. CASE Decide(v)
      BY <1>1, <2>4 DEF Decide, FormsInv
    <2> QED
      BY <2>1, <2>2, <2>3, <2>4
  <1>4. WellKept(x)
    <2>1. CASE x = Refused
      BY <2>1, NotSentKept
    <2>2. CASE x # Refused
      <3>1. x \in VisitRow /\ x.kind = old.kind /\ x.email = old.email /\ x.address = old.address
            /\ x.process = old.process /\ x.open = old.open /\ (x.got = old.got \/ x.got = {})
            /\ (x.review = "pending" => x.step = "accepted" /\ x.kind = "account")
            /\ x.step \in {"accepted", "returning"} /\ (x.step = "accepted" => old.step \in {"reserved", "accepted"})
            /\ (x.step = "returning" => old.step = "reserved")
        BY <1>2, <1>3, <2>2 DEF VisitRow, WellKept, Serving
      <3> QED
        BY <1>2, <3>1 DEF WellKept, Keys, Serving
    <2> QED
      BY <2>1, <2>2
  <1>5. ASSUME ~overran
        PROVE  /\ Backed(old) /\ Holds(x) \subseteq Holds(old)
               /\ x = Refused \/ (/\ x.process = old.process /\ x.kind = old.kind /\ x.email = old.email
                                  /\ x.step \in {"accepted", "returning"} /\ x.open = old.open)
    <2>1. Backed(old)
      BY <1>1, <1>5 DEF FormsInv
    <2>2. CASE x = Refused
      BY <2>1, <2>2, NotSentKept DEF Holds, Serving
    <2>3. CASE x # Refused
      BY <1>2, <1>3, <2>1, <2>3 DEF VisitRow, WellKept, Holds, Serving, Backed
    <2> QED
      BY <2>1, <2>2, <2>3
  <1>6. ASSUME ~overran PROVE Backed(x)'
    <2>1. x.step # "reserved" /\ (x.step \in Serving \cup {"accepted"} => x # Refused)
      BY <1>3, <1>5, <1>6, NotSentKept DEF Serving
    <2>2. old.step \in Serving \cup {"accepted"}
      BY <1>2 DEF WellKept, Serving
    <2> QED
      BY <1>2, <1>5, <1>6, <2>1, <2>2 DEF Backed
  <1>7. ASSUME ~overran, NEW w \in Visit, w # v
        PROVE  Backed(visit[w])' /\ Apart(x, visit[w]) /\ Apart(visit[w], x)
    <2>1. Backed(visit[w]) /\ Apart(old, visit[w]) /\ Apart(visit[w], old) /\ WellKept(visit[w])
      BY <1>1, <1>7, OthersBacked DEF FormsInv
    <2>2. visit'[w] = visit[w]
      BY <1>3, <1>7 DEF FormsInv
    <2>3. Backed(visit[w])'
      BY <1>2, <2>1, <2>2 DEF Backed, Holds, Keys
    <2>4. CASE x = Refused
      BY <2>3, <2>4, NotSentKept DEF Apart, Holds, Serving
    <2>5. CASE x # Refused
      <3>1. /\ x.process = old.process /\ x.kind = old.kind /\ x.email = old.email
            /\ x.step \in {"accepted", "returning"} /\ Holds(x) \subseteq Holds(old) /\ x.open = old.open
        BY <1>5, <1>7, <2>5
      <3>2. x.process = visit[w].process => Holds(x) \cap Holds(visit[w]) = {}
        BY <2>1, <3>1 DEF Apart
      <3>3. ASSUME visit[w].review = "pending", x.email = visit[w].email, x.process = visit[w].process
            PROVE  x.review # "pending" /\ (x.step \in Serving /\ x.kind = "account" =>
                                              <<"account", x.email>> \in visit[w].open)
        <4>1. CASE old.step = "reserved"
          <5>1. old.kind = "account" => <<"account", x.email>> \in visit[w].open
            BY <2>1, <3>1, <3>3, <4>1 DEF Apart, Serving
          <5>2. <<old.kind, old.email>> \in Holds(old)
            BY <1>2, <4>1 DEF WellKept, Holds, Serving, Keys
          <5>3. visit[w].step = "accepted" /\ Holds(visit[w]) = visit[w].open
            BY <2>1, <3>3 DEF WellKept, Holds
          <5>4. old.kind # "account"
            BY <2>1, <3>1, <3>3, <5>1, <5>2, <5>3 DEF Apart
          <5> QED
            BY <1>4, <3>1, <5>4 DEF WellKept
        <4>2. CASE old.review = "pending"
          BY <2>1, <3>1, <3>3, <4>2 DEF Apart
        <4> QED
          BY <1>2, <4>1, <4>2
      <3>4. ASSUME x.review = "pending", x.email = visit[w].email, x.process = visit[w].process
            PROVE  /\ visit[w].review # "pending"
                   /\ visit[w].step \in Serving /\ visit[w].kind = "account" => <<"account", x.email>> \in x.open
        <4>1. visit[w].review # "pending"
          BY <3>3, <3>4
        <4>2. old.step = "reserved" /\ old.open = Keys(old) /\ old.kind = "account"
          BY <1>1, <1>2, <1>3, <1>4, <1>5, <1>7, <2>5, <3>1, <3>4 DEF WellKept, VisitRow, Backed
        <4> QED
          BY <3>1, <4>1, <4>2 DEF Keys
      <3>5. Apart(x, visit[w])
        BY <3>2, <3>4 DEF Apart
      <3>6. Apart(visit[w], x)
        BY <3>2, <3>3 DEF Apart
      <3> QED
        BY <2>3, <3>5, <3>6
    <2> QED
      BY <2>4, <2>5
  <1> QED
    BY <1>2, <1>3, <1>4, <1>6, <1>7, OneForm DEF FormsInv

LEMMA ExpireKeeps ==
    ASSUME FormsInv, NEW p \in Process, NEW key \in slot[p], Expire(p, key)
    PROVE  FormsInv'
  <1>1. /\ slot' \in [Process -> SUBSET (Kinds \X (Sender \cup Address))]
        /\ \A q \in Process : slot'[q] = IF q = p THEN slot[q] \ {key} ELSE slot[q]
    BY DEF Expire, FormsInv
  <1>2. ASSUME NEW w \in Visit
        PROVE  /\ WellKept(visit[w]) /\ WellKept(visit'[w])
               /\ visit'[w].step = visit[w].step /\ visit'[w].process = visit[w].process
               /\ visit'[w].kind = visit[w].kind /\ visit'[w].email = visit[w].email
               /\ visit'[w].review = visit[w].review
               /\ visit'[w].got = visit[w].got /\ Keys(visit'[w]) = Keys(visit[w])
               /\ visit'[w].open = IF visit[w].process = p THEN visit[w].open \ {key} ELSE visit[w].open
    <2>1. PICK x : x = visit[w]
      OBVIOUS
    <2>2. PICK y : y = IF x.process = p THEN [x EXCEPT !.open = @ \ {key}] ELSE x
      OBVIOUS
    <2>3. visit'[w] = y
      BY <2>1, <2>2 DEF Expire
    <2>4. WellKept(x) /\ x \in VisitRow
      BY <2>1 DEF FormsInv
    <2>5. /\ y \in VisitRow /\ y.step = x.step /\ y.process = x.process /\ y.kind = x.kind
          /\ y.email = x.email /\ y.address = x.address /\ y.review = x.review /\ y.got = x.got
          /\ y.open = IF x.process = p THEN x.open \ {key} ELSE x.open
      BY <2>2, <2>4 DEF VisitRow
    <2>6. Keys(y) = Keys(x)
      BY <2>5 DEF Keys
    <2>7. WellKept(y)
      BY <2>4, <2>5, <2>6 DEF WellKept
    <2> QED
      BY <2>1, <2>3, <2>4, <2>5, <2>6, <2>7
  <1>3. visit' \in [Visit -> VisitRow]
    <2>1. DOMAIN visit' = Visit /\ visit' = [w \in Visit |-> visit'[w]]
      BY DEF Expire
    <2> QED
      BY <1>2, <2>1 DEF WellKept
  <1>4. overran' \in BOOLEAN
    BY DEF FormsInv, Expire
  <1>5. ASSUME ~overran'
        PROVE  /\ ~overran
               /\ \A w \in Visit : visit[w].step \in Serving /\ visit[w].process = p =>
                                     key \notin Keys(visit[w])
    BY <1>5 DEF Expire, UnderWay, Serving
  <1>6. ASSUME NEW w \in Visit
        PROVE  /\ Holds(visit'[w]) \subseteq Holds(visit[w])
               /\ visit[w].step = "accepted" /\ visit[w].process = p => key \notin Holds(visit'[w])
    BY <1>2 DEF Holds
  <1>7. ASSUME ~overran', NEW w \in Visit PROVE Backed(visit[w])'
    <2>1. Backed(visit[w])
      BY <1>5, <1>7 DEF FormsInv
    <2>2. visit[w].step \in Serving \cup {"accepted"} /\ visit[w].process = p => key \notin Holds(visit'[w])
      <3>1. CASE visit[w].step = "accepted"
        BY <1>6, <3>1
      <3>2. CASE visit[w].step # "accepted"
        <4>1. Holds(visit[w]) \subseteq Keys(visit[w])
          BY <1>2, <3>2 DEF Holds, WellKept
        <4> QED
          BY <1>5, <1>6, <1>7, <3>2, <4>1
      <3> QED
        BY <3>1, <3>2
    <2>3. visit[w].step \in Serving \cup {"accepted"} => Holds(visit'[w]) \subseteq slot'[visit[w].process]
      BY <1>1, <1>2, <1>6, <2>1, <2>2 DEF Backed, WellKept
    <2>4. visit[w].step = "reserved" => visit'[w].open = Keys(visit[w])
      BY <1>2, <1>5, <1>7, <2>1 DEF Backed, Serving
    <2> QED
      BY <1>2, <2>3, <2>4 DEF Backed, Holds, Keys
  <1>8. ASSUME ~overran', NEW u \in Visit, NEW w \in Visit, u # w PROVE Apart(visit[u], visit[w])'
    <2>1. Apart(visit[u], visit[w])
      BY <1>5, <1>8 DEF FormsInv
    <2>2. visit[w].step \in Serving /\ visit[w].process = p /\ visit[w].kind = "account" =>
             key # <<"account", visit[w].email>>
      BY <1>5, <1>8 DEF Keys
    <2>3. visit[u].process = visit[w].process => Holds(visit'[u]) \cap Holds(visit'[w]) = {}
      BY <1>6, <2>1 DEF Apart
    <2>4. ASSUME visit[u].process = visit[w].process, visit[u].review = "pending",
                 visit[u].email = visit[w].email, visit[w].step \in Serving, visit[w].kind = "account"
          PROVE  <<"account", visit[u].email>> \in visit'[u].open
      <3>1. <<"account", visit[u].email>> \in visit[u].open
        BY <2>1, <2>4 DEF Apart
      <3>2. visit[u].process = p => key # <<"account", visit[u].email>>
        BY <2>2, <2>4
      <3> QED
        BY <1>2, <3>1, <3>2
    <2>5. Apart(visit'[u], visit'[w])
      BY <1>2, <2>1, <2>3, <2>4 DEF Apart
    <2> QED
      BY <2>5 DEF Apart, Holds
  <1> QED
    BY <1>1, <1>2, <1>3, <1>4, <1>7, <1>8 DEF FormsInv, WellKept, Keys

LEMMA StartAgainKeeps ==
    ASSUME FormsInv, NEW p \in Process, StartAgain(p)
    PROVE  FormsInv'
  <1>1. /\ slot' \in [Process -> SUBSET (Kinds \X (Sender \cup Address))]
        /\ \A q \in Process : q # p => slot'[q] = slot[q]
        /\ overran' = overran /\ overran \in BOOLEAN
    BY DEF StartAgain, FormsInv
  <1> DEFINE lost(x) == IF x.process # p THEN x
                        ELSE IF x.step \in Serving THEN Refused ELSE [x EXCEPT !.open = {}]
  <1>2. \A w \in Visit : visit'[w] = lost(visit[w])
    BY DEF StartAgain, UnderWay, Serving
  <1>3. ASSUME NEW x, WellKept(x)
        PROVE  /\ WellKept(lost(x)) /\ (x.process = p => Holds(lost(x)) = {})
               /\ x.process # p => lost(x) = x
               /\ lost(x).step \in Serving => lost(x) = x
               /\ x.process = p => lost(x).step \notin Serving
               /\ lost(x).step \in Serving => lost(x).process # p
               /\ lost(x).review = "pending" => x.review = "pending" /\ lost(x).email = x.email
                                                 /\ lost(x).process = x.process
               /\ Holds(lost(x)) \subseteq Holds(x)
    <2>1. CASE x.process # p
      BY <1>3, <2>1
    <2>2. CASE x.process = p /\ x.step \in Serving
      BY <1>3, <2>2, NotSentKept DEF Holds, Serving
    <2>3. CASE x.process = p /\ x.step \notin Serving
      <3>1. /\ lost(x) \in VisitRow /\ lost(x).step = x.step /\ lost(x).kind = x.kind
            /\ lost(x).email = x.email /\ lost(x).address = x.address
            /\ lost(x).process = x.process /\ lost(x).got = x.got
            /\ lost(x).review = x.review /\ lost(x).open = {}
        BY <1>3, <2>3 DEF WellKept, VisitRow
      <3> HIDE DEF lost
      <3> QED
        BY <1>3, <2>3, <3>1 DEF WellKept, Holds, Keys
    <2> QED
      BY <2>1, <2>2, <2>3
  <1> HIDE DEF lost
  <1>4. \A w \in Visit : WellKept(visit[w]) /\ visit'[w] = lost(visit[w]) /\ WellKept(visit'[w])
    BY <1>2, <1>3 DEF FormsInv
  <1>5. visit' \in [Visit -> VisitRow]
    <2>1. DOMAIN visit' = Visit /\ visit' = [w \in Visit |-> visit'[w]]
      BY DEF StartAgain
    <2> QED
      BY <1>4, <2>1 DEF WellKept
  <1>6. ASSUME ~overran', NEW w \in Visit PROVE Backed(visit[w])'
    <2>1. Backed(visit[w]) /\ WellKept(visit[w])
      BY <1>1, <1>4, <1>6 DEF FormsInv
    <2>2. CASE visit[w].process # p
      BY <1>1, <1>3, <1>4, <2>1, <2>2 DEF Backed, WellKept, Holds, Keys
    <2>3. CASE visit[w].process = p
      <3>1. visit'[w].step \notin Serving /\ Holds(visit'[w]) = {}
        BY <1>3, <1>4, <2>1, <2>3
      <3> QED
        BY <3>1 DEF Backed, Serving, Holds, Keys
    <2> QED
      BY <2>2, <2>3
  <1>7. ASSUME ~overran', NEW u \in Visit, NEW w \in Visit, u # w PROVE Apart(visit[u], visit[w])'
    <2>1. Apart(visit[u], visit[w]) /\ Apart(visit[w], visit[u]) /\ WellKept(visit[u]) /\ WellKept(visit[w])
      BY <1>1, <1>4, <1>7 DEF FormsInv
    <2>2. Apart(visit'[u], visit'[w])
      <3>1. CASE visit[u].process # p /\ visit[w].process # p
        BY <1>3, <1>4, <2>1, <3>1
      <3>2. CASE visit[w].process = p /\ visit[u].process # p
        <4>1. visit'[u] = visit[u] /\ Holds(visit'[w]) = {} /\ visit'[w].step \notin Serving
              /\ (visit'[w].review = "pending" => visit'[w].process = p)
          BY <1>3, <1>4, <2>1, <3>2
        <4> QED
          BY <3>2, <4>1 DEF Apart
      <3>3. CASE visit[u].process = p
        <4>1. Holds(visit'[u]) = {} /\ (visit'[u].review = "pending" => visit'[u].process = p /\ visit[u].review = "pending" /\ visit'[u].email = visit[u].email)
          BY <1>3, <1>4, <2>1, <3>3
        <4>2. /\ visit'[w].step \in Serving => visit'[w] = visit[w] /\ visit'[w].process # p
              /\ visit'[w].review = "pending" => visit[w].review = "pending" /\ visit'[w].email = visit[w].email
                                                  /\ visit'[w].process = visit[w].process
          BY <1>3, <1>4, <2>1
        <4> QED
          BY <2>1, <3>3, <4>1, <4>2 DEF Apart
      <3> QED
        BY <3>1, <3>2, <3>3
    <2> QED
      BY <2>2 DEF Apart, Holds
  <1> QED
    BY <1>1, <1>4, <1>5, <1>6, <1>7 DEF FormsInv, WellKept, Keys

LEMMA FormsStepKeeps == FormsInv /\ [FormsNext]_formVars => FormsInv'
  <1> SUFFICES ASSUME FormsInv, [FormsNext]_formVars PROVE FormsInv'
    OBVIOUS
  <1>1. ASSUME NEW v \in Visit, NEW kind \in Kinds, NEW e \in Sender, NEW a \in Address,
               NEW p \in Process, Check(v, kind, e, a, p)
        PROVE  FormsInv'
    BY <1>1, CheckKeeps
  <1>2. ASSUME NEW v \in Visit, AddEmail(v) \/ AddAddress(v) PROVE FormsInv'
    BY <1>2, AddKeyKeeps DEF AddEmail, AddAddress, Keys
  <1>3. ASSUME NEW v \in Visit, GiveBack(v) PROVE FormsInv'
    BY <1>3, GiveBackKeeps
  <1>4. ASSUME NEW v \in Visit, Accept(v) \/ Fail(v) \/ Abandon(v) \/ Decide(v) PROVE FormsInv'
    BY <1>4, EndKeeps
  <1>5. ASSUME NEW p \in Process, StartAgain(p) PROVE FormsInv'
    BY <1>5, StartAgainKeeps
  <1>6. ASSUME NEW p \in Process, NEW key \in slot[p], Expire(p, key) PROVE FormsInv'
    BY <1>6, ExpireKeeps
  <1>7. CASE UNCHANGED formVars
    BY <1>7 DEF formVars, FormsInv, Backed, WellKept, Apart, Holds, Keys
  <1> QED
    BY <1>1, <1>2, <1>3, <1>4, <1>5, <1>6, <1>7 DEF FormsNext

\* The public forms: the slots slow down a sender as they say, per process.
THEOREM FormsStayOnce == FormsSpec => []FormsOnce
  BY FormsInitHolds, FormsStepKeeps, FormsImplied, PTL DEF FormsSpec

-------------------------------------------------------------------------------
(***************************************************************************)
(* The approvals of account requests: one email, one account.              *)
(***************************************************************************)
ApplicationRow == [status: {"absent", "pending", "approved", "rejected"},
                   type: {"user", "association"}, email: Mail \cup {Nobody},
                   name: Mail \cup Nickname \cup {Nobody}, granted: BOOLEAN]
AccountRow == [name: Mail \cup Nickname \cup {Nobody}, email: Mail \cup {Nobody},
               staff: BOOLEAN, portal: BOOLEAN]
ApprovalRow == [step: {"idle", "action", "form"}, app: Application \cup {Nobody},
                found: User \cup {Nobody}, copy: AccountRow, behind: BOOLEAN]

\* What an approval p found is there still, but an account that it did not find may
\* have been made if it is behind.
FoundStill(p) ==
    p.step # "idle" =>
        /\ p.app \in Application /\ application[p.app].status # "absent"
        /\ p.found # Nobody => p.found \in Of(application[p.app].email)
        /\ p.found = Nobody /\ ~p.behind => Of(application[p.app].email) = {}

\* The account that the request r was granted.
Serves(u, r) ==
    /\ account[u] # NoAccount /\ account[u].email = r.email
    /\ IF r.type = "user" THEN account[u].staff ELSE account[u].portal

OneName == \A u, w \in User : u # w /\ account[u] # NoAccount /\ account[w] # NoAccount =>
              account[u].name # account[w].name
OneMail == \A u, w \in User : u # w /\ account[u] # NoAccount /\ account[w] # NoAccount =>
              account[u].email # account[w].email
Announced == \A q \in Application : application[q].granted =>
                /\ application[q].status # "absent"
                /\ \E u \in User : Serves(u, application[q])

AccountsInv ==
    /\ application \in [Application -> ApplicationRow]
    /\ account \in [User -> AccountRow]
    /\ approver \in [Approver -> ApprovalRow]
    /\ crossed \in BOOLEAN
    /\ \A a \in Approver : FoundStill(approver[a])
    /\ OneName /\ (crossed \/ OneMail) /\ Announced

LEMMA AccountsImplied == AccountsInv => AccountsFollow
  <1> SUFFICES ASSUME AccountsInv PROVE AccountsFollow
    OBVIOUS
  <1>1. AccountsTypeOK
    BY DEF AccountsInv, AccountsTypeOK, ApplicationRow, AccountRow, ApprovalRow
  <1>2. \A u, w \in Accounts : u # w => account[u].name # account[w].name
    BY DEF AccountsInv, OneName, Accounts
  <1>3. crossed \/ \A u, w \in Accounts : u # w => account[u].email # account[w].email
    BY DEF AccountsInv, OneMail, Accounts
  <1>4. ASSUME NEW q \in Application, application[q].granted
        PROVE  \E u \in Of(application[q].email) :
                  IF application[q].type = "user" THEN account[u].staff ELSE account[u].portal
    BY <1>4 DEF AccountsInv, Announced, Serves, Of, Accounts
  <1> QED
    BY <1>1, <1>2, <1>3, <1>4 DEF AccountsFollow

LEMMA NoneTyped ==
    /\ NoApplication \in ApplicationRow /\ NoAccount \in AccountRow /\ NoApproval \in ApprovalRow
    /\ NoApplication.granted = FALSE /\ NoApproval.step = "idle"
  BY DEF NoApplication, NoAccount, NoApproval, ApplicationRow, AccountRow, ApprovalRow

LEMMA AccountsInitHolds == AccountsInit => AccountsInv
  <1> SUFFICES ASSUME AccountsInit PROVE AccountsInv
    OBVIOUS
  <1>1. PICK colleagues \in SUBSET (User \X Mail \X (Mail \cup Nickname)) :
           /\ \A c, d \in colleagues : c = d
           /\ account = [u \in User |->
                           IF \E c \in colleagues : c[1] = u
                           THEN LET c == CHOOSE x \in colleagues : x[1] = u
                                IN  [name |-> c[3], email |-> c[2], staff |-> TRUE, portal |-> FALSE]
                           ELSE NoAccount]
    BY DEF AccountsInit
  <1>2. ASSUME NEW u \in User, NEW c \in colleagues, c[1] = u
        PROVE  account[u] = [name |-> c[3], email |-> c[2], staff |-> TRUE, portal |-> FALSE]
    BY <1>1, <1>2
  <1>3. \A u \in User : (\A c \in colleagues : c[1] # u) => account[u] = NoAccount
    BY <1>1
  <1>4. account \in [User -> AccountRow]
    <2>1. ASSUME NEW u \in User PROVE account[u] \in AccountRow
      <3>1. CASE \E c \in colleagues : c[1] = u
        <4>1. PICK c \in colleagues : c[1] = u
          BY <3>1
        <4>2. c[3] \in Mail \cup Nickname /\ c[2] \in Mail
          <5>1. c \in User \X Mail \X (Mail \cup Nickname)
            BY <4>1
          <5> QED
            BY <5>1
        <4>3. account[u] = [name |-> c[3], email |-> c[2], staff |-> TRUE, portal |-> FALSE]
          BY <1>2, <4>1
        <4>4. [name |-> c[3], email |-> c[2], staff |-> TRUE, portal |-> FALSE] \in AccountRow
          BY <4>2 DEF AccountRow
        <4> QED
          BY <4>3, <4>4
      <3>2. CASE ~\E c \in colleagues : c[1] = u
        BY <1>3, <3>2, NoneTyped
      <3> QED
        BY <3>1, <3>2
    <2> QED
      BY <1>1, <2>1
  <1>5. \A u, w \in User : account[u] # NoAccount /\ account[w] # NoAccount => u = w
    BY <1>1, <1>3
  <1>6. OneName /\ OneMail
    BY <1>5 DEF OneName, OneMail
  <1>7. Announced
    BY NoneTyped DEF AccountsInit, Announced
  <1> QED
    BY <1>4, <1>6, <1>7, NoneTyped DEF AccountsInit, AccountsInv, FoundStill

LEMMA ApplyKeeps ==
    ASSUME AccountsInv, NEW q \in Application, NEW type \in {"user", "association"},
           NEW email \in Mail, NEW name \in Mail \cup Nickname, Apply(q, type, email, name)
    PROVE  AccountsInv'
  <1>1. PICK r : r = [NoApplication EXCEPT !.status = "pending", !.type = type,
                                           !.email = email, !.name = name]
    OBVIOUS
  <1>2. r \in ApplicationRow /\ r.granted = FALSE /\ r.status = "pending"
    BY <1>1 DEF NoApplication, ApplicationRow
  <1>3. /\ application' = [application EXCEPT ![q] = r] /\ application[q].status = "absent"
        /\ UNCHANGED <<account, approver, crossed>>
    BY <1>1 DEF Apply
  <1>4. /\ application' \in [Application -> ApplicationRow]
        /\ \A o \in Application : application'[o] = IF o = q THEN r ELSE application[o]
    BY <1>2, <1>3 DEF AccountsInv
  <1>5. \A a \in Approver : FoundStill(approver[a])'
    BY <1>3, <1>4 DEF AccountsInv, FoundStill, Of, Accounts
  <1>6. Announced'
    BY <1>2, <1>3, <1>4 DEF AccountsInv, Announced, Serves
  <1> QED
    BY <1>3, <1>4, <1>5, <1>6 DEF AccountsInv, OneName, OneMail

\* A step that changes what requests say, but not for what and for whom they are.
LEMMA StatusStep ==
    ASSUME AccountsInv, NEW q \in Application, NEW status \in {"approved", "rejected"},
           application' = [application EXCEPT ![q].status = status],
           UNCHANGED <<account, approver, crossed>>
    PROVE  AccountsInv'
  <1>1. PICK r : r = [application[q] EXCEPT !.status = status]
    OBVIOUS
  <1>2. /\ r \in ApplicationRow /\ r.granted = application[q].granted /\ r.status = status
        /\ r.email = application[q].email /\ r.type = application[q].type
    BY <1>1 DEF AccountsInv, ApplicationRow
  <1>3. /\ application' \in [Application -> ApplicationRow]
        /\ \A o \in Application : application'[o] = IF o = q THEN r ELSE application[o]
    BY <1>1, <1>2 DEF AccountsInv
  <1>4. \A a \in Approver : FoundStill(approver[a])'
    BY <1>2, <1>3 DEF AccountsInv, FoundStill, Of, Accounts
  <1>5. Announced'
    BY <1>2, <1>3 DEF AccountsInv, Announced, Serves
  <1> QED
    BY <1>3, <1>4, <1>5 DEF AccountsInv, OneName, OneMail

LEMMA StartApprovalKeeps ==
    ASSUME AccountsInv, NEW a \in Approver, NEW q \in Application, NEW page \in {"action", "form"},
           StartApproval(a, q, page)
    PROVE  AccountsInv'
  <1> DEFINE r == application[q]
  <1>1. CASE UNCHANGED approver /\ application' = [application EXCEPT ![q].status = "approved"]
    BY <1>1, StatusStep DEF StartApproval
  <1>2. CASE UNCHANGED application /\ ~UNCHANGED approver
    <2>1. PICK u \in IF Found(r) = {} THEN {Nobody} ELSE Found(r) :
             approver' = [approver EXCEPT ![a] =
                            [step |-> page, app |-> q, found |-> u, behind |-> FALSE,
                             copy |-> IF u = Nobody THEN NoAccount ELSE account[u]]]
      BY <1>2 DEF StartApproval
    <2>2. PICK p : p = [step |-> page, app |-> q, found |-> u, behind |-> FALSE,
                        copy |-> IF u = Nobody THEN NoAccount ELSE account[u]]
      OBVIOUS
    <2>3. /\ r.status # "absent" /\ UNCHANGED <<account, crossed>>
          /\ u \in User \cup {Nobody}
      BY DEF StartApproval, Found, Of, Accounts
    <2>4. p \in ApprovalRow
      <3>1. u # Nobody => account[u] \in AccountRow
        BY <2>3 DEF AccountsInv
      <3> QED
        BY <2>2, <2>3, <3>1, NoneTyped DEF ApprovalRow
    <2>5. p.app = q /\ p.found = u /\ p.behind = FALSE
      BY <2>2
    <2>6. u # Nobody => u \in Of(r.email)
      BY <2>1 DEF Found
    <2>7. u = Nobody => Of(r.email) = {}
      <3>1. Nobody \notin Of(r.email)
        BY MailsAreNames DEF Of, Accounts
      <3> QED
        BY <2>1, <3>1 DEF Found
    <2>8. FoundStill(p)
      BY <2>3, <2>5, <2>6, <2>7 DEF FoundStill
    <2>9. /\ approver' \in [Approver -> ApprovalRow]
          /\ \A b \in Approver : approver'[b] = IF b = a THEN p ELSE approver[b]
      BY <2>1, <2>2, <2>4 DEF AccountsInv
    <2>10. \A b \in Approver : FoundStill(approver'[b])
      BY <2>8, <2>9 DEF AccountsInv
    <2>11. \A b \in Approver : FoundStill(approver[b])'
      BY <1>2, <2>3, <2>10 DEF FoundStill, Of, Accounts
    <2> QED
      BY <1>2, <2>3, <2>9, <2>11 DEF AccountsInv, OneName, OneMail, Announced, Serves
  <1>3. CASE UNCHANGED application /\ UNCHANGED approver
    BY <1>3 DEF StartApproval, AccountsInv, OneName, OneMail, Announced, Serves, FoundStill, Of, Accounts
  <1> QED
    BY <1>1, <1>2, <1>3 DEF StartApproval

LEMMA ApprovedKeeps ==
    ASSUME AccountsInv, NEW a \in Approver, NEW u \in User,
           approver[a].step # "idle",
           \/ approver[a].found = u
           \/ approver[a].found = Nobody /\ account[u] = NoAccount,
           Approved(a, approver[a].app, u)
    PROVE  AccountsInv'
  <1> DEFINE q == approver[a].app
             r == application[q]
             new == Granted(r, account[u], approver[a].copy)
  <1>1. /\ q \in Application /\ r \in ApplicationRow /\ r.status # "absent"
        /\ account[u] \in AccountRow /\ approver[a].copy \in AccountRow
        /\ approver[a] \in ApprovalRow /\ FoundStill(approver[a])
        /\ approver[a].behind \in BOOLEAN
    BY DEF AccountsInv, FoundStill, ApprovalRow
  <1>2. /\ new \in AccountRow /\ new # NoAccount /\ new.email = r.email
        /\ IF r.type = "user" THEN new.staff ELSE new.portal
        /\ account[u].staff => new.staff
        /\ account[u].portal => new.portal
    <2>1. PICK x, y, z : x = r /\ y = account[u] /\ z = approver[a].copy
      OBVIOUS
    <2>2. x \in ApplicationRow /\ y \in AccountRow /\ z \in AccountRow
      BY <1>1, <2>1
    <2>3. PICK n : n = Granted(x, y, z)
      OBVIOUS
    <2>6. /\ n \in AccountRow /\ n # NoAccount /\ n.email = x.email
          /\ IF x.type = "user" THEN n.staff ELSE n.portal
          /\ y.staff => n.staff
          /\ y.portal => n.portal
      <3>1. x.email \in Mail \cup {Nobody} /\ x.name \in Mail \cup Nickname \cup {Nobody}
        BY <2>2 DEF ApplicationRow
      <3> QED
        BY <2>2, <2>3, <3>1 DEF Granted, AccountRow, NoAccount
    <2> QED
      BY <2>1, <2>3, <2>6
  <1>3. account' = [account EXCEPT ![u] = new]
    BY DEF Approved
  <1>4. \A w \in User : w # u /\ account[w] # NoAccount => account'[u].name # account[w].name
    BY DEF Approved
  <1> HIDE DEF new
  <1>5. /\ account' \in [User -> AccountRow] /\ account'[u] = new
        /\ \A w \in User : w # u => account'[w] = account[w]
    BY <1>2, <1>3 DEF AccountsInv
  <1>6. application' = [application EXCEPT ![q].status = "approved", ![q].granted = TRUE]
    BY DEF Approved
  <1>7. /\ application' \in [Application -> ApplicationRow]
        /\ \A o \in Application : application'[o].email = application[o].email
                                  /\ application'[o].type = application[o].type
                                  /\ (application[o].status # "absent" => application'[o].status # "absent")
                                  /\ (o # q => application'[o] = application[o])
        /\ application'[q].status = "approved"
    <2>1. PICK x : x = [r EXCEPT !.status = "approved", !.granted = TRUE]
      OBVIOUS
    <2>2. x \in ApplicationRow /\ x.email = r.email /\ x.type = r.type /\ x.status = "approved"
      BY <1>1, <2>1 DEF ApplicationRow
    <2>3. application' = [application EXCEPT ![q] = x]
      BY <1>6, <2>1 DEF AccountsInv
    <2> QED
      BY <1>1, <2>2, <2>3 DEF AccountsInv
  <1>8. crossed' = (crossed \/ approver[a].behind) /\ crossed' \in BOOLEAN
    BY <1>1 DEF Approved, AccountsInv
  <1>9. ASSUME NEW b \in Approver
        PROVE  \/ approver'[b] = NoApproval
               \/ /\ approver[b].step # "idle" /\ application[approver[b].app].email = r.email
                  /\ approver'[b] = [approver[b] EXCEPT !.behind = TRUE]
               \/ /\ approver[b].step # "idle" => application[approver[b].app].email # r.email
                  /\ approver'[b] = approver[b]
    BY DEF Approved
  <1>10. \A b \in Approver : approver'[b] \in ApprovalRow
    <2> TAKE b \in Approver
    <2>1. PICK x : x = [approver[b] EXCEPT !.behind = TRUE]
      OBVIOUS
    <2>2. approver[b] \in ApprovalRow
      BY DEF AccountsInv
    <2>3. x \in ApprovalRow
      BY <2>1, <2>2 DEF ApprovalRow
    <2> QED
      BY <1>9, <2>1, <2>2, <2>3, NoneTyped
  <1>11. approver' \in [Approver -> ApprovalRow]
    <2>1. DOMAIN approver' = Approver /\ approver' = [b \in Approver |-> approver'[b]]
      BY DEF Approved
    <2> QED
      BY <1>10, <2>1
  <1>12. u \in Of(r.email) \/ account[u] = NoAccount
    BY <1>1, MailsAreNames DEF FoundStill
  <1>13. ASSUME NEW b \in Approver PROVE FoundStill(approver[b])'
    <2>1. CASE approver'[b] = NoApproval
      BY <2>1, NoneTyped DEF FoundStill
    <2>2. CASE /\ approver[b].step # "idle"
               /\ \/ /\ application[approver[b].app].email = r.email
                     /\ approver'[b] = [approver[b] EXCEPT !.behind = TRUE]
                  \/ /\ application[approver[b].app].email # r.email
                     /\ approver'[b] = approver[b]
      <3>1. FoundStill(approver[b]) /\ approver[b] \in ApprovalRow
        BY DEF AccountsInv
      <3>2. PICK m, e : m = r.email /\ e = application[approver[b].app].email
        OBVIOUS
      <3>3. /\ approver'[b].app = approver[b].app /\ approver'[b].found = approver[b].found
            /\ approver'[b].step = approver[b].step
            /\ e = m => approver'[b].behind
            /\ approver[b].behind => approver'[b].behind
        BY <2>2, <3>1, <3>2 DEF ApprovalRow
      <3>4. /\ approver[b].app \in Application /\ application[approver[b].app].status # "absent"
            /\ application'[approver'[b].app].email = e
            /\ application'[approver'[b].app].status # "absent"
        BY <1>7, <2>2, <3>1, <3>2, <3>3 DEF FoundStill
      <3>5. \A w : w \in Of(e) => w \in Of(e)'
        BY <1>1, <1>2, <1>5, <1>12, <3>2 DEF Of, Accounts
      <3>6. e # m => \A w : w \in Of(e)' => w \in Of(e)
        BY <1>2, <1>5, <3>2 DEF Of, Accounts
      <3>7. approver[b].found # Nobody => approver[b].found \in Of(e)
        BY <2>2, <3>1, <3>2 DEF FoundStill
      <3>8. approver[b].found = Nobody /\ ~approver'[b].behind => Of(e)' = {}
        BY <2>2, <3>1, <3>2, <3>3, <3>6 DEF FoundStill
      <3> QED
        BY <3>3, <3>4, <3>5, <3>7, <3>8 DEF FoundStill
    <2>3. CASE approver[b].step = "idle" /\ approver'[b] = approver[b]
      BY <2>3 DEF FoundStill
    <2> QED
      BY <1>9, <2>1, <2>2, <2>3
  <1>14. OneName'
    BY <1>4, <1>5 DEF OneName, AccountsInv
  <1>15. crossed' \/ OneMail'
    <2> SUFFICES ASSUME ~crossed' PROVE OneMail'
      OBVIOUS
    <2>1. ~crossed /\ ~approver[a].behind /\ OneMail
      BY <1>8 DEF AccountsInv
    <2>2. \A w \in User : w # u /\ account[w] # NoAccount => account[w].email # r.email
      <3>1. CASE account[u] # NoAccount
        BY <1>12, <2>1, <3>1 DEF OneMail, Of, Accounts
      <3>2. CASE account[u] = NoAccount
        <4>1. approver[a].found = Nobody
          BY <1>1, <3>2, MailsAreNames DEF FoundStill, Of, Accounts
        <4>2. Of(r.email) = {}
          BY <1>1, <2>1, <4>1 DEF FoundStill
        <4> QED
          BY <4>2 DEF Of, Accounts
      <3> QED
        BY <3>1, <3>2
    <2> QED
      BY <1>2, <1>5, <2>1, <2>2 DEF OneMail
  <1>16. Announced'
    <2> SUFFICES ASSUME NEW o \in Application, application'[o].granted
                 PROVE  /\ application'[o].status # "absent"
                        /\ \E w \in User : Serves(w, application[o])'
      BY DEF Announced
    <2>1. CASE o = q
      BY <1>1, <1>2, <1>5, <1>7, <2>1 DEF Serves
    <2>2. CASE o # q
      <3>1. application'[o] = application[o]
        BY <1>7, <2>2
      <3>2. PICK w \in User : Serves(w, application[o])
        BY <3>1 DEF AccountsInv, Announced
      <3>3. application'[o].status # "absent"
        BY <3>1 DEF AccountsInv, Announced
      <3>4. Serves(w, application[o])'
        <4>1. CASE w # u
          BY <1>5, <3>1, <3>2, <4>1 DEF Serves
        <4>2. CASE w = u
          <5>1. account[u].email = r.email
            BY <1>12, <3>2, <4>2 DEF Serves, Of
          <5> QED
            BY <1>2, <1>5, <3>1, <3>2, <4>2, <5>1 DEF Serves
        <4> QED
          BY <4>1, <4>2
      <3> QED
        BY <3>3, <3>4
    <2> QED
      BY <2>1, <2>2
  <1> QED
    BY <1>5, <1>7, <1>8, <1>11, <1>13, <1>14, <1>15, <1>16 DEF AccountsInv

LEMMA ApprovalFailsKeeps ==
    ASSUME AccountsInv, NEW a \in Approver, ApprovalFails(a)
    PROVE  AccountsInv'
  <1>1. /\ approver' = [approver EXCEPT ![a] = NoApproval]
        /\ UNCHANGED <<application, account, crossed>>
    BY DEF ApprovalFails
  <1>2. approver' \in [Approver -> ApprovalRow]
    BY <1>1, NoneTyped DEF AccountsInv
  <1>3. \A b \in Approver : FoundStill(approver[b])'
    BY <1>1, NoneTyped DEF AccountsInv, FoundStill, Of, Accounts
  <1> QED
    BY <1>1, <1>2, <1>3 DEF AccountsInv, OneName, OneMail, Announced, Serves

LEMMA AccountsStepKeeps == AccountsInv /\ [AccountsNext]_accountVars => AccountsInv'
  <1> SUFFICES ASSUME AccountsInv, [AccountsNext]_accountVars PROVE AccountsInv'
    OBVIOUS
  <1>1. ASSUME NEW q \in Application, NEW email \in Mail, NEW name \in Mail \cup Nickname,
               NEW type \in {"user", "association"}, Apply(q, type, email, name)
        PROVE  AccountsInv'
    BY <1>1, ApplyKeeps
  <1>2. ASSUME NEW q \in Application, RejectRequest(q) PROVE AccountsInv'
    BY <1>2, StatusStep DEF RejectRequest
  <1>3. ASSUME NEW a \in Approver, NEW q \in Application, NEW page \in {"action", "form"},
               StartApproval(a, q, page)
        PROVE  AccountsInv'
    BY <1>3, StartApprovalKeeps
  <1>4. ASSUME NEW a \in Approver, ApproveFound(a) PROVE AccountsInv'
    <2>1. approver[a].found \in User
      BY <1>4 DEF ApproveFound, AccountsInv, ApprovalRow
    <2> QED
      BY <1>4, <2>1, ApprovedKeeps DEF ApproveFound
  <1>5. ASSUME NEW a \in Approver, NEW u \in User, ApproveNew(a, u) PROVE AccountsInv'
    BY <1>5, ApprovedKeeps DEF ApproveNew
  <1>6. ASSUME NEW a \in Approver, ApprovalFails(a) PROVE AccountsInv'
    BY <1>6, ApprovalFailsKeeps
  <1>7. CASE UNCHANGED accountVars
    BY <1>7 DEF accountVars, AccountsInv, OneName, OneMail, Announced, Serves, FoundStill, Of, Accounts
  <1> QED
    BY <1>1, <1>2, <1>3, <1>4, <1>5, <1>6, <1>7 DEF AccountsNext

\* One email, one account: what the approvals of requests keep.
THEOREM AccountsStayFollowed == AccountsSpec => []AccountsFollow
  BY AccountsInitHolds, AccountsStepKeeps, AccountsImplied, PTL DEF AccountsSpec

-------------------------------------------------------------------------------
(***************************************************************************)
(* The notices of an order's changes.                                      *)
(***************************************************************************)
\* What a request has written and not committed, its notices lead to from what is committed.
Leads(x) ==
    \A s \in States : Telling(x.notices, s)
                        = Tells(<<watched, IF x.mine # <<>> THEN Head(x.mine) ELSE watched>>, s)
Written(x) ==
    /\ x.mine # <<>> => x.atomic /\ x.step \in {"loaded", "captured"}
    /\ x.step \in {"away", "sending"} => ~x.atomic
    /\ x.mine = <<>> /\ x.step # "sending" => x.notices = <<>>

NoticesInv ==
    /\ NoticesFollow
    /\ \A r \in Clerk : Written(atWork[r])
    /\ \A r, c \in Clerk : atWork[r].mine # <<>> /\ atWork[c].mine # <<>> => r = c
    /\ blurred \/ \A r \in Clerk : atWork[r].step # "sending" => Leads(atWork[r])

OwedBy(x, s) == IF x.step = "sending" THEN Telling(x.notices, s) ELSE 0

-----------------------------------------------------------------------------
Notice == States \X States

LEMMA TellsInt ==
    /\ \A n, s : Tells(n, s) \in Whole
    /\ \A u, s : Tells(<<u, u>>, s) = 0
    /\ \A u, v, w, s : Tells(<<u, v>>, s) + Tells(<<v, w>>, s) = Tells(<<u, w>>, s)
  BY DEF Tells, Whole

LEMMA TellingInt ==
    ASSUME NEW n \in Seq(Notice), NEW s
    PROVE  /\ IsFiniteSet(DOMAIN n) /\ [i \in DOMAIN n |-> Tells(n[i], s)] \in [DOMAIN n -> Whole]
           /\ Telling(n, s) \in Whole
  <1> DEFINE size == [i \in DOMAIN n |-> Tells(n[i], s)]
  <1>1. IsFiniteSet(DOMAIN n)
    <2>1. DOMAIN n = 1 .. Len(n) /\ Len(n) \in Nat
      OBVIOUS
    <2> QED BY <2>1, FS_Interval
  <1>2. size \in [DOMAIN n -> Whole]
    BY TellsInt DEF Whole
  <1>3. SumFunction(size) \in Whole
    <2> HIDE DEF size
    <2> QED BY <1>1, <1>2, IntSum
  <1> QED BY <1>1, <1>2, <1>3 DEF Telling

LEMMA TellingNone == ASSUME NEW s PROVE Telling(<<>>, s) = 0
  <1> DEFINE size == [i \in DOMAIN <<>> |-> Tells(<<>>[i], s)]
  <1>1. DOMAIN <<>> = {} /\ IsFiniteSet({}) /\ size \in [{} -> Nat]
    BY FS_EmptySet
  <1>2. SumFunction(size) = Cardinality(Heap(size, {}))
    <2> HIDE DEF size
    <2> QED BY <1>1, SumIsHeap
  <1>3. Heap(size, {}) = {}
    BY DEF Heap
  <1> QED BY <1>2, <1>3, FS_EmptySet DEF Telling

LEMMA TellingMore ==
    ASSUME NEW n \in Seq(Notice), NEW x \in Notice, NEW s
    PROVE  Telling(Append(n, x), s) = Telling(n, s) + Tells(x, s)
  <1> DEFINE m == Append(n, x)  l == Len(n) + 1
             size == [i \in DOMAIN m |-> Tells(m[i], s)]
             rest == [i \in DOMAIN n |-> Tells(n[i], s)]
  <1>1. /\ m \in Seq(Notice) /\ DOMAIN m = 1 .. l /\ l \in DOMAIN m /\ m[l] = x
        /\ DOMAIN m \ {l} = DOMAIN n /\ \A i \in DOMAIN n : m[i] = n[i]
    <2>1. m \in Seq(Notice) /\ Len(m) = l /\ Len(n) \in Nat
      OBVIOUS
    <2>2. DOMAIN m = 1 .. l /\ DOMAIN n = 1 .. Len(n)
      BY <2>1
    <2>3. m[l] = x /\ \A i \in 1 .. Len(n) : m[i] = n[i]
      OBVIOUS
    <2> HIDE DEF m
    <2> QED BY <2>1, <2>2, <2>3
  <1>2. IsFiniteSet(DOMAIN m) /\ size \in [DOMAIN m -> Whole]
    <2> HIDE DEF m
    <2> QED BY <1>1, TellingInt
  <1>3. /\ rest \in [DOMAIN m \ {l} -> Whole]
        /\ \A i \in DOMAIN m \ {l} : rest[i] = size[i]
    <2> HIDE DEF m, l
    <2> QED BY <1>1, TellsInt
  <1>4. SumFunction(size) = size[l] + SumFunction(rest)
    <2> DEFINE S == DOMAIN m
    <2>1. LessOne(rest, size, S, l)
      <3> HIDE DEF size, rest, m, l
      <3> QED BY <1>1, <1>2, <1>3 DEF LessOne
    <2> HIDE DEF size, rest, m, l, S
    <2> QED BY <2>1, IntSumInserts
  <1>5. size[l] = Tells(x, s)
    <2> HIDE DEF m, l
    <2> QED BY <1>1
  <1>6. Telling(n, s) \in Int /\ Tells(x, s) \in Int
    BY TellingInt, TellsInt DEF Whole
  <1>7. Telling(m, s) = SumFunction(size) /\ Telling(n, s) = SumFunction(rest)
    BY DEF Telling
  <1> HIDE DEF size, rest, l
  <1>8. Telling(m, s) = Telling(n, s) + Tells(x, s)
    BY <1>4, <1>5, <1>6, <1>7
  <1> QED BY <1>8

LEMMA TellingLess ==
    ASSUME NEW n \in Seq(Notice), n # <<>>, NEW s
    PROVE  Telling(n, s) = Tells(Head(n), s) + Telling(Tail(n), s)
  <1> DEFINE t == Tail(n)
             size == [i \in DOMAIN n |-> Tells(n[i], s)]
             rest == [i \in DOMAIN n \ {1} |-> size[i]]
             tall == [i \in DOMAIN t |-> Tells(t[i], s)]
             down == [i \in DOMAIN n \ {1} |-> i - 1]
             up == [i \in DOMAIN t |-> i + 1]
  <1>1. /\ t \in Seq(Notice) /\ 1 \in DOMAIN n /\ n[1] = Head(n)
        /\ DOMAIN n = 1 .. Len(n) /\ DOMAIN t = 1 .. (Len(n) - 1) /\ Len(n) \in Nat
        /\ \A i \in DOMAIN t : t[i] = n[i + 1]
    OBVIOUS
  <1>2. IsFiniteSet(DOMAIN n) /\ size \in [DOMAIN n -> Whole]
    BY TellingInt
  <1>3. IsFiniteSet(DOMAIN t) /\ tall \in [DOMAIN t -> Whole]
    <2> HIDE DEF t
    <2> QED BY <1>1, TellingInt
  <1>4. SumFunction(size) = size[1] + SumFunction(rest)
    <2>1. \A i \in DOMAIN n \ {1} : rest[i] = size[i]
      OBVIOUS
    <2>2. rest \in [DOMAIN n \ {1} -> Whole]
      <3> HIDE DEF size
      <3> QED BY <1>2
    <2> DEFINE S == DOMAIN n  x == 1
    <2>3. LessOne(rest, size, S, x)
      <3> HIDE DEF size, rest
      <3> QED BY <1>1, <1>2, <2>1, <2>2 DEF LessOne
    <2> HIDE DEF size, rest, S, x
    <2>4. SumFunction(size) = size[x] + SumFunction(rest)
      BY <2>3, IntSumInserts
    <2> QED BY <2>4 DEF x
  <1>5. IsFiniteSet(DOMAIN n \ {1}) /\ rest \in [DOMAIN n \ {1} -> Whole]
    <2> HIDE DEF size
    <2> QED BY <1>2, FS_Subset
  <1>6. /\ down \in [DOMAIN n \ {1} -> DOMAIN t] /\ up \in [DOMAIN t -> DOMAIN n \ {1}]
        /\ \A i \in DOMAIN n \ {1} : up[down[i]] = i
        /\ \A i \in DOMAIN t : down[up[i]] = i
    <2> HIDE DEF t
    <2> QED BY <1>1
  <1>7. ASSUME NEW i \in DOMAIN n \ {1} PROVE rest[i] = tall[down[i]]
    <2>1. i - 1 \in DOMAIN t /\ t[i - 1] = n[i]
      <3> HIDE DEF t
      <3> QED BY <1>1
    <2> HIDE DEF t
    <2> QED BY <2>1
  <1>8. SumFunction(rest) = SumFunction(tall)
    <2> DEFINE D == DOMAIN n \ {1}  E == DOMAIN t
    <2>1. /\ IsFiniteSet(D) /\ IsFiniteSet(E) /\ rest \in [D -> Whole] /\ tall \in [E -> Whole]
          /\ down \in [D -> E] /\ up \in [E -> D]
          /\ \A i \in D : up[down[i]] = i /\ rest[i] = tall[down[i]]
          /\ \A i \in E : down[up[i]] = i
      <3> HIDE DEF rest, tall, down, up, t
      <3> QED BY <1>3, <1>5, <1>6, <1>7
    <2> HIDE DEF rest, tall, down, up, t, D, E
    <2> QED BY <2>1, IntSumRenamed
  <1>9. Telling(n, s) = SumFunction(size) /\ Telling(t, s) = SumFunction(tall)
    BY DEF Telling
  <1>10. size[1] = Tells(Head(n), s)
    BY <1>1
  <1> HIDE DEF size, rest, tall
  <1>11. Telling(n, s) = Tells(Head(n), s) + Telling(t, s)
    BY <1>4, <1>8, <1>9, <1>10
  <1> QED BY <1>11

LEMMA AwayIs == Original \in States /\ Away \in Asker /\ Written(Away) /\ Away.mine = <<>>
                /\ Away.step = "away" /\ Away.notices = <<>> /\ Away.atomic = FALSE
  <1>1. PICK v : v \in Value
    BY SomethingWatched DEF SomethingWatched
  <1>2. [f \in Field |-> v] \in States /\ \A f, g \in Field : [h \in Field |-> v][f] = [h \in Field |-> v][g]
    BY <1>1 DEF States
  <1>3. Original \in States
    BY <1>2 DEF Original
  <1>4. <<>> \in Seq(States) /\ <<>> \in Seq(States \X States) /\ {} \in SUBSET Field
    OBVIOUS
  <1> QED BY <1>3, <1>4 DEF Away, Asker, Written

LEMMA OwedInt ==
    ASSUME NEW x \in Asker, NEW s
    PROVE  OwedBy(x, s) \in Whole
  <1>1. x.notices \in Seq(Notice)
    BY DEF Asker, Notice
  <1>2. Telling(x.notices, s) \in Whole
    BY <1>1, TellingInt
  <1> QED BY <1>2 DEF OwedBy, Whole

\* One request, the row and the notices told change.
Balanced(r, x, s) ==
    told'[s] + OwedBy(x, s) = told[s] + OwedBy(atWork[r], s) + Tells(<<watched, watched'>>, s)
LeadsOn(x, s) ==
    Telling(x.notices, s) = Tells(<<watched', IF x.mine # <<>> THEN Head(x.mine) ELSE watched'>>, s)
Becomes(r, x) ==
    /\ x \in Asker /\ Len(x.mine) <= 1 /\ Written(x)
    /\ atWork' = [atWork EXCEPT ![r] = x] /\ watched' \in States /\ told' \in [States -> Int]
    /\ blurred' \in BOOLEAN /\ (blurred => blurred')
    /\ x.mine # <<>> \/ watched' # watched => \A c \in Clerk \ {r} : atWork[c].mine = <<>>
    /\ ~blurred' => \A s \in States : Balanced(r, x, s) /\ (x.step = "sending" \/ LeadsOn(x, s))

LEMMA AskerChanges ==
    ASSUME NoticesInv, NEW r \in Clerk, NEW x, Becomes(r, x)
    PROVE  NoticesInv'
  <1> USE DEF Becomes, Balanced, LeadsOn
  <1>1. atWork \in [Clerk -> Asker]
    BY DEF NoticesInv, NoticesFollow, NoticesTypeOK
  <1>2. /\ atWork' \in [Clerk -> Asker] /\ atWork'[r] = x
        /\ \A c \in Clerk \ {r} : atWork'[c] = atWork[c]
    BY <1>1
  <1>3. NoticesTypeOK'
    <2>1. \A c \in Clerk : Len(atWork'[c].mine) <= 1
      BY <1>2 DEF NoticesInv, NoticesFollow, NoticesTypeOK
    <2> QED BY <1>2, <2>1 DEF NoticesTypeOK
  <1>4. \A c \in Clerk : Written(atWork[c])' 
    <2>1. \A c \in Clerk : Written(atWork[c])
      BY DEF NoticesInv
    <2> QED BY <1>2, <2>1 DEF Written
  <1>5. \A b, c \in Clerk : atWork'[b].mine # <<>> /\ atWork'[c].mine # <<>> => b = c
    BY <1>2 DEF NoticesInv
  <1>6. ASSUME ~blurred', NEW s \in States
        PROVE  told'[s] + SumFunction([c \in Clerk |-> Owed(c, s)'])
                 = Tells(<<Original, watched'>>, s)
    <2> DEFINE old == [c \in Clerk |-> Owed(c, s)]
               new == [c \in Clerk |-> Owed(c, s)']
    <2>1. \A c \in Clerk : Owed(c, s) = OwedBy(atWork[c], s) /\ Owed(c, s)' = OwedBy(atWork'[c], s)
      BY DEF Owed, OwedBy
    <2>2. old \in [Clerk -> Whole] /\ new \in [Clerk -> Whole]
      BY <1>1, <1>2, <2>1, OwedInt
    <2>3. (\A c \in Clerk \ {r} : new[c] = old[c]) /\ old[r] = OwedBy(atWork[r], s) /\ new[r] = OwedBy(x, s)
      BY <1>2, <2>1
    <2>4. SumFunction(new) = SumFunction(old) - old[r] + new[r] /\ SumFunction(old) \in Whole
      <3>1. IsFiniteSet(Clerk)
        BY SomethingWatched DEF SomethingWatched
      <3> HIDE DEF old, new
      <3>2. \A c \in Clerk \ {r} : new[c] = old[c]
        BY <2>3
      <3>3. SumFunction(old) \in Whole
        BY <2>2, <3>1, IntSum
      <3>4. SumFunction(new) = SumFunction(old) - old[r] + new[r]
        BY <2>2, <3>1, <3>2, IntSumChanges
      <3> QED BY <3>3, <3>4
    <2>5. told[s] + SumFunction(old) = Tells(<<Original, watched>>, s)
      BY <1>6 DEF NoticesInv, NoticesFollow
    <2>6. told'[s] + new[r] = told[s] + old[r] + Tells(<<watched, watched'>>, s)
      BY <1>6, <2>3
    <2>7. Tells(<<Original, watched>>, s) + Tells(<<watched, watched'>>, s) = Tells(<<Original, watched'>>, s)
      BY TellsInt
    <2>8. old[r] \in Int /\ new[r] \in Int /\ SumFunction(old) \in Int
      BY <2>2, <2>4 DEF Whole
    <2>9. told[s] \in Int /\ told'[s] \in Int
      BY DEF NoticesInv, NoticesFollow, NoticesTypeOK
    <2>10. Tells(<<Original, watched>>, s) \in Int /\ Tells(<<watched, watched'>>, s) \in Int
      BY TellsInt DEF Whole
    <2> HIDE DEF old, new
    <2>11. told'[s] + SumFunction(new) = Tells(<<Original, watched'>>, s)
      <3> DEFINE t == told[s]  u == told'[s]  a == old[r]  b == new[r]
                 m == SumFunction(old)  n == SumFunction(new)
                 e == Tells(<<Original, watched>>, s)  f == Tells(<<watched, watched'>>, s)
      <3>1. t \in Int /\ u \in Int /\ a \in Int /\ b \in Int /\ m \in Int /\ e \in Int /\ f \in Int
        BY <2>8, <2>9, <2>10
      <3>2. n = m - a + b
        BY <2>4
      <3>3. t + m = e
        BY <2>5
      <3>4. u + b = t + a + f
        BY <2>6
      <3>5. u + n = e + f
        <4> HIDE DEF t, u, a, b, m, n, e, f
        <4> QED BY <3>1, <3>2, <3>3, <3>4
      <3> QED BY <2>7, <3>5
    <2> QED BY <2>11 DEF new
  <1>7. ASSUME ~blurred', NEW c \in Clerk, atWork'[c].step # "sending" PROVE Leads(atWork[c])'
    <2>1. CASE c = r
      BY <1>2, <1>7, <2>1 DEF Leads
    <2>2. CASE c # r /\ watched' = watched
      BY <1>2, <1>7, <2>2 DEF NoticesInv, Leads
    <2>3. CASE c # r /\ watched' # watched
      <3>1. atWork'[c] = atWork[c] /\ atWork[c].mine = <<>> /\ atWork[c].notices = <<>>
        BY <1>2, <1>7, <2>3 DEF NoticesInv, Written
      <3> QED BY <3>1, TellingNone, TellsInt DEF Leads
    <2> QED BY <2>1, <2>2, <2>3
  <1>8. NoticesFollow'
    BY <1>3, <1>6 DEF NoticesFollow
  <1> QED BY <1>4, <1>5, <1>7, <1>8 DEF NoticesInv

LEMMA AskerFacts ==
    ASSUME NoticesInv, NEW r \in Clerk
    PROVE  /\ atWork[r] \in Asker /\ Len(atWork[r].mine) <= 1 /\ Written(atWork[r])
           /\ Current(r) \in States /\ watched \in States /\ told \in [States -> Int]
           /\ blurred \in BOOLEAN
           /\ atWork[r].mine # <<>> => \A c \in Clerk \ {r} : atWork[c].mine = <<>>
  <1>1. /\ atWork[r] \in Asker /\ Len(atWork[r].mine) <= 1 /\ Written(atWork[r])
        /\ watched \in States /\ told \in [States -> Int] /\ blurred \in BOOLEAN
        /\ atWork[r].mine # <<>> => \A c \in Clerk \ {r} : atWork[c].mine = <<>>
    BY DEF NoticesInv, NoticesFollow, NoticesTypeOK
  <1>2. Current(r) \in States
    <2>1. atWork[r].mine \in Seq(States)
      BY <1>1 DEF Asker
    <2>2. CASE atWork[r].mine = <<>>
      BY <1>1, <2>2 DEF Current
    <2>3. CASE atWork[r].mine # <<>>
      BY <2>1, <2>3 DEF Current
    <2> QED BY <2>2, <2>3
  <1> QED BY <1>1, <1>2

\* Nothing is sent or committed.
Quiet(r, x) ==
    /\ UNCHANGED <<watched, told, blurred>>
    /\ x.step # "sending" /\ atWork[r].step # "sending"
    /\ \/ x.mine = <<>> /\ x.notices = <<>>
       \/ x.mine = atWork[r].mine /\ x.notices = atWork[r].notices

LEMMA QuietAsker ==
    ASSUME NoticesInv, NEW r \in Clerk, NEW x \in Asker, Written(x),
           atWork' = [atWork EXCEPT ![r] = x], Quiet(r, x)
    PROVE  NoticesInv'
  <1>1. /\ Len(x.mine) <= 1 /\ watched' \in States /\ told' \in [States -> Int]
        /\ blurred' \in BOOLEAN /\ (blurred => blurred')
        /\ x.mine # <<>> \/ watched' # watched => \A c \in Clerk \ {r} : atWork[c].mine = <<>>
    BY AskerFacts DEF Quiet
  <1>2. ASSUME NEW s \in States
        PROVE  Balanced(r, x, s)
    <2>1. told'[s] = told[s] /\ told[s] \in Int
      BY AskerFacts DEF Quiet
    <2>2. OwedBy(x, s) = 0 /\ OwedBy(atWork[r], s) = 0
      BY DEF OwedBy, Quiet
    <2>3. Tells(<<watched, watched'>>, s) = 0
      BY TellsInt DEF Quiet
    <2> QED BY <2>1, <2>2, <2>3 DEF Balanced
  <1>3. ASSUME ~blurred', NEW s \in States
        PROVE  LeadsOn(x, s)
    <2>1. CASE x.mine = <<>> /\ x.notices = <<>>
      BY <2>1, TellingNone, TellsInt DEF LeadsOn
    <2>2. CASE x.mine = atWork[r].mine /\ x.notices = atWork[r].notices
      <3>1. Leads(atWork[r])
        BY <1>3 DEF NoticesInv, Quiet
      <3> QED BY <2>2, <3>1 DEF Leads, LeadsOn, Quiet
    <2> QED BY <2>1, <2>2 DEF Quiet
  <1> QED BY <1>1, <1>2, <1>3, AskerChanges DEF Becomes

LEMMA TakeKeeps == ASSUME NoticesInv, NEW r \in Clerk, Take(r) PROVE NoticesInv'
  <1> DEFINE x == [Away EXCEPT !.step = "loaded", !.copy = watched]
  <1>1. x \in Asker /\ Written(x) /\ x.step = "loaded" /\ x.mine = <<>> /\ x.notices = <<>>
    BY AskerFacts, AwayIs DEF Asker, Written
  <1>2. /\ atWork' = [atWork EXCEPT ![r] = x] /\ UNCHANGED <<watched, told, blurred>>
        /\ atWork[r].step # "sending"
    BY DEF Take
  <1> HIDE DEF x
  <1> QED BY <1>1, <1>2, QuietAsker DEF Quiet

LEMMA BeginKeeps == ASSUME NoticesInv, NEW r \in Clerk, Begin(r) PROVE NoticesInv'
  <1> DEFINE x == [atWork[r] EXCEPT !.atomic = TRUE]
  <1>1. atWork[r] \in Asker /\ Written(atWork[r]) /\ atWork[r].step = "loaded"
    BY AskerFacts DEF Begin
  <1>2. /\ x \in Asker /\ x.step = "loaded" /\ x.atomic = TRUE
        /\ x.mine = atWork[r].mine /\ x.notices = atWork[r].notices
    BY <1>1 DEF Asker
  <1>3. Written(x)
    <2> HIDE DEF x
    <2> QED BY <1>1, <1>2 DEF Written
  <1>4. /\ atWork' = [atWork EXCEPT ![r] = x] /\ UNCHANGED <<watched, told, blurred>>
    BY DEF Begin
  <1> HIDE DEF x
  <1> QED BY <1>1, <1>2, <1>3, <1>4, QuietAsker DEF Quiet

LEMMA RefreshKeeps == ASSUME NoticesInv, NEW r \in Clerk, Refresh(r) PROVE NoticesInv'
  <1> DEFINE x == [atWork[r] EXCEPT !.copy = Current(r)]
  <1>1. /\ atWork[r] \in Asker /\ Written(atWork[r]) /\ atWork[r].step = "loaded"
        /\ Current(r) \in States
    BY AskerFacts DEF Refresh
  <1>2. /\ x \in Asker /\ x.step = "loaded" /\ x.atomic = atWork[r].atomic
        /\ x.mine = atWork[r].mine /\ x.notices = atWork[r].notices
    BY <1>1 DEF Asker
  <1>3. Written(x)
    <2> HIDE DEF x
    <2> QED BY <1>1, <1>2 DEF Written
  <1>4. /\ atWork' = [atWork EXCEPT ![r] = x] /\ UNCHANGED <<watched, told, blurred>>
    BY DEF Refresh
  <1> HIDE DEF x
  <1> QED BY <1>1, <1>2, <1>3, <1>4, QuietAsker DEF Quiet

LEMMA CaptureKeeps ==
    ASSUME NoticesInv, NEW r \in Clerk, NEW copy \in States, NEW saves \in SUBSET Field,
           Capture(r, copy, saves)
    PROVE  NoticesInv'
  <1> DEFINE x == [atWork[r] EXCEPT !.step = "captured", !.copy = copy, !.saves = saves,
                                    !.before = Current(r)]
  <1>1. /\ atWork[r] \in Asker /\ Written(atWork[r]) /\ atWork[r].step = "loaded"
        /\ Current(r) \in States
    BY AskerFacts DEF Capture
  <1>2. /\ x \in Asker /\ x.step = "captured" /\ x.atomic = atWork[r].atomic
        /\ x.mine = atWork[r].mine /\ x.notices = atWork[r].notices
    BY <1>1 DEF Asker
  <1>3. Written(x)
    <2> HIDE DEF x
    <2> QED BY <1>1, <1>2 DEF Written
  <1>4. /\ atWork' = [atWork EXCEPT ![r] = x] /\ UNCHANGED <<watched, told, blurred>>
    <2>1. atWork \in [Clerk -> Asker]
      BY DEF NoticesInv, NoticesFollow, NoticesTypeOK
    <2> QED BY <2>1 DEF Capture, Asker
  <1> HIDE DEF x
  <1> QED BY <1>1, <1>2, <1>3, <1>4, QuietAsker DEF Quiet

LEMMA UndoKeeps == ASSUME NoticesInv, NEW r \in Clerk, Undo(r) PROVE NoticesInv'
  <1>1. /\ atWork' = [atWork EXCEPT ![r] = Away] /\ UNCHANGED <<watched, told, blurred>>
        /\ atWork[r].step # "sending"
    BY DEF Undo
  <1> QED BY <1>1, AwayIs, QuietAsker DEF Quiet

LEMMA LeaveKeeps == ASSUME NoticesInv, NEW r \in Clerk, Leave(r) PROVE NoticesInv'
  <1>1. /\ atWork' = [atWork EXCEPT ![r] = Away] /\ UNCHANGED <<watched, told>>
        /\ blurred' = (blurred \/ (atWork[r].step = "sending" /\ atWork[r].notices # <<>>))
    BY DEF Leave
  <1>2. /\ Len(Away.mine) <= 1 /\ watched' \in States /\ told' \in [States -> Int]
        /\ blurred' \in BOOLEAN /\ (blurred => blurred') /\ Away.mine = <<>> /\ watched' = watched
    BY <1>1, AwayIs, AskerFacts
  <1>3. ASSUME NEW s \in States, ~blurred'
        PROVE  Balanced(r, Away, s)
    <2>1. told'[s] = told[s] /\ told[s] \in Int
      BY <1>1, AskerFacts
    <2>2. OwedBy(Away, s) = 0
      BY AwayIs DEF OwedBy
    <2>3. OwedBy(atWork[r], s) = 0
      BY <1>1, <1>3, TellingNone DEF OwedBy
    <2>4. Tells(<<watched, watched'>>, s) = 0
      BY <1>1, TellsInt
    <2> QED BY <2>1, <2>2, <2>3, <2>4 DEF Balanced
  <1>4. \A s \in States :
          LeadsOn(Away, s)
    BY AwayIs, TellingNone, TellsInt DEF LeadsOn
  <1> QED BY <1>1, <1>2, <1>3, <1>4, AwayIs, AskerChanges DEF Becomes

LEMMA SendNoticeKeeps == ASSUME NoticesInv, NEW r \in Clerk, SendNotice(r) PROVE NoticesInv'
  <1> DEFINE w == atWork[r]
  <1>1. /\ w \in Asker /\ Len(w.mine) <= 1 /\ Written(w) /\ w.step = "sending"
        /\ w.notices \in Seq(Notice) /\ w.mine = <<>> /\ w.atomic = FALSE
    <2>1. w \in Asker /\ Written(w) /\ w.step = "sending"
      BY AskerFacts DEF SendNotice
    <2> QED BY <2>1, AskerFacts DEF Asker, Notice, Written
  <1>2. UNCHANGED <<watched, blurred>> /\ watched' \in States /\ blurred' \in BOOLEAN
    BY AskerFacts DEF SendNotice
  <1>3. CASE w.notices = <<>>
    <2> DEFINE x == [w EXCEPT !.step = "loaded"]
    <2>1. /\ x \in Asker /\ Len(x.mine) <= 1 /\ Written(x) /\ x.step = "loaded"
          /\ x.mine = <<>> /\ x.notices = <<>>
      BY <1>1, <1>3 DEF Asker, Written
    <2>2. atWork' = [atWork EXCEPT ![r] = x] /\ told' = told
      BY <1>3 DEF SendNotice
    <2>3. ASSUME NEW s \in States
          PROVE  Balanced(r, x, s)
      <3>1. told'[s] = told[s] /\ told[s] \in Int
        BY <2>2, AskerFacts
      <3>2. OwedBy(x, s) = 0 /\ OwedBy(w, s) = 0
        BY <1>3, <2>1, TellingNone DEF OwedBy
      <3>3. Tells(<<watched, watched'>>, s) = 0
        BY <1>2, TellsInt
      <3> QED BY <3>1, <3>2, <3>3 DEF Balanced
    <2>4. \A s \in States :
            LeadsOn(x, s)
      BY <2>1, TellingNone, TellsInt DEF LeadsOn
    <2>5. told' \in [States -> Int] /\ ~(x.mine # <<>> \/ watched' # watched)
      BY <1>2, <2>1, <2>2, AskerFacts
    <2> HIDE DEF x
    <2> QED BY <1>2, <2>1, <2>2, <2>3, <2>4, <2>5, AskerChanges DEF Becomes
  <1>4. CASE w.notices # <<>>
    <2> DEFINE x == [w EXCEPT !.notices = Tail(w.notices)]
    <2>1. Tail(w.notices) \in Seq(Notice) /\ Head(w.notices) \in Notice
      BY <1>1, <1>4
    <2>2. /\ x \in Asker /\ Len(x.mine) <= 1 /\ Written(x) /\ x.step = "sending"
          /\ x.mine = <<>> /\ x.notices = Tail(w.notices)
      BY <1>1, <2>1 DEF Asker, Written, Notice
    <2>3. /\ atWork' = [atWork EXCEPT ![r] = x]
          /\ told' = [s \in States |-> told[s] + Tells(Head(w.notices), s)]
      BY <1>4 DEF SendNotice
    <2>4. ASSUME NEW s \in States
          PROVE  Balanced(r, x, s)
      <3> DEFINE a == told[s]  b == Tells(Head(w.notices), s)  c == Telling(Tail(w.notices), s)
      <3>1. told'[s] = a + b
        BY <2>3
      <3>2. OwedBy(x, s) = c
        BY <2>2 DEF OwedBy
      <3>3. OwedBy(w, s) = b + c
        BY <1>1, <1>4, TellingLess DEF OwedBy
      <3>4. Tells(<<watched, watched'>>, s) = 0
        BY <1>2, TellsInt
      <3>5. a \in Int /\ b \in Int /\ c \in Int
        BY <2>1, AskerFacts, TellsInt, TellingInt DEF Whole
      <3> HIDE DEF a, b, c
      <3>6. (a + b) + c = a + (b + c) + 0
        BY <3>5
      <3> QED BY <3>1, <3>2, <3>3, <3>4, <3>6 DEF a, Balanced
    <2>5. told' \in [States -> Int] /\ ~(x.mine # <<>> \/ watched' # watched)
      <3>1. \A s \in States : told[s] + Tells(Head(w.notices), s) \in Int
        BY AskerFacts, TellsInt DEF Whole
      <3> QED BY <1>2, <2>2, <2>3, <3>1
    <2> HIDE DEF x
    <2> QED BY <1>2, <2>2, <2>3, <2>4, <2>5, AskerChanges DEF Becomes
  <1> QED BY <1>3, <1>4

LEMMA CommitKeeps == ASSUME NoticesInv, NEW r \in Clerk, Commit(r) PROVE NoticesInv'
  <1> DEFINE w == atWork[r]
             x == [w EXCEPT !.step = "sending", !.atomic = FALSE, !.mine = <<>>]
  <1>1. /\ w \in Asker /\ Len(w.mine) <= 1 /\ Written(w) /\ w.step = "loaded"
        /\ w.notices \in Seq(Notice) /\ Current(r) \in States
        /\ w.mine # <<>> => \A c \in Clerk \ {r} : atWork[c].mine = <<>>
    <2>1. w \in Asker /\ Len(w.mine) <= 1 /\ Written(w) /\ w.step = "loaded" /\ Current(r) \in States
      BY AskerFacts DEF Commit
    <2> QED BY <2>1, AskerFacts DEF Asker, Notice
  <1>2. x \in Asker /\ x.step = "sending" /\ x.atomic = FALSE /\ x.mine = <<>> /\ x.notices = w.notices
    <2>1. <<>> \in Seq(States)
      OBVIOUS
    <2> QED BY <1>1, <2>1 DEF Asker
  <1>3. Written(x) /\ Len(x.mine) <= 1
    <2> HIDE DEF x
    <2> QED BY <1>2 DEF Written
  <1>4. atWork' = [atWork EXCEPT ![r] = x]
    <2>1. atWork \in [Clerk -> Asker]
      BY DEF NoticesInv, NoticesFollow, NoticesTypeOK
    <2> QED BY <2>1 DEF Commit, Asker
  <1>5. /\ watched' = Current(r) /\ UNCHANGED <<told, blurred>> /\ told' \in [States -> Int]
        /\ blurred' \in BOOLEAN /\ watched' \in States
    BY <1>1, AskerFacts DEF Commit
  <1>6. x.mine # <<>> \/ watched' # watched => \A c \in Clerk \ {r} : atWork[c].mine = <<>>
    BY <1>1, <1>2, <1>5 DEF Current
  <1>7. ASSUME NEW s \in States, ~blurred'
        PROVE  Balanced(r, x, s)
    <2>1. told'[s] = told[s] /\ told[s] \in Int
      BY <1>5, AskerFacts
    <2>2. OwedBy(x, s) = Telling(w.notices, s) /\ OwedBy(w, s) = 0
      BY <1>1, <1>2 DEF OwedBy
    <2>3. Telling(w.notices, s) = Tells(<<watched, watched'>>, s)
      <3>1. Leads(w)
        BY <1>1, <1>5, <1>7 DEF NoticesInv
      <3> QED BY <1>5, <3>1 DEF Leads, Current
    <2>4. Tells(<<watched, watched'>>, s) \in Int
      BY TellsInt DEF Whole
    <2> QED BY <2>1, <2>2, <2>3, <2>4 DEF Balanced
  <1> HIDE DEF x
  <1> QED BY <1>2, <1>3, <1>4, <1>5, <1>6, <1>7, AskerChanges DEF Becomes

\* A save without a transaction, in which its notice is to be sent at once, and one with.
LEMMA SaveRowKeeps == ASSUME NoticesInv, NEW r \in Clerk, SaveRow(r) PROVE NoticesInv'
  <1> DEFINE w == atWork[r]
             saved == [f \in Field |-> IF f \in w.saves THEN w.copy[f] ELSE Current(r)[f]]
             notes == IF w.copy = w.before THEN w.notices ELSE Append(w.notices, <<w.before, w.copy>>)
             mine == IF w.atomic THEN <<saved>> ELSE <<>>
             step == IF w.atomic THEN "loaded" ELSE "sending"
             x == [w EXCEPT !.mine = mine, !.step = step, !.notices = notes]
  <1>1. /\ w \in Asker /\ Written(w) /\ w.step = "captured" /\ Current(r) \in States
        /\ watched \in States /\ told \in [States -> Int] /\ blurred \in BOOLEAN
        /\ \A c \in Clerk \ {r} : atWork[c].mine = <<>>
    BY AskerFacts DEF SaveRow, Locked
  <1>2. /\ w.copy \in States /\ w.before \in States /\ w.notices \in Seq(Notice) /\ w.atomic \in BOOLEAN
    BY <1>1 DEF Asker, Notice
  <1>3. saved \in States
    BY <1>1, <1>2 DEF States
  <1>4. notes \in Seq(Notice)
    BY <1>2 DEF Notice
  <1>5. /\ watched' = (IF w.atomic THEN watched ELSE saved) /\ told' = told
        /\ blurred' = (blurred \/ w.before # Current(r) \/ saved # w.copy)
    BY DEF SaveRow
  <1>6. atWork' = [atWork EXCEPT ![r] = x]
    <2>1. atWork \in [Clerk -> Asker]
      BY DEF NoticesInv, NoticesFollow, NoticesTypeOK
    <2> QED BY <2>1 DEF SaveRow, HeldBack, Asker
  <1> HIDE DEF saved, notes
  <1>7. /\ x \in Asker /\ x.atomic = w.atomic /\ x.notices = notes
        /\ w.atomic => x.mine = <<saved>> /\ x.step = "loaded"
        /\ ~w.atomic => x.mine = <<>> /\ x.step = "sending"
    <2>1. mine \in Seq(States) /\ step \in {"away", "loaded", "captured", "sending"}
      <3>1. <<saved>> \in Seq(States) /\ <<>> \in Seq(States)
        BY <1>3
      <3> QED BY <3>1
    <2>2. /\ w.atomic => mine = <<saved>> /\ step = "loaded"
          /\ ~w.atomic => mine = <<>> /\ step = "sending"
      OBVIOUS
    <2> HIDE DEF mine, step
    <2>3. /\ x \in Asker /\ x.atomic = w.atomic /\ x.notices = notes
          /\ x.mine = mine /\ x.step = step
      BY <1>1, <1>4, <2>1 DEF Asker, Notice
    <2> QED BY <2>2, <2>3
  <1> HIDE DEF mine, step, x
  <1>8. Len(x.mine) <= 1 /\ Written(x)
    <2>1. CASE w.atomic
      <3>1. x.mine = <<saved>> /\ x.step = "loaded" /\ x.atomic
        BY <1>2, <1>7, <2>1
      <3>2. Len(x.mine) = 1 /\ x.mine # <<>>
        BY <3>1
      <3> QED BY <3>1, <3>2 DEF Written
    <2>2. CASE ~w.atomic
      <3>1. x.mine = <<>> /\ x.step = "sending" /\ ~x.atomic
        BY <1>7, <2>2
      <3> QED BY <3>1 DEF Written
    <2> QED BY <2>1, <2>2
  <1>9. watched' \in States /\ told' \in [States -> Int] /\ blurred' \in BOOLEAN /\ (blurred => blurred')
    BY <1>1, <1>2, <1>3, <1>5
  <1>10. ASSUME ~blurred', NEW s \in States
         PROVE  /\ w.copy = saved /\ w.before = Current(r)
                /\ Telling(notes, s) = Tells(<<watched, saved>>, s)
    <2>1. ~blurred /\ w.copy = saved /\ w.before = Current(r)
      BY <1>5, <1>10
    <2>2. Telling(w.notices, s) = Tells(<<watched, Current(r)>>, s)
      <3>1. Leads(w)
        BY <1>1, <2>1 DEF NoticesInv
      <3> QED BY <3>1 DEF Leads, Current
    <2>3. CASE w.copy = w.before
      BY <2>1, <2>2, <2>3 DEF notes
    <2>4. CASE w.copy # w.before
      <3>1. Telling(notes, s) = Telling(w.notices, s) + Tells(<<w.before, w.copy>>, s)
        <4>1. <<w.before, w.copy>> \in Notice
          BY <1>2 DEF Notice
        <4> QED BY <1>2, <2>4, <4>1, TellingMore DEF notes
      <3>2. Tells(<<watched, Current(r)>>, s) + Tells(<<Current(r), saved>>, s) = Tells(<<watched, saved>>, s)
        BY TellsInt
      <3> QED BY <2>1, <2>2, <3>1, <3>2
    <2> QED BY <2>1, <2>3, <2>4
  <1>11. ASSUME ~blurred', NEW s \in States
         PROVE  Balanced(r, x, s)
    <2>1. told'[s] = told[s] /\ told[s] \in Int /\ OwedBy(w, s) = 0
      BY <1>1, <1>5 DEF OwedBy
    <2>2. CASE w.atomic
      <3>1. OwedBy(x, s) = 0 /\ Tells(<<watched, watched'>>, s) = 0
        BY <1>5, <1>7, <2>2, TellsInt DEF OwedBy
      <3> QED BY <2>1, <3>1 DEF Balanced
    <2>3. CASE ~w.atomic
      <3>1. OwedBy(x, s) = Tells(<<watched, saved>>, s) /\ watched' = saved
        BY <1>5, <1>7, <1>10, <1>11, <2>3 DEF OwedBy
      <3>2. Tells(<<watched, saved>>, s) \in Int
        BY TellsInt DEF Whole
      <3> QED BY <2>1, <3>1, <3>2 DEF Balanced
    <2> QED BY <2>2, <2>3
  <1>12. ASSUME ~blurred', NEW s \in States
         PROVE  x.step = "sending" \/ LeadsOn(x, s)
    <2>1. CASE w.atomic
      <3>1. x.mine = <<saved>> /\ watched' = watched /\ Telling(x.notices, s) = Tells(<<watched, saved>>, s)
        BY <1>5, <1>7, <1>10, <1>12, <2>1
      <3>2. x.mine # <<>> /\ Head(x.mine) = saved
        BY <3>1
      <3> QED BY <3>1, <3>2 DEF LeadsOn
    <2>2. CASE ~w.atomic
      BY <1>7, <2>2
    <2> QED BY <2>1, <2>2
  <1>13. Becomes(r, x)
    BY <1>1, <1>6, <1>7, <1>8, <1>9, <1>11, <1>12 DEF Becomes
  <1> QED BY <1>13, AskerChanges

-----------------------------------------------------------------------------
LEMMA NoticesStart == NoticesInit => NoticesInv
  <1> SUFFICES ASSUME NoticesInit PROVE NoticesInv
    OBVIOUS
  <1>1. /\ watched = Original /\ watched \in States /\ told = [s \in States |-> 0] /\ blurred = FALSE
        /\ atWork \in [Clerk -> Asker] /\ \A r \in Clerk : atWork[r] = Away
    BY AwayIs DEF NoticesInit
  <1>2. NoticesTypeOK
    <2>1. \A r \in Clerk : Len(atWork[r].mine) <= 1
      BY <1>1, AwayIs
    <2>2. told \in [States -> Int]
      BY <1>1
    <2> QED BY <1>1, <2>1, <2>2 DEF NoticesTypeOK
  <1>3. ASSUME NEW s \in States
        PROVE  told[s] + SumFunction([r \in Clerk |-> Owed(r, s)]) = Tells(<<Original, watched>>, s)
    <2> DEFINE owed == [r \in Clerk |-> Owed(r, s)]
    <2>1. \A r \in Clerk : Owed(r, s) = 0
      BY <1>1, AwayIs DEF Owed
    <2>2. owed \in [Clerk -> Nat] /\ IsFiniteSet(Clerk) /\ \A r \in Clerk : owed[r] = 0
      BY <2>1, SomethingWatched DEF SomethingWatched
    <2> HIDE DEF owed
    <2>3. SumFunction(owed) = Cardinality(Heap(owed, Clerk))
      BY <2>2, SumIsHeap
    <2>4. Heap(owed, Clerk) = {}
      BY <2>2 DEF Heap
    <2>5. SumFunction(owed) = 0
      BY <2>3, <2>4, FS_EmptySet
    <2>6. told[s] = 0 /\ Tells(<<Original, watched>>, s) = 0
      BY <1>1, TellsInt
    <2>7. told[s] + SumFunction(owed) = Tells(<<Original, watched>>, s)
      BY <2>5, <2>6
    <2> QED BY <2>7 DEF owed
  <1>4. ASSUME NEW r \in Clerk PROVE Leads(atWork[r])
    BY <1>1, AwayIs, TellingNone, TellsInt DEF Leads
  <1>5. NoticesFollow
    BY <1>2, <1>3 DEF NoticesFollow
  <1> QED BY <1>1, <1>4, <1>5, AwayIs DEF NoticesInv

LEMMA NoticesStep == NoticesInv /\ [NoticesNext]_noticeVars => NoticesInv'
  <1> SUFFICES ASSUME NoticesInv, [NoticesNext]_noticeVars PROVE NoticesInv'
    OBVIOUS
  <1>1. CASE UNCHANGED noticeVars
    BY <1>1 DEF noticeVars, NoticesInv, NoticesFollow, NoticesTypeOK, Owed, Written, Leads
  <1>2. CASE NoticesNext
    <2>1. PICK r \in Clerk :
            \/ \E saves \in SUBSET Field : \E copy \in States : Capture(r, copy, saves)
            \/ Take(r) \/ Begin(r) \/ Refresh(r) \/ SaveRow(r) \/ Commit(r) \/ Undo(r)
            \/ SendNotice(r) \/ Leave(r)
      BY <1>2 DEF NoticesNext
    <2>2. CASE \E saves \in SUBSET Field : \E copy \in States : Capture(r, copy, saves)
      BY <2>2, CaptureKeeps
    <2>3. CASE Take(r) \/ Begin(r) \/ Refresh(r)
      BY <2>3, TakeKeeps, BeginKeeps, RefreshKeeps
    <2>4. CASE SaveRow(r) \/ Commit(r) \/ Undo(r)
      BY <2>4, SaveRowKeeps, CommitKeeps, UndoKeeps
    <2>5. CASE SendNotice(r) \/ Leave(r)
      BY <2>5, SendNoticeKeeps, LeaveKeeps
    <2> QED BY <2>1, <2>2, <2>3, <2>4, <2>5
  <1> QED BY <1>1, <1>2

\* Whatever requests save copies that are behind, in transactions that last or are undone,
\* notices tell of every committed change once, and of nothing else, unless an overlap or
\* a death that signals.py does not see came between (signals.py:463).
THEOREM NoticesStayTrue == NoticesSpec => []NoticesFollow
  <1>1. NoticesInv => NoticesFollow
    BY DEF NoticesInv
  <1> QED BY <1>1, NoticesStart, NoticesStep, PTL DEF NoticesSpec
=============================================================================
