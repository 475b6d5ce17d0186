--------------------------- MODULE PlanningProofs ---------------------------
(***************************************************************************)
(* Planning. What the requests on a run keep true, for any number of       *)
(* versions and of requests that overlap and die: two versions are         *)
(* published together only when their publications overlapped, nobody gets *)
(* the messages of a version twice unless two operators generated them at  *)
(* once, a published plan changes in two ways only, and a plan that was    *)
(* edited with checks alone keeps its flights' capacities and its          *)
(* volunteers in one place at a time. And what the solver's passes keep,   *)
(* for any week and any plan of it that the solver returns.                *)
(***************************************************************************)
EXTENDS PlanningSolver, PlanningVersions, FoldFacts, FiniteSetTheorems, TLAPS

EditKind == {"delete", "update", "assign", "form"}
Status == {"absent", "draft", "published", "superseded"}

\* What a request may hold.
ReqShape(x) ==
    \/ x.kind \in {"idle", "solve"}
    \/ x \in PublishReq /\ x.at # 0
    \/ x \in GenerateReq
    \/ /\ x.kind \in EditKind /\ x.v \in Version /\ x.overtaken \in BOOLEAN
       /\ x = [kind |-> x.kind, v |-> x.v, id |-> x.id, ref |-> x.ref,
               checked |-> x.checked, overtaken |-> x.overtaken]

VersionShape(x) ==
    x.status \in Status /\ x = [status |-> x.status, rows |-> x.rows, last |-> x.last]

LiveOnes == {v \in Version : Live(v)}

\* Versions are numbered from 1, in the order in which they are made.
Shapes ==
    /\ version = [v \in Version |-> version[v]] /\ \A v \in Version : VersionShape(version[v])
    /\ drafts \in [Version -> Nat]
    /\ req = [r \in Request |-> req[r]] /\ \A r \in Request : ReqShape(req[r])
    /\ LiveOnes = 1..Cardinality(LiveOnes)

\* A publication holds its draft and the published versions it will supersede; of
\* those behind it, it missed none that it did not overlap.
Publications ==
    /\ \A s \in Request : Publishing(s) =>
          /\ version[req[s].v].status = "draft"
          /\ \A n \in req[s].supersedes : version[n].status = "published"
          /\ \A n \in Version : n < req[s].at /\ version[n].status = "published" =>
                n \in req[s].supersedes \/ {n, req[s].v} \in overlapped
    /\ \A s, t \in Request : s # t /\ Publishing(s) /\ Publishing(t) =>
          LockedBy(s) \cap LockedBy(t) = {} /\ {req[s].v, req[t].v} \in overlapped
    /\ CoPublishedOverlapped

\* The drafts of a version are gone while the one who makes new ones works.
Generations ==
    \A v \in Version \ crossed :
        /\ drafts[v] <= 1
        /\ \A r \in Generating(v) : drafts[v] = 0
        /\ \A r, s \in Generating(v) : r = s

\* An edit of a version that is no draft any more was overtaken by its publication.
EditsOvertaken ==
    \A r \in Request : Editing(r) /\ version[req[r].v].status # "draft" => req[r].overtaken

VersionsInv == Shapes /\ Publications /\ Generations /\ EditsOvertaken

(***************************************************************************)
(* What a step leaves alone.                                               *)
(***************************************************************************)
\* No version is published or superseded; one may be made.
StatusesKept ==
    \A v \in Version : \/ version'[v].status = version[v].status
                       \/ version[v].status = "absent" /\ version'[v].status = "draft"

\* The kinds of requests exclude each other.
LEMMA Kinds ==
    ASSUME NEW r \in Request, ReqShape(req[r])
    PROVE  /\ Publishing(r) => req[r] \in PublishReq /\ req[r].at # 0 /\ req[r].v \in Version
           /\ req[r].kind = "generate" => req[r] \in GenerateReq /\ req[r].v \in Version
           /\ Editing(r) =>
                 /\ req[r].v \in Version /\ req[r].overtaken \in BOOLEAN
                 /\ req[r] = [kind |-> req[r].kind, v |-> req[r].v, id |-> req[r].id,
                              ref |-> req[r].ref, checked |-> req[r].checked,
                              overtaken |-> req[r].overtaken]
  <1>1. /\ \A x \in PublishReq : x.kind = "publish" /\ x.v \in Version
        /\ \A x \in GenerateReq : x.kind = "generate" /\ x.v \in Version
    BY DEF PublishReq, GenerateReq
  <1> QED
    BY <1>1 DEF ReqShape, EditKind, Publishing, Editing

LEMMA PublicationsKept ==
    ASSUME VersionsInv, StatusesKept, UNCHANGED overlapped,
           \A s \in Request : Publishing(s)' => req'[s] = req[s]
    PROVE  Publications'
  <1>1. \A s \in Request : Publishing(s)' =>
           /\ Publishing(s) /\ req'[s] = req[s]
           /\ req[s].v \in Version /\ req[s].supersedes \subseteq Version
           /\ LockedBy(s)' = LockedBy(s)
    <2> SUFFICES ASSUME NEW s \in Request, Publishing(s)'
                 PROVE  /\ Publishing(s) /\ req'[s] = req[s]
                        /\ req[s].v \in Version /\ req[s].supersedes \subseteq Version
                        /\ LockedBy(s)' = LockedBy(s)
      OBVIOUS
    <2>1. Publishing(s) /\ req'[s] = req[s]
      BY DEF Publishing
    <2>2. req[s] \in PublishReq
      BY <2>1, Kinds DEF VersionsInv, Shapes
    <2> QED
      BY <2>1, <2>2 DEF PublishReq, LockedBy
  <1>2. /\ \A v \in Version : version'[v].status = "published" <=> version[v].status = "published"
        /\ \A v \in Version : version[v].status = "draft" => version'[v].status = "draft"
    BY DEF StatusesKept
  <1>3. \A s \in Request : Publishing(s)' =>
           /\ version'[req'[s].v].status = "draft"
           /\ \A n \in req'[s].supersedes : version'[n].status = "published"
           /\ \A n \in Version : n < req'[s].at /\ version'[n].status = "published" =>
                 n \in req'[s].supersedes \/ {n, req'[s].v} \in overlapped'
    BY <1>1, <1>2 DEF VersionsInv, Publications
  <1>4. \A s, t \in Request : s # t /\ Publishing(s)' /\ Publishing(t)' =>
           LockedBy(s)' \cap LockedBy(t)' = {} /\ {req'[s].v, req'[t].v} \in overlapped'
    BY <1>1 DEF VersionsInv, Publications
  <1>5. CoPublishedOverlapped'
    BY <1>2 DEF VersionsInv, Publications, CoPublishedOverlapped
  <1> QED
    BY <1>3, <1>4, <1>5 DEF Publications

LEMMA GenerationsKept ==
    ASSUME VersionsInv, UNCHANGED <<drafts, crossed>>,
           \A s \in Request : req'[s].kind = "generate" /\ req'[s].cleared => req'[s] = req[s]
    PROVE  Generations'
  <1>1. \A v \in Version : Generating(v)' \subseteq Generating(v)
    BY DEF Generating
  <1> QED
    BY <1>1 DEF VersionsInv, Generations

LEMMA EditsKept ==
    ASSUME VersionsInv, StatusesKept,
           \A s \in Request : Editing(s)' =>
              Editing(s) /\ req'[s].v = req[s].v /\ (req[s].overtaken => req'[s].overtaken)
    PROVE  EditsOvertaken'
  <1>1. \A s \in Request : Editing(s) => req[s].v \in Version
    BY Kinds DEF VersionsInv, Shapes
  <1> QED
    BY <1>1 DEF VersionsInv, EditsOvertaken, StatusesKept

\* A step in which requests only end, become solves, or stay what they are.
Quiet(s) ==
    \/ req'[s] = req[s]
    \/ req'[s].kind \in {"idle", "solve"}
    \/ Editing(s) /\ Editing(s)' /\ req'[s].v = req[s].v /\ (req[s].overtaken => req'[s].overtaken)

LEMMA QuietKeeps ==
    ASSUME VersionsInv, Shapes', StatusesKept, \A s \in Request : Quiet(s),
           UNCHANGED <<drafts, overlapped, crossed>>
    PROVE  VersionsInv'
  <1>1. \A s \in Request : Publishing(s)' => req'[s] = req[s]
    BY DEF Quiet, Publishing, Editing
  <1>2. \A s \in Request : req'[s].kind = "generate" /\ req'[s].cleared => req'[s] = req[s]
    BY DEF Quiet, Editing
  <1>3. \A s \in Request : Editing(s)' =>
           Editing(s) /\ req'[s].v = req[s].v /\ (req[s].overtaken => req'[s].overtaken)
    BY DEF Quiet, Editing
  <1> QED
    BY <1>1, <1>2, <1>3, PublicationsKept, GenerationsKept, EditsKept DEF VersionsInv

\* A request becomes x.
LEMMA RequestBecomes ==
    ASSUME Shapes, NEW r \in Request, NEW x, ReqShape(x), req' = [req EXCEPT ![r] = x],
           UNCHANGED version, drafts' \in [Version -> Nat]
    PROVE  /\ Shapes' /\ StatusesKept
           /\ req'[r] = x /\ \A s \in Request : s # r => req'[s] = req[s]
  <1>1. /\ req'[r] = x /\ \A s \in Request : s # r => req'[s] = req[s]
        /\ req' = [s \in Request |-> req'[s]]
    BY DEF Shapes
  <1>2. LiveOnes' = LiveOnes
    BY DEF LiveOnes, Live
  <1> QED
    BY <1>1, <1>2 DEF Shapes, StatusesKept

LEMMA IdleShape == ReqShape(Idle) /\ Idle.kind = "idle"
  BY DEF ReqShape, Idle

\* Only the rows, the last ids or the checks of versions change.
LEMMA RowsChange ==
    ASSUME Shapes, version' = [v \in Version |-> version'[v]],
           \A v \in Version : VersionShape(version'[v]) /\ version'[v].status = version[v].status,
           req' = [s \in Request |-> req'[s]], \A s \in Request : ReqShape(req'[s]),
           UNCHANGED drafts
    PROVE  Shapes' /\ StatusesKept
  <1>1. LiveOnes' = LiveOnes
    BY DEF LiveOnes, Live
  <1> QED
    BY <1>1 DEF Shapes, StatusesKept

\* A new version takes the next number.
LEMMA VersionMade ==
    ASSUME Shapes, NEW x, VersionShape(x), x.status = "draft",
           NextNumber \in Version, version' = [version EXCEPT ![NextNumber] = x],
           req' = [s \in Request |-> req'[s]], \A s \in Request : ReqShape(req'[s]),
           UNCHANGED drafts
    PROVE  /\ Shapes' /\ StatusesKept
           /\ version[NextNumber].status = "absent"
           /\ \A v \in Version : v # NextNumber => version'[v] = version[v]
  <1>1. PICK k : k = Cardinality(LiveOnes)
    OBVIOUS
  <1>2. /\ IsFiniteSet(LiveOnes) /\ k \in Nat /\ LiveOnes = 1..k
        /\ NextNumber = k + 1
    <2>1. LiveOnes \subseteq Version /\ IsFiniteSet(Version)
      BY VersionsAssumption DEF LiveOnes
    <2>2. IsFiniteSet(LiveOnes)
      BY <2>1, FS_Subset
    <2> QED
      BY <1>1, <2>2, FS_CardinalityType DEF Shapes, NextNumber, LiveOnes
  <1>3. NextNumber \notin LiveOnes
    BY <1>2
  <1>4. version[NextNumber].status = "absent"
    BY <1>3 DEF LiveOnes, Live
  <1>5. /\ version'[NextNumber] = x /\ \A v \in Version : v # NextNumber => version'[v] = version[v]
        /\ version' = [v \in Version |-> version'[v]]
    BY DEF Shapes
  <1>6. LiveOnes' = LiveOnes \cup {NextNumber}
    BY <1>5 DEF LiveOnes, Live
  <1>7. LiveOnes' = 1..(k + 1)
    BY <1>2, <1>6
  <1>8. Cardinality(LiveOnes') = k + 1
    <2>1. \A b \in Nat : Cardinality(1..(b + 1)) = b + 1
      <3> SUFFICES ASSUME NEW b \in Nat PROVE Cardinality(1..(b + 1)) = b + 1
        OBVIOUS
      <3>1. 1 \in Int /\ b + 1 \in Int
        OBVIOUS
      <3>2. Cardinality(1..(b + 1)) = IF 1 > b + 1 THEN 0 ELSE (b + 1) - 1 + 1
        BY <3>1, FS_Interval, Zenon
      <3> QED
        BY <3>2
    <2>2. Cardinality(1..(k + 1)) = k + 1
      BY <1>2, <2>1
    <2> QED
      BY <1>7, <2>2
  <1>9. \A v \in Version : VersionShape(version'[v])
    BY <1>5 DEF Shapes
  <1>10. Shapes'
    <2>1. (Cardinality(LiveOnes))' = k + 1
      BY <1>8
    <2> QED
      BY <1>5, <1>7, <1>9, <2>1 DEF Shapes
  <1>11. StatusesKept
    BY <1>4, <1>5 DEF StatusesKept
  <1> QED
    BY <1>4, <1>5, <1>10, <1>11

(***************************************************************************)
(* One lemma per action, with what PublishedRowsFrozen says of its step.   *)
(***************************************************************************)
FrozenStep ==
    \A v \in Version :
        version[v].status \in {"published", "superseded"} /\ version'[v].rows # version[v].rows =>
            \/ version'[v].rows = [id \in DOMAIN version[v].rows |-> NullRef]
            \/ \E r \in Request :
                  Editing(r) /\ req[r].v = v /\ req[r].overtaken /\ req'[r] = Idle

LEMMA AbandonKeeps ==
    ASSUME VersionsInv, NEW r \in Request, Abandon(r)
    PROVE  VersionsInv' /\ FrozenStep
  <1>1. /\ req' = [req EXCEPT ![r] = Idle]
        /\ UNCHANGED <<version, drafts, overlapped, crossed>>
    BY DEF Abandon, Finish
  <1>2. Shapes' /\ StatusesKept /\ req'[r] = Idle /\ \A s \in Request : s # r => req'[s] = req[s]
    BY <1>1, IdleShape, RequestBecomes DEF VersionsInv, Shapes
  <1>3. \A s \in Request : Quiet(s)
    BY <1>2, IdleShape DEF Quiet
  <1> QED
    BY <1>1, <1>2, <1>3, QuietKeeps DEF FrozenStep

LEMMA LoadSolveKeeps ==
    ASSUME VersionsInv, NEW r \in Request, LoadSolve(r)
    PROVE  VersionsInv' /\ FrozenStep
  <1>1. PICK x : x = [kind |-> "solve", seen |-> run]
    OBVIOUS
  <1>2. ReqShape(x) /\ x.kind = "solve"
    BY <1>1 DEF ReqShape
  <1>3. /\ req' = [req EXCEPT ![r] = x]
        /\ UNCHANGED <<version, drafts, overlapped, crossed>>
    BY <1>1 DEF LoadSolve
  <1>4. Shapes' /\ StatusesKept /\ req'[r] = x /\ \A s \in Request : s # r => req'[s] = req[s]
    BY <1>2, <1>3, RequestBecomes DEF VersionsInv, Shapes
  <1>5. \A s \in Request : Quiet(s)
    BY <1>2, <1>4 DEF Quiet
  <1> QED
    BY <1>3, <1>4, <1>5, QuietKeeps DEF FrozenStep

LEMMA PrepareKeeps ==
    ASSUME VersionsInv, NEW r \in Request, NEW valid \in BOOLEAN, Prepare(r, valid)
    PROVE  VersionsInv' /\ FrozenStep
  <1>1. PICK ready : ready = [kind |-> "solve", seen |-> "ready"]
    OBVIOUS
  <1>2. ReqShape(ready) /\ ready.kind = "solve"
    BY <1>1 DEF ReqShape
  <1>3. /\ version' = [v \in Version |->
                         [version[v] EXCEPT !.rows = [id \in DOMAIN version[v].rows |-> NullRef]]]
        /\ req' = [s \in Request |->
                     IF s = r THEN (IF valid THEN ready ELSE Idle)
                     ELSE IF Editing(s) /\ req[s].kind # "delete" THEN Idle
                     ELSE req[s]]
        /\ UNCHANGED <<drafts, overlapped, crossed>>
    BY <1>1 DEF Prepare
  <1>4. /\ req' = [s \in Request |-> req'[s]]
        /\ \A s \in Request : req'[s] \in {ready, Idle, req[s]}
    BY <1>3
  <1>5. \A s \in Request : ReqShape(req'[s]) /\ Quiet(s)
    BY <1>2, <1>4, IdleShape DEF VersionsInv, Shapes, Quiet
  <1>6. /\ version' = [v \in Version |-> version'[v]]
        /\ \A v \in Version : version'[v] =
              [version[v] EXCEPT !.rows = [id \in DOMAIN version[v].rows |-> NullRef]]
    BY <1>3
  <1>7. \A v \in Version :
           /\ VersionShape(version'[v]) /\ version'[v].status = version[v].status
           /\ version'[v].rows = [id \in DOMAIN version[v].rows |-> NullRef]
    <2> SUFFICES ASSUME NEW v \in Version
                 PROVE  /\ VersionShape(version'[v]) /\ version'[v].status = version[v].status
                        /\ version'[v].rows = [id \in DOMAIN version[v].rows |-> NullRef]
      OBVIOUS
    <2>1. PICK rows : rows = [id \in DOMAIN version[v].rows |-> NullRef]
      OBVIOUS
    <2>2. VersionShape(version[v])
      BY DEF VersionsInv, Shapes
    <2>3. version'[v] = [status |-> version[v].status, rows |-> rows, last |-> version[v].last]
      BY <1>6, <2>1, <2>2 DEF VersionShape
    <2> QED
      BY <2>1, <2>2, <2>3 DEF VersionShape
  <1>8. Shapes' /\ StatusesKept
    BY <1>3, <1>4, <1>5, <1>6, <1>7, RowsChange DEF VersionsInv
  <1>9. FrozenStep
    BY <1>7 DEF FrozenStep
  <1> QED
    BY <1>3, <1>5, <1>8, <1>9, QuietKeeps

\* A version is made and a request may end.
LEMMA MadeKeeps ==
    ASSUME VersionsInv, NEW x, VersionShape(x), x.status = "draft",
           NextNumber \in Version, version' = [version EXCEPT ![NextNumber] = x],
           \/ UNCHANGED req
           \/ \E r \in Request : Finish(r),
           UNCHANGED <<drafts, overlapped, crossed>>
    PROVE  VersionsInv' /\ FrozenStep
  <1>1. /\ req' = [s \in Request |-> req'[s]]
        /\ \A s \in Request : req'[s] = Idle \/ req'[s] = req[s]
    BY DEF VersionsInv, Shapes, Finish
  <1>2. \A s \in Request : ReqShape(req'[s]) /\ Quiet(s)
    BY <1>1, IdleShape DEF VersionsInv, Shapes, Quiet
  <1>3. /\ Shapes' /\ StatusesKept
        /\ version[NextNumber].status = "absent"
        /\ \A v \in Version : v # NextNumber => version'[v] = version[v]
    BY <1>1, <1>2, VersionMade DEF VersionsInv
  <1>4. FrozenStep
    BY <1>3 DEF FrozenStep
  <1> QED
    BY <1>2, <1>3, <1>4, QuietKeeps

LEMMA SolveRunKeeps ==
    ASSUME VersionsInv, NEW r \in Request, SolveRun(r)
    PROVE  VersionsInv' /\ FrozenStep
  <1>1. PICK chosen \in FeasiblePlans(RunWeek) :
           version' = [version EXCEPT ![NextNumber] =
                         [status |-> "draft", rows |-> RowsOf(chosen),
                          last |-> Cardinality(DOMAIN chosen)]]
    BY DEF SolveRun
  <1>2. PICK x : x = [status |-> "draft", rows |-> RowsOf(chosen), last |-> Cardinality(DOMAIN chosen)]
    OBVIOUS
  <1>3. VersionShape(x) /\ x.status = "draft"
    BY <1>2 DEF VersionShape, Status
  <1>4. /\ NextNumber \in Version /\ version' = [version EXCEPT ![NextNumber] = x]
        /\ Finish(r) /\ UNCHANGED <<drafts, overlapped, crossed>>
    BY <1>1, <1>2 DEF SolveRun
  <1> QED
    BY <1>3, <1>4, MadeKeeps

LEMMA CloneVersionKeeps ==
    ASSUME VersionsInv, NEW v \in Version, CloneVersion(v)
    PROVE  VersionsInv' /\ FrozenStep
  <1>1. PICK rows, last :
           version' = [version EXCEPT ![NextNumber] =
                         [status |-> "draft", rows |-> rows, last |-> last]]
    BY DEF CloneVersion
  <1>2. PICK x : x = [status |-> "draft", rows |-> rows, last |-> last]
    OBVIOUS
  <1>3. VersionShape(x) /\ x.status = "draft"
    BY <1>2 DEF VersionShape, Status
  <1>4. /\ NextNumber \in Version /\ version' = [version EXCEPT ![NextNumber] = x]
        /\ UNCHANGED <<req, drafts, overlapped, crossed>>
    BY <1>1, <1>2 DEF CloneVersion
  <1> QED
    BY <1>3, <1>4, MadeKeeps

(***************************************************************************)
(* Publication.                                                            *)
(***************************************************************************)
LEMMA StartPublishKeeps ==
    ASSUME VersionsInv, NEW r \in Request, NEW v \in Version, StartPublish(r, v)
    PROVE  VersionsInv' /\ FrozenStep
  <1>1. PICK x : x = [kind |-> "publish", v |-> v, at |-> 1, supersedes |-> {}]
    OBVIOUS
  <1>2. /\ x \in PublishReq /\ x.kind = "publish" /\ x.v = v /\ x.at = 1 /\ x.supersedes = {}
        /\ ReqShape(x)
    BY <1>1 DEF ReqShape, PublishReq
  <1>3. /\ req[r] = Idle /\ req' = [req EXCEPT ![r] = x]
        /\ version[v].status = "draft" /\ \A s \in Request \ {r} : v \notin LockedBy(s)
        /\ overlapped' = overlapped \cup {{v, req[s].v} : s \in {t \in Request : Publishing(t)}}
        /\ UNCHANGED <<version, drafts, crossed>>
    BY <1>1 DEF StartPublish, Free
  <1>4. Shapes' /\ StatusesKept /\ req'[r] = x /\ \A s \in Request : s # r => req'[s] = req[s]
    BY <1>2, <1>3, RequestBecomes DEF VersionsInv, Shapes
  <1>5. Generations'
    <2>1. \A s \in Request : req'[s].kind = "generate" => req'[s] = req[s]
      BY <1>2, <1>4
    <2> QED
      BY <1>3, <2>1, GenerationsKept
  <1>6. EditsOvertaken'
    <2>1. \A s \in Request : Editing(s)' => s # r /\ req'[s] = req[s]
      BY <1>2, <1>4 DEF Editing
    <2>2. \A s \in Request : Editing(s)' =>
             Editing(s) /\ req'[s].v = req[s].v /\ (req[s].overtaken => req'[s].overtaken)
      BY <2>1 DEF Editing
    <2> QED
      BY <1>4, <2>2, EditsKept
  <1>7. Publications'
    <2>1. \A s \in Request : s # r =>
             /\ Publishing(s)' <=> Publishing(s)
             /\ LockedBy(s)' = LockedBy(s)
      BY <1>4 DEF Publishing, LockedBy
    <2>2. Publishing(r)' /\ LockedBy(r)' = {v}
      BY <1>2, <1>4 DEF Publishing, LockedBy
    <2>3. overlapped \subseteq overlapped'
      BY <1>3
    <2>4. \A s \in Request : s # r /\ Publishing(s) => {v, req[s].v} \in overlapped'
      BY <1>3
    <2>5. \A s \in Request : Publishing(s)' =>
             /\ version'[req'[s].v].status = "draft"
             /\ \A n \in req'[s].supersedes : version'[n].status = "published"
             /\ \A n \in Version : n < req'[s].at /\ version'[n].status = "published" =>
                   n \in req'[s].supersedes \/ {n, req'[s].v} \in overlapped'
      <3> SUFFICES ASSUME NEW s \in Request, Publishing(s)'
                   PROVE  /\ version'[req'[s].v].status = "draft"
                          /\ \A n \in req'[s].supersedes : version'[n].status = "published"
                          /\ \A n \in Version : n < req'[s].at /\ version'[n].status = "published" =>
                                n \in req'[s].supersedes \/ {n, req'[s].v} \in overlapped'
        OBVIOUS
      <3>1. CASE s = r
        <4>1. \A n \in Version : ~ (n < 1)
          <5>1. PICK last : last = Cardinality(Version)
            OBVIOUS
          <5>2. last \in Nat /\ Version = 1..last
            BY <5>1, VersionsAssumption, FS_CardinalityType
          <5> QED
            BY <5>2
        <4> QED
          BY <1>2, <1>3, <1>4, <3>1, <4>1
      <3>2. CASE s # r
        BY <1>3, <1>4, <2>1, <2>3, <3>2 DEF VersionsInv, Publications
      <3> QED
        BY <3>1, <3>2
    <2>6. \A s, t \in Request : s # t /\ Publishing(s)' /\ Publishing(t)' =>
             LockedBy(s)' \cap LockedBy(t)' = {} /\ {req'[s].v, req'[t].v} \in overlapped'
      <3> SUFFICES ASSUME NEW s \in Request, NEW t \in Request, s # t,
                          Publishing(s)', Publishing(t)'
                   PROVE  /\ LockedBy(s)' \cap LockedBy(t)' = {}
                          /\ {req'[s].v, req'[t].v} \in overlapped'
        OBVIOUS
      <3>1. CASE s = r
        BY <1>2, <1>3, <1>4, <2>1, <2>2, <2>4, <3>1
      <3>2. CASE t = r
        <4>1. {req'[t].v, req'[s].v} \in overlapped'
          BY <1>2, <1>4, <2>1, <2>4, <3>2
        <4>2. {req'[t].v, req'[s].v} = {req'[s].v, req'[t].v}
          OBVIOUS
        <4>3. v \notin LockedBy(s) /\ LockedBy(s)' = LockedBy(s) /\ LockedBy(t)' = {v}
          BY <1>3, <2>1, <2>2, <3>2
        <4> QED
          BY <4>1, <4>2, <4>3
      <3>3. CASE s # r /\ t # r
        BY <1>4, <2>1, <2>3, <3>3 DEF VersionsInv, Publications
      <3> QED
        BY <3>1, <3>2, <3>3
    <2>7. CoPublishedOverlapped'
      BY <1>3, <2>3 DEF VersionsInv, Publications, CoPublishedOverlapped
    <2> QED
      BY <2>5, <2>6, <2>7 DEF Publications
  <1> QED
    BY <1>3, <1>4, <1>5, <1>6, <1>7 DEF VersionsInv, FrozenStep

LEMMA SupersedeKeeps ==
    ASSUME VersionsInv, NEW r \in Request, Supersede(r)
    PROVE  VersionsInv' /\ FrozenStep
  <1>1. PICK n \in Version : n = req[r].at
    BY DEF Supersede
  <1>2. /\ req[r] \in PublishReq /\ req[r].kind = "publish" /\ Publishing(r) /\ req[r].at # 0
        /\ n \in Nat
    BY <1>1, Kinds DEF Supersede, VersionsInv, Shapes, PublishReq
  <1>3. PICK hit \in BOOLEAN : hit = (n # req[r].v /\ version[n].status = "published")
    OBVIOUS
  <1>4. PICK set : set = IF hit THEN req[r].supersedes \cup {n} ELSE req[r].supersedes
    OBVIOUS
  <1>5. PICK x : x = [req[r] EXCEPT !.at = n + 1, !.supersedes = set]
    OBVIOUS
  <1>6. /\ x \in PublishReq /\ x.kind = "publish" /\ x.v = req[r].v /\ x.at = n + 1
        /\ x.supersedes = set /\ ReqShape(x)
    <2>1. set \in SUBSET Version /\ n + 1 \in Nat /\ n + 1 # 0
      BY <1>2, <1>4 DEF PublishReq
    <2> QED
      BY <1>2, <1>5, <2>1 DEF PublishReq, ReqShape
  <1>7. /\ req' = [req EXCEPT ![r] = x] /\ (hit => \A s \in Request \ {r} : n \notin LockedBy(s))
        /\ UNCHANGED <<version, drafts, overlapped, crossed>>
    BY <1>1, <1>3, <1>4, <1>5 DEF Supersede, Free
  <1>8. Shapes' /\ StatusesKept /\ req'[r] = x /\ \A s \in Request : s # r => req'[s] = req[s]
    BY <1>6, <1>7, RequestBecomes DEF VersionsInv, Shapes
  <1>9. Generations'
    <2>1. \A s \in Request : req'[s].kind = "generate" => req'[s] = req[s]
      BY <1>6, <1>8
    <2> QED
      BY <1>7, <2>1, GenerationsKept
  <1>10. EditsOvertaken'
    <2>1. \A s \in Request : Editing(s)' => s # r /\ req'[s] = req[s]
      BY <1>6, <1>8 DEF Editing
    <2>2. \A s \in Request : Editing(s)' =>
             Editing(s) /\ req'[s].v = req[s].v /\ (req[s].overtaken => req'[s].overtaken)
      BY <2>1 DEF Editing
    <2> QED
      BY <1>8, <2>2, EditsKept
  <1>11. Publications'
    <2>1. \A s \in Request : s # r =>
             /\ Publishing(s)' <=> Publishing(s)
             /\ LockedBy(s)' = LockedBy(s)
      BY <1>8 DEF Publishing, LockedBy
    <2>2. /\ Publishing(r)' /\ LockedBy(r)' = {req[r].v} \cup set
          /\ LockedBy(r) = {req[r].v} \cup req[r].supersedes
      BY <1>2, <1>6, <1>8 DEF Publishing, LockedBy
    <2>3. \A s \in Request : Publishing(s)' =>
             /\ version'[req'[s].v].status = "draft"
             /\ \A m \in req'[s].supersedes : version'[m].status = "published"
             /\ \A m \in Version : m < req'[s].at /\ version'[m].status = "published" =>
                   m \in req'[s].supersedes \/ {m, req'[s].v} \in overlapped'
      <3> SUFFICES ASSUME NEW s \in Request, Publishing(s)'
                   PROVE  /\ version'[req'[s].v].status = "draft"
                          /\ \A m \in req'[s].supersedes : version'[m].status = "published"
                          /\ \A m \in Version : m < req'[s].at /\ version'[m].status = "published" =>
                                m \in req'[s].supersedes \/ {m, req'[s].v} \in overlapped'
        OBVIOUS
      <3>1. CASE s = r
        <4>1. /\ version[req[r].v].status = "draft"
              /\ \A m \in req[r].supersedes : version[m].status = "published"
              /\ \A m \in Version : m < n /\ version[m].status = "published" =>
                    m \in req[r].supersedes \/ {m, req[r].v} \in overlapped
          BY <1>1, <1>2 DEF VersionsInv, Publications
        <4>2. \A m \in Version : m < n + 1 => m < n \/ m = n
          BY <1>2, VersionsAssumption
        <4>3. version[n].status = "published" => hit
          BY <1>3, <4>1
        <4>4. req[r].supersedes \subseteq set /\ (hit => n \in set)
              /\ \A m \in set : m \in req[r].supersedes \/ (hit /\ m = n)
          BY <1>4
        <4>5. req'[s] = x /\ version' = version /\ overlapped' = overlapped
          BY <1>7, <1>8, <3>1
        <4>6. \A m \in set : version[m].status = "published"
          BY <1>3, <4>1, <4>4
        <4>7. ASSUME NEW m \in Version, m < n + 1, version[m].status = "published"
              PROVE  m \in set \/ {m, req[r].v} \in overlapped
          <5>1. CASE m < n
            BY <4>1, <4>4, <4>7, <5>1
          <5>2. CASE m = n
            BY <4>3, <4>4, <4>7, <5>2
          <5> QED
            BY <4>2, <4>7, <5>1, <5>2
        <4> QED
          BY <1>6, <4>1, <4>5, <4>6, <4>7
      <3>2. CASE s # r
        BY <1>7, <1>8, <2>1, <3>2 DEF VersionsInv, Publications
      <3> QED
        BY <3>1, <3>2
    <2>4. \A s \in Request : s # r /\ Publishing(s) =>
             LockedBy(s) \cap ({req[r].v} \cup set) = {}
      <3>1. \A s \in Request : s # r /\ Publishing(s) =>
               LockedBy(s) \cap ({req[r].v} \cup req[r].supersedes) = {}
        BY <1>2, <2>2 DEF VersionsInv, Publications
      <3> QED
        BY <1>4, <1>7, <3>1
    <2>5. \A s, t \in Request : s # t /\ Publishing(s)' /\ Publishing(t)' =>
             LockedBy(s)' \cap LockedBy(t)' = {} /\ {req'[s].v, req'[t].v} \in overlapped'
      <3> SUFFICES ASSUME NEW s \in Request, NEW t \in Request, s # t,
                          Publishing(s)', Publishing(t)'
                   PROVE  /\ LockedBy(s)' \cap LockedBy(t)' = {}
                          /\ {req'[s].v, req'[t].v} \in overlapped'
        OBVIOUS
      <3>1. Publishing(s) /\ Publishing(t) /\ req'[s].v = req[s].v /\ req'[t].v = req[t].v
        BY <1>2, <1>6, <1>8, <2>1
      <3>2. {req'[s].v, req'[t].v} \in overlapped'
        BY <1>7, <3>1 DEF VersionsInv, Publications
      <3>3. LockedBy(s)' \cap LockedBy(t)' = {}
        <4>1. CASE s = r
          BY <2>1, <2>2, <2>4, <3>1, <4>1
        <4>2. CASE t = r
          BY <2>1, <2>2, <2>4, <3>1, <4>2
        <4>3. CASE s # r /\ t # r
          <5>1. LockedBy(s)' = LockedBy(s) /\ LockedBy(t)' = LockedBy(t)
            BY <2>1, <4>3
          <5>2. LockedBy(s) \cap LockedBy(t) = {}
            BY <3>1 DEF VersionsInv, Publications
          <5> QED
            BY <5>1, <5>2
        <4> QED
          BY <4>1, <4>2, <4>3
      <3> QED
        BY <3>2, <3>3
    <2>6. CoPublishedOverlapped'
      BY <1>7 DEF VersionsInv, Publications, CoPublishedOverlapped
    <2> QED
      BY <2>3, <2>5, <2>6 DEF Publications
  <1> QED
    BY <1>7, <1>8, <1>9, <1>10, <1>11 DEF VersionsInv, FrozenStep

\* Every other published version is superseded, or its publication overlapped.
LEMMA CommitPublishKeeps ==
    ASSUME VersionsInv, NEW r \in Request, CommitPublish(r)
    PROVE  VersionsInv' /\ FrozenStep
  <1>1. PICK v : v = req[r].v
    OBVIOUS
  <1>2. PICK set : set = req[r].supersedes
    OBVIOUS
  <1>3. /\ Publishing(r) /\ v \in Version /\ set \subseteq Version /\ req[r].kind = "publish"
        /\ version[v].status = "draft" /\ \A n \in set : version[n].status = "published"
        /\ req[r].at \in Nat /\ req[r].at # 0 /\ req[r].at \notin Version
        /\ LockedBy(r) = {v} \cup set
    BY <1>1, <1>2, Kinds DEF CommitPublish, VersionsInv, Shapes, PublishReq, Publications,
                             LockedBy, Publishing
  <1>4. \A n \in Version : n < req[r].at
    <2>1. PICK last : last = Cardinality(Version)
      OBVIOUS
    <2>2. last \in Nat /\ Version = 1..last
      BY <2>1, VersionsAssumption, FS_CardinalityType
    <2> QED
      BY <1>3, <2>2
  <1>5. /\ version' = [n \in Version |->
                         IF n = v THEN [version[n] EXCEPT !.status = "published"]
                         ELSE IF n \in set THEN [version[n] EXCEPT !.status = "superseded"]
                         ELSE version[n]]
        /\ req' = [s \in Request |->
                     IF s = r THEN Idle
                     ELSE IF Editing(s) /\ req[s].v = v THEN [req[s] EXCEPT !.overtaken = TRUE]
                     ELSE req[s]]
        /\ UNCHANGED <<drafts, overlapped, crossed>>
    BY <1>1, <1>2 DEF CommitPublish
  <1>6. /\ version' = [n \in Version |-> version'[n]]
        /\ \A n \in Version : version'[n] =
              IF n = v THEN [version[n] EXCEPT !.status = "published"]
              ELSE IF n \in set THEN [version[n] EXCEPT !.status = "superseded"]
              ELSE version[n]
        /\ \A n \in Version : VersionShape(version[n])
    BY <1>5 DEF VersionsInv, Shapes
  <1>7. \A n \in Version :
           /\ VersionShape(version'[n]) /\ version'[n].rows = version[n].rows
           /\ version'[n].status = IF n = v THEN "published"
                                   ELSE IF n \in set THEN "superseded" ELSE version[n].status
    <2> SUFFICES ASSUME NEW n \in Version
                 PROVE  /\ VersionShape(version'[n]) /\ version'[n].rows = version[n].rows
                        /\ version'[n].status = IF n = v THEN "published"
                                                ELSE IF n \in set THEN "superseded"
                                                ELSE version[n].status
      OBVIOUS
    <2>1. VersionShape(version[n])
      BY <1>6
    <2>2. ASSUME NEW status \in Status, version'[n] = [version[n] EXCEPT !.status = status]
          PROVE  VersionShape(version'[n]) /\ version'[n].rows = version[n].rows
                 /\ version'[n].status = status
      <3>1. version'[n] = [status |-> status, rows |-> version[n].rows, last |-> version[n].last]
        BY <2>1, <2>2 DEF VersionShape
      <3> QED
        BY <3>1 DEF VersionShape
    <2>3. CASE n = v
      BY <1>6, <2>2, <2>3 DEF Status
    <2>4. CASE n # v /\ n \in set
      BY <1>6, <2>2, <2>4 DEF Status
    <2>5. CASE n # v /\ n \notin set
      BY <1>6, <2>1, <2>5
    <2> QED
      BY <2>3, <2>4, <2>5
  <1>8. /\ req' = [s \in Request |-> req'[s]] /\ req'[r] = Idle
        /\ \A s \in Request : s # r => req'[s] = IF Editing(s) /\ req[s].v = v
                                                 THEN [req[s] EXCEPT !.overtaken = TRUE]
                                                 ELSE req[s]
    BY <1>5
  <1>9. \A s \in Request : s # r /\ Editing(s) /\ req[s].v = v =>
           /\ ReqShape(req'[s]) /\ req'[s].kind = req[s].kind /\ req'[s].v = v
           /\ req'[s].overtaken = TRUE
    <2> SUFFICES ASSUME NEW s \in Request, s # r, Editing(s), req[s].v = v
                 PROVE  /\ ReqShape(req'[s]) /\ req'[s].kind = req[s].kind /\ req'[s].v = v
                        /\ req'[s].overtaken = TRUE
      OBVIOUS
    <2>1. req[s] = [kind |-> req[s].kind, v |-> req[s].v, id |-> req[s].id, ref |-> req[s].ref,
                    checked |-> req[s].checked, overtaken |-> req[s].overtaken]
      BY Kinds DEF VersionsInv, Shapes
    <2>2. req'[s] = [kind |-> req[s].kind, v |-> v, id |-> req[s].id, ref |-> req[s].ref,
                     checked |-> req[s].checked, overtaken |-> TRUE]
      BY <1>8, <2>1
    <2> QED
      BY <1>3, <2>2 DEF ReqShape, EditKind, Editing
  <1>10. \A s \in Request : s # r /\ ~ (Editing(s) /\ req[s].v = v) => req'[s] = req[s]
    BY <1>8
  <1>11. \A s \in Request : ReqShape(req'[s])
    BY <1>8, <1>9, <1>10, IdleShape DEF VersionsInv, Shapes
  <1>12. Shapes'
    <2>1. LiveOnes' = LiveOnes
      BY <1>3, <1>7 DEF LiveOnes, Live
    <2> QED
      BY <1>5, <1>6, <1>7, <1>8, <1>11, <2>1 DEF VersionsInv, Shapes
  <1>13. Generations'
    <2>1. \A s \in Request : req'[s].kind = "generate" /\ req'[s].cleared => req'[s] = req[s]
      BY <1>8, <1>9, <1>10, IdleShape DEF Editing
    <2> QED
      BY <1>5, <2>1, GenerationsKept
  <1>14. \A s \in Request : Publishing(s)' =>
            /\ s # r /\ Publishing(s) /\ req'[s] = req[s]
            /\ req[s].v \in Version /\ req[s].supersedes \subseteq Version
            /\ LockedBy(s)' = LockedBy(s) /\ LockedBy(s) = {req[s].v} \cup req[s].supersedes
            /\ LockedBy(s) \cap ({v} \cup set) = {}
    <2> SUFFICES ASSUME NEW s \in Request, Publishing(s)'
                 PROVE  /\ s # r /\ Publishing(s) /\ req'[s] = req[s]
                        /\ req[s].v \in Version /\ req[s].supersedes \subseteq Version
                        /\ LockedBy(s)' = LockedBy(s)
                        /\ LockedBy(s) = {req[s].v} \cup req[s].supersedes
                        /\ LockedBy(s) \cap ({v} \cup set) = {}
      OBVIOUS
    <2>1. s # r
      BY <1>8, IdleShape DEF Publishing
    <2>2. ~ (Editing(s) /\ req[s].v = v)
      BY <1>9, <2>1 DEF Publishing, Editing
    <2>3. req'[s] = req[s] /\ Publishing(s)
      BY <1>10, <2>1, <2>2 DEF Publishing
    <2>4. req[s] \in PublishReq
      BY <2>3, Kinds DEF VersionsInv, Shapes
    <2>5. LockedBy(s) \cap LockedBy(r) = {}
      BY <1>3, <2>1, <2>3 DEF VersionsInv, Publications
    <2> QED
      BY <1>3, <2>1, <2>3, <2>4, <2>5 DEF PublishReq, LockedBy
  <1>15. \A n \in Version : version'[n].status = "published" =>
            n = v \/ (n \notin set /\ version[n].status = "published")
    BY <1>7
  <1>16. Publications'
    <2>1. \A s \in Request : Publishing(s)' =>
             /\ version'[req'[s].v].status = "draft"
             /\ \A n \in req'[s].supersedes : version'[n].status = "published"
             /\ \A n \in Version : n < req'[s].at /\ version'[n].status = "published" =>
                   n \in req'[s].supersedes \/ {n, req'[s].v} \in overlapped'
      <3> SUFFICES ASSUME NEW s \in Request, Publishing(s)'
                   PROVE  /\ version'[req'[s].v].status = "draft"
                          /\ \A n \in req'[s].supersedes : version'[n].status = "published"
                          /\ \A n \in Version : n < req'[s].at /\ version'[n].status = "published" =>
                                n \in req'[s].supersedes \/ {n, req'[s].v} \in overlapped'
        OBVIOUS
      <3>1. /\ version[req[s].v].status = "draft"
            /\ \A n \in req[s].supersedes : version[n].status = "published"
            /\ \A n \in Version : n < req[s].at /\ version[n].status = "published" =>
                  n \in req[s].supersedes \/ {n, req[s].v} \in overlapped
            /\ {v, req[s].v} \in overlapped
        BY <1>1, <1>3, <1>14 DEF VersionsInv, Publications
      <3>2. \A n \in LockedBy(s) : n # v /\ n \notin set
        BY <1>14
      <3>3. /\ version'[req[s].v].status = "draft"
            /\ \A n \in req[s].supersedes : version'[n].status = "published"
        BY <1>7, <1>14, <3>1, <3>2
      <3> QED
        BY <1>5, <1>14, <1>15, <3>1, <3>3
    <2>2. \A s, t \in Request : s # t /\ Publishing(s)' /\ Publishing(t)' =>
             LockedBy(s)' \cap LockedBy(t)' = {} /\ {req'[s].v, req'[t].v} \in overlapped'
      <3> SUFFICES ASSUME NEW s \in Request, NEW t \in Request, s # t,
                          Publishing(s)', Publishing(t)'
                   PROVE  /\ LockedBy(s)' \cap LockedBy(t)' = {}
                          /\ {req'[s].v, req'[t].v} \in overlapped'
        OBVIOUS
      <3>1. /\ Publishing(s) /\ req'[s] = req[s] /\ LockedBy(s)' = LockedBy(s)
            /\ Publishing(t) /\ req'[t] = req[t] /\ LockedBy(t)' = LockedBy(t)
        BY <1>14
      <3>2. LockedBy(s) \cap LockedBy(t) = {} /\ {req[s].v, req[t].v} \in overlapped
        BY <3>1 DEF VersionsInv, Publications
      <3>3. overlapped' = overlapped
        BY <1>5
      <3> QED
        BY <3>1, <3>2, <3>3
    <2>3. CoPublishedOverlapped'
      <3> SUFFICES ASSUME NEW n \in Version, NEW m \in Version, n # m,
                          version'[n].status = "published", version'[m].status = "published"
                   PROVE  {n, m} \in overlapped
        BY <1>5 DEF CoPublishedOverlapped
      <3>1. \A o \in Version : version[o].status = "published" /\ o \notin set =>
               {o, v} \in overlapped
        BY <1>1, <1>2, <1>3, <1>4 DEF VersionsInv, Publications
      <3>2. CASE n = v
        <4>1. {m, v} \in overlapped
          BY <1>15, <3>1, <3>2
        <4>2. {m, v} = {n, m}
          BY <3>2
        <4> QED
          BY <4>1, <4>2
      <3>3. CASE m = v
        BY <1>15, <3>1, <3>3
      <3>4. CASE n # v /\ m # v
        BY <1>15, <3>4 DEF VersionsInv, Publications, CoPublishedOverlapped
      <3> QED
        BY <3>2, <3>3, <3>4
    <2> QED
      BY <2>1, <2>2, <2>3 DEF Publications
  <1>17. EditsOvertaken'
    <2> SUFFICES ASSUME NEW s \in Request, Editing(s)', version'[req'[s].v].status # "draft"
                 PROVE  req'[s].overtaken
      BY DEF EditsOvertaken
    <2>1. s # r
      BY <1>8, IdleShape DEF Editing
    <2>2. CASE Editing(s) /\ req[s].v = v
      BY <1>9, <2>1, <2>2
    <2>3. CASE ~ (Editing(s) /\ req[s].v = v)
      <3>1. req'[s] = req[s] /\ Editing(s) /\ req[s].v # v
        BY <1>10, <2>1, <2>3 DEF Editing
      <3>2. req[s].v \in Version
        BY <3>1, Kinds DEF VersionsInv, Shapes
      <3>3. version[req[s].v].status # "draft"
        BY <1>3, <1>7, <3>1, <3>2
      <3> QED
        BY <3>1, <3>3 DEF VersionsInv, EditsOvertaken
    <2> QED
      BY <2>2, <2>3
  <1>18. FrozenStep
    BY <1>7 DEF FrozenStep
  <1> QED
    BY <1>12, <1>13, <1>16, <1>17, <1>18 DEF VersionsInv

(***************************************************************************)
(* Edits.                                                                  *)
(***************************************************************************)
LEMMA EditIs ==
    ASSUME NEW v \in Version, NEW edit \in Edits(v)
    PROVE  ReqShape(edit) /\ edit.kind \in EditKind /\ edit.v = v
  <1>1. \E kind \in EditKind : \E id, ref : edit = Edit(kind, v, id, ref)
    <2>1. {"delete", "update", "form", "assign"} = EditKind
      BY DEF EditKind
    <2>2. CASE edit \in Deletions(v)
      BY <2>1, <2>2 DEF Deletions
    <2>3. CASE edit \in Updates(v)
      <3>1. PICK id, ref : edit = Edit("update", v, id, ref)
        BY <2>3, Zenon DEF Updates
      <3> QED
        BY <2>1, <3>1
    <2>4. CASE edit \in FormEdits(v)
      <3>1. PICK id, ref : edit = Edit("form", v, id, ref)
        BY <2>4, Zenon DEF FormEdits
      <3> QED
        BY <2>1, <3>1
    <2>5. CASE edit \in Additions(v)
      BY <2>1, <2>5, Zenon DEF Additions
    <2> QED
      BY <2>2, <2>3, <2>4, <2>5 DEF Edits
  <1>2. PICK kind \in EditKind : \E id, ref : edit = Edit(kind, v, id, ref)
    BY <1>1
  <1>3. PICK id, ref : edit = Edit(kind, v, id, ref)
    BY <1>2
  <1>4. PICK checked \in BOOLEAN : checked = (kind # "form")
    OBVIOUS
  <1>5. edit = [kind |-> kind, v |-> v, id |-> id, ref |-> ref, checked |-> checked,
                overtaken |-> FALSE]
    BY <1>3, <1>4 DEF Edit
  <1> QED
    BY <1>5 DEF ReqShape

LEMMA LoadEditKeeps ==
    ASSUME VersionsInv, NEW r \in Request, NEW v \in Version, LoadEdit(r, v)
    PROVE  VersionsInv' /\ FrozenStep
  <1>1. PICK x \in Edits(v) : req' = [req EXCEPT ![r] = x]
    BY DEF LoadEdit
  <1>2. ReqShape(x) /\ x.kind \in EditKind /\ x.v = v
    BY EditIs
  <1>3. version[v].status = "draft" /\ UNCHANGED <<version, drafts, overlapped, crossed>>
    BY DEF LoadEdit
  <1>4. Shapes' /\ StatusesKept /\ req'[r] = x /\ \A s \in Request : s # r => req'[s] = req[s]
    BY <1>1, <1>2, <1>3, RequestBecomes DEF VersionsInv, Shapes
  <1>5. Generations'
    <2>1. \A s \in Request : req'[s].kind = "generate" => req'[s] = req[s]
      BY <1>2, <1>4 DEF EditKind
    <2> QED
      BY <1>3, <2>1, GenerationsKept
  <1>6. Publications'
    <2>1. \A s \in Request : Publishing(s)' => req'[s] = req[s]
      BY <1>2, <1>4 DEF EditKind, Publishing
    <2> QED
      BY <1>3, <1>4, <2>1, PublicationsKept
  <1>7. EditsOvertaken'
    <2> SUFFICES ASSUME NEW s \in Request, Editing(s)', version'[req'[s].v].status # "draft"
                 PROVE  req'[s].overtaken
      BY DEF EditsOvertaken
    <2>1. s # r
      BY <1>2, <1>3, <1>4
    <2>2. Editing(s) /\ req'[s] = req[s] /\ version' = version
      BY <1>3, <1>4, <2>1 DEF Editing
    <2> QED
      BY <2>2 DEF VersionsInv, EditsOvertaken
  <1> QED
    BY <1>3, <1>4, <1>5, <1>6, <1>7 DEF VersionsInv, FrozenStep

\* An edit of r that ends and changes the rows of its version, perhaps undoing
\* the checks of others.
LEMMA RowsEdited ==
    ASSUME VersionsInv, NEW r \in Request, Editing(r), NEW x, VersionShape(x),
           x.status = version[req[r].v].status,
           version' = [version EXCEPT ![req[r].v] = x],
           Finish(r) \/ req' = Unchecked(r, req[r].v),
           UNCHANGED <<drafts, overlapped, crossed>>
    PROVE  VersionsInv' /\ FrozenStep
  <1>1. PICK v : v = req[r].v
    OBVIOUS
  <1>2. v \in Version
    BY <1>1, Kinds DEF VersionsInv, Shapes
  <1>3. /\ req' = [s \in Request |-> req'[s]] /\ req'[r] = Idle
        /\ \A s \in Request :
              s # r => \/ req'[s] = req[s]
                       \/ Editing(s) /\ req'[s] = [req[s] EXCEPT !.checked = FALSE]
    BY DEF Finish, Unchecked, VersionsInv, Shapes
  <1>4. ASSUME NEW s \in Request, Editing(s), req'[s] = [req[s] EXCEPT !.checked = FALSE]
        PROVE  ReqShape(req'[s]) /\ Quiet(s)
    <2>1. req[s] = [kind |-> req[s].kind, v |-> req[s].v, id |-> req[s].id, ref |-> req[s].ref,
                    checked |-> req[s].checked, overtaken |-> req[s].overtaken]
          /\ req[s].v \in Version /\ req[s].overtaken \in BOOLEAN
      BY <1>4, Kinds DEF VersionsInv, Shapes
    <2>2. req'[s] = [kind |-> req[s].kind, v |-> req[s].v, id |-> req[s].id, ref |-> req[s].ref,
                     checked |-> FALSE, overtaken |-> req[s].overtaken]
      BY <1>4, <2>1
    <2>3. /\ req'[s].kind = req[s].kind /\ req'[s].v = req[s].v
          /\ req'[s].overtaken = req[s].overtaken
      BY <2>2
    <2>4. ReqShape(req'[s])
      BY <1>4, <2>1, <2>2 DEF ReqShape, EditKind, Editing
    <2> QED
      BY <1>4, <2>3, <2>4 DEF Quiet, Editing
  <1>5. \A s \in Request : ReqShape(req'[s]) /\ Quiet(s)
    <2> SUFFICES ASSUME NEW s \in Request PROVE ReqShape(req'[s]) /\ Quiet(s)
      OBVIOUS
    <2>1. CASE req'[s] = Idle \/ req'[s] = req[s]
      BY <2>1, IdleShape DEF VersionsInv, Shapes, Quiet
    <2> QED
      BY <1>3, <1>4, <2>1
  <1>6. /\ version'[v] = x /\ \A w \in Version : w # v => version'[w] = version[w]
        /\ version' = [w \in Version |-> version'[w]]
    BY <1>1, <1>2 DEF VersionsInv, Shapes
  <1>7. \A w \in Version : VersionShape(version'[w]) /\ version'[w].status = version[w].status
    BY <1>1, <1>6 DEF VersionsInv, Shapes
  <1>8. Shapes' /\ StatusesKept
    BY <1>3, <1>5, <1>6, <1>7, RowsChange DEF VersionsInv
  <1>9. FrozenStep
    <2> SUFFICES ASSUME NEW w \in Version, version[w].status \in {"published", "superseded"},
                        version'[w].rows # version[w].rows
                 PROVE  Editing(r) /\ req[r].v = w /\ req[r].overtaken /\ req'[r] = Idle
      BY DEF FrozenStep
    <2>1. w = v
      BY <1>6
    <2>2. req[r].overtaken
      BY <1>1, <2>1 DEF VersionsInv, EditsOvertaken
    <2> QED
      BY <1>1, <1>3, <2>1, <2>2
  <1> QED
    BY <1>5, <1>8, <1>9, QuietKeeps

\* What EXCEPT makes of a version.
LEMMA VersionWith ==
    ASSUME NEW old, VersionShape(old), NEW rows, NEW x, x = [old EXCEPT !.rows = rows]
    PROVE  VersionShape(x) /\ x.status = old.status /\ x.rows = rows /\ x.last = old.last
  <1>1. x = [status |-> old.status, rows |-> rows, last |-> old.last] /\ old.status \in Status
    BY DEF VersionShape
  <1> QED
    BY <1>1 DEF VersionShape

LEMMA DeleteRowKeeps ==
    ASSUME VersionsInv, NEW r \in Request, DeleteRow(r)
    PROVE  VersionsInv' /\ FrozenStep
  <1>1. PICK v : v = req[r].v
    OBVIOUS
  <1>2. Editing(r) /\ v \in Version /\ VersionShape(version[v])
    BY <1>1, Kinds DEF DeleteRow, Editing, VersionsInv, Shapes
  <1>3. PICK rows : rows = [id \in DOMAIN version[v].rows \ {req[r].id} |-> version[v].rows[id]]
    OBVIOUS
  <1>4. PICK x : x = [version[v] EXCEPT !.rows = rows]
    OBVIOUS
  <1>5. VersionShape(x) /\ x.status = version[v].status
    BY <1>2, <1>4, VersionWith
  <1>6. version' = [version EXCEPT ![v] = x]
    BY <1>1, <1>2, <1>3, <1>4 DEF DeleteRow
  <1>7. Finish(r) /\ UNCHANGED <<drafts, overlapped, crossed>>
    BY DEF DeleteRow
  <1> QED
    BY <1>1, <1>2, <1>5, <1>6, <1>7, RowsEdited

LEMMA SaveRowKeeps ==
    ASSUME VersionsInv, NEW r \in Request, SaveRow(r)
    PROVE  VersionsInv' /\ FrozenStep
  <1>1. PICK v : v = req[r].v
    OBVIOUS
  <1>2. Editing(r) /\ v \in Version /\ VersionShape(version[v])
    BY <1>1, Kinds DEF SaveRow, Editing, VersionsInv, Shapes
  <1>3. PICK rows : version' = [version EXCEPT ![v].rows = rows]
    BY <1>1 DEF SaveRow
  <1>4. PICK x : x = [version[v] EXCEPT !.rows = rows]
    OBVIOUS
  <1>5. VersionShape(x) /\ x.status = version[v].status
    BY <1>2, <1>4, VersionWith
  <1>6. version' = [version EXCEPT ![v] = x]
    BY <1>2, <1>3, <1>4
  <1>7. req' = Unchecked(r, v) /\ UNCHANGED <<drafts, overlapped, crossed>>
    BY <1>1 DEF SaveRow
  <1> QED
    BY <1>1, <1>2, <1>5, <1>6, <1>7, RowsEdited

LEMMA AssignRowKeeps ==
    ASSUME VersionsInv, NEW r \in Request, AssignRow(r)
    PROVE  VersionsInv' /\ FrozenStep
  <1>1. PICK v : v = req[r].v
    OBVIOUS
  <1>2. Editing(r) /\ v \in Version /\ VersionShape(version[v])
    BY <1>1, Kinds DEF AssignRow, Editing, VersionsInv, Shapes
  <1>3. PICK last, rows : version' = [version EXCEPT ![v].last = last, ![v].rows = rows]
    BY <1>1 DEF AssignRow
  <1>4. PICK x : x = [version[v] EXCEPT !.last = last, !.rows = rows]
    OBVIOUS
  <1>5. VersionShape(x) /\ x.status = version[v].status
    <2>1. PICK old : old = version[v]
      OBVIOUS
    <2>2. VersionShape(old) /\ x = [old EXCEPT !.last = last, !.rows = rows]
      BY <1>2, <1>4, <2>1
    <2>3. PICK status, before, given :
             status \in Status /\ old = [status |-> status, rows |-> before, last |-> given]
      BY <2>2 DEF VersionShape
    <2>4. x = [status |-> status, rows |-> rows, last |-> last]
      BY <2>2, <2>3
    <2> QED
      BY <2>1, <2>3, <2>4 DEF VersionShape
  <1>6. version' = [version EXCEPT ![v] = x]
    BY <1>2, <1>3, <1>4
  <1>7. req' = Unchecked(r, v) /\ UNCHANGED <<drafts, overlapped, crossed>>
    BY <1>1 DEF AssignRow
  <1> QED
    BY <1>1, <1>2, <1>5, <1>6, <1>7, RowsEdited

(***************************************************************************)
(* Communication drafts.                                                   *)
(***************************************************************************)
\* A step that touches nothing but r's generation and the drafts.
LEMMA GenerationKeeps ==
    ASSUME VersionsInv, NEW r \in Request, NEW x, ReqShape(x), x.kind \in {"generate", "idle"},
           req' = [req EXCEPT ![r] = x], drafts' \in [Version -> Nat], Generations',
           UNCHANGED <<version, overlapped>>
    PROVE  VersionsInv' /\ FrozenStep
  <1>1. Shapes' /\ StatusesKept /\ req'[r] = x /\ \A s \in Request : s # r => req'[s] = req[s]
    BY RequestBecomes DEF VersionsInv
  <1>2. Publications'
    <2>1. \A s \in Request : Publishing(s)' => req'[s] = req[s]
      BY <1>1 DEF Publishing
    <2> QED
      BY <1>1, <2>1, PublicationsKept
  <1>3. EditsOvertaken'
    <2>1. \A s \in Request : Editing(s)' => req'[s] = req[s]
      BY <1>1 DEF Editing
    <2>2. \A s \in Request : Editing(s)' =>
             Editing(s) /\ req'[s].v = req[s].v /\ (req[s].overtaken => req'[s].overtaken)
      BY <2>1 DEF Editing
    <2> QED
      BY <1>1, <2>2, EditsKept
  <1> QED
    BY <1>1, <1>2, <1>3 DEF VersionsInv, FrozenStep

LEMMA LoadGenerateKeeps ==
    ASSUME VersionsInv, NEW r \in Request, NEW v \in Version, LoadGenerate(r, v)
    PROVE  VersionsInv' /\ FrozenStep
  <1>1. PICK x : x = [kind |-> "generate", v |-> v, cleared |-> FALSE]
    OBVIOUS
  <1>2. ReqShape(x) /\ x.kind = "generate" /\ ~ x.cleared
    BY <1>1 DEF ReqShape, GenerateReq
  <1>3. /\ req' = [req EXCEPT ![r] = x] /\ UNCHANGED <<version, drafts, overlapped, crossed>>
        /\ drafts' \in [Version -> Nat]
    BY <1>1 DEF LoadGenerate, VersionsInv, Shapes
  <1>4. Generations'
    <2>1. \A s \in Request : req'[s].kind = "generate" /\ req'[s].cleared => req'[s] = req[s]
      BY <1>2, <1>3 DEF VersionsInv, Shapes
    <2> QED
      BY <1>3, <2>1, GenerationsKept
  <1> QED
    BY <1>2, <1>3, <1>4, GenerationKeeps

LEMMA ClearDraftsKeeps ==
    ASSUME VersionsInv, NEW r \in Request, ClearDrafts(r)
    PROVE  VersionsInv' /\ FrozenStep
  <1>1. PICK w : w = req[r].v
    OBVIOUS
  <1>2. req[r] \in GenerateReq /\ w \in Version
    BY <1>1, Kinds DEF ClearDrafts, VersionsInv, Shapes
  <1>3. PICK x : x = [req[r] EXCEPT !.cleared = TRUE]
    OBVIOUS
  <1>4. x \in GenerateReq /\ x.kind = "generate" /\ x.v = w /\ x.cleared
    BY <1>1, <1>2, <1>3 DEF GenerateReq
  <1>5. ReqShape(x)
    BY <1>4 DEF ReqShape
  <1>6. /\ req' = [req EXCEPT ![r] = x] /\ drafts' = [drafts EXCEPT ![w] = 0]
        /\ crossed' = IF Generating(w) = {} THEN crossed ELSE crossed \cup {w}
        /\ UNCHANGED <<version, overlapped>>
    BY <1>1, <1>3 DEF ClearDrafts
  <1>7. /\ drafts \in [Version -> Nat] /\ drafts' \in [Version -> Nat]
        /\ req'[r] = x /\ \A s \in Request : s # r => req'[s] = req[s]
    BY <1>6 DEF VersionsInv, Shapes
  <1>8. ASSUME NEW v \in Version \ crossed'
        PROVE  /\ drafts'[v] <= 1
               /\ \A s \in Generating(v)' : drafts'[v] = 0
               /\ \A s, t \in Generating(v)' : s = t
    <2>1. CASE v = w
      <3>1. Generating(w) = {}
        BY <1>6, <1>8, <2>1
      <3>2. Generating(w)' = {r}
        BY <1>4, <1>7, <3>1 DEF Generating
      <3> QED
        BY <1>2, <1>6, <1>7, <2>1, <3>2
    <2>2. CASE v # w
      <3>1. Generating(v)' = Generating(v)
        BY <1>1, <1>4, <1>7, <2>2 DEF Generating
      <3>2. drafts'[v] = drafts[v] /\ v \notin crossed
        BY <1>6, <1>7, <1>8, <2>2
      <3> QED
        BY <1>8, <3>1, <3>2 DEF VersionsInv, Generations
    <2> QED
      BY <2>1, <2>2
  <1>9. Generations'
    BY <1>8 DEF Generations
  <1> QED
    BY <1>4, <1>5, <1>6, <1>7, <1>9, GenerationKeeps

LEMMA CreateDraftsKeeps ==
    ASSUME VersionsInv, NEW r \in Request, CreateDrafts(r)
    PROVE  VersionsInv' /\ FrozenStep
  <1>1. PICK w : w = req[r].v
    OBVIOUS
  <1>2. req[r] \in GenerateReq /\ w \in Version /\ r \in Generating(w)
    BY <1>1, Kinds DEF CreateDrafts, Generating, VersionsInv, Shapes
  <1>3. /\ req' = [req EXCEPT ![r] = Idle] /\ UNCHANGED <<version, overlapped, crossed>>
        /\ \/ drafts' = [drafts EXCEPT ![w] = IF drafts[w] < 2 THEN drafts[w] + 1 ELSE 2]
           \/ drafts' = drafts
    BY <1>1 DEF CreateDrafts, Finish
  <1>4. /\ drafts \in [Version -> Nat] /\ drafts' \in [Version -> Nat]
        /\ req'[r] = Idle /\ \A s \in Request : s # r => req'[s] = req[s]
    BY <1>2, <1>3 DEF VersionsInv, Shapes
  <1>5. ASSUME NEW v \in Version \ crossed'
        PROVE  /\ drafts'[v] <= 1
               /\ \A s \in Generating(v)' : drafts'[v] = 0
               /\ \A s, t \in Generating(v)' : s = t
    <2>1. /\ drafts[v] <= 1
          /\ \A s \in Generating(v) : drafts[v] = 0
          /\ \A s, t \in Generating(v) : s = t
      BY <1>3, <1>5 DEF VersionsInv, Generations
    <2>2. Generating(v)' = Generating(v) \ {r}
      BY <1>4, IdleShape DEF Generating
    <2>3. CASE v = w
      <3>1. drafts[w] = 0 /\ Generating(w)' = {}
        BY <1>2, <2>1, <2>2, <2>3
      <3>2. drafts'[w] \in {0, 1}
        BY <1>2, <1>3, <1>4, <3>1
      <3> QED
        BY <2>3, <3>1, <3>2
    <2>4. CASE v # w
      <3>1. drafts'[v] = drafts[v]
        BY <1>3, <1>4, <2>4
      <3> QED
        BY <2>1, <2>2, <3>1
    <2> QED
      BY <2>3, <2>4
  <1>6. Generations'
    BY <1>5 DEF Generations
  <1> QED
    BY <1>3, <1>4, <1>6, IdleShape, GenerationKeeps

(***************************************************************************)
(* All together.                                                           *)
(***************************************************************************)
LEMMA VersionsStart ==
    ASSUME VersionsInit
    PROVE  VersionsInv
  <1>1. /\ version = [v \in Version |-> NoVersion] /\ drafts = [v \in Version |-> 0]
        /\ req = [r \in Request |-> Idle]
    BY DEF VersionsInit
  <1>2. \A v \in Version : VersionShape(version[v]) /\ version[v].status = "absent"
    BY <1>1 DEF VersionShape, NoVersion, Status
  <1>3. \A r \in Request : ReqShape(req[r]) /\ req[r].kind = "idle"
    BY <1>1, IdleShape
  <1>4. LiveOnes = 1..Cardinality(LiveOnes)
    <2>1. LiveOnes = {}
      BY <1>2 DEF LiveOnes, Live
    <2>2. Cardinality({}) = 0
      BY FS_EmptySet
    <2>3. {} = 1..0
      OBVIOUS
    <2> QED
      BY <2>1, <2>2, <2>3
  <1>5. Shapes
    BY <1>1, <1>2, <1>3, <1>4 DEF Shapes
  <1>6. Publications
    BY <1>2, <1>3 DEF Publications, Publishing, CoPublishedOverlapped
  <1>7. Generations
    BY <1>1, <1>3 DEF Generations, Generating
  <1>8. EditsOvertaken
    BY <1>3 DEF EditsOvertaken, Editing
  <1> QED
    BY <1>5, <1>6, <1>7, <1>8 DEF VersionsInv

LEMMA VersionsStep ==
    ASSUME VersionsInv, [VersionsNext]_versionVars
    PROVE  VersionsInv' /\ FrozenStep
  <1>1. CASE UNCHANGED versionVars
    <2>1. /\ UNCHANGED <<version, drafts, req, overlapped, crossed>>
          /\ \A s \in Request : Quiet(s)
      BY <1>1 DEF versionVars, Quiet
    <2>2. Shapes' /\ StatusesKept
      <3>1. LiveOnes' = LiveOnes
        BY <2>1 DEF LiveOnes, Live
      <3> QED
        BY <2>1, <3>1 DEF VersionsInv, Shapes, StatusesKept, VersionShape, ReqShape
    <2> QED
      BY <2>1, <2>2, QuietKeeps DEF FrozenStep
  <1>2. ASSUME NEW r \in Request,
               \/ Abandon(r) \/ LoadSolve(r) \/ SolveRun(r) \/ \E valid \in BOOLEAN : Prepare(r, valid)
        PROVE  VersionsInv' /\ FrozenStep
    BY <1>2, AbandonKeeps, LoadSolveKeeps, SolveRunKeeps, PrepareKeeps
  <1>3. ASSUME NEW r \in Request, Supersede(r) \/ CommitPublish(r)
        PROVE  VersionsInv' /\ FrozenStep
    BY <1>3, SupersedeKeeps, CommitPublishKeeps
  <1>4. ASSUME NEW r \in Request, DeleteRow(r) \/ SaveRow(r) \/ AssignRow(r)
        PROVE  VersionsInv' /\ FrozenStep
    BY <1>4, DeleteRowKeeps, SaveRowKeeps, AssignRowKeeps
  <1>5. ASSUME NEW r \in Request, ClearDrafts(r) \/ CreateDrafts(r)
        PROVE  VersionsInv' /\ FrozenStep
    BY <1>5, ClearDraftsKeeps, CreateDraftsKeeps
  <1>6. ASSUME NEW r \in Request, NEW v \in Version,
               StartPublish(r, v) \/ LoadEdit(r, v) \/ LoadGenerate(r, v)
        PROVE  VersionsInv' /\ FrozenStep
    BY <1>6, StartPublishKeeps, LoadEditKeeps, LoadGenerateKeeps
  <1>7. ASSUME NEW v \in Version, CloneVersion(v)
        PROVE  VersionsInv' /\ FrozenStep
    BY <1>7, CloneVersionKeeps
  <1> QED
    BY <1>1, <1>2, <1>3, <1>4, <1>5, <1>6, <1>7 DEF VersionsNext

\* In every reachable state of a planning run, however its requests overlap and
\* die: a publication missed no version whose publication it did not overlap, the
\* drafts of a version are gone while new ones are made, and edits of a version
\* that was published meanwhile know it.
THEOREM RunsRemember == VersionsSpec => []VersionsInv
  <1>1. VersionsInit => VersionsInv
    BY VersionsStart
  <1>2. VersionsInv /\ [VersionsNext]_versionVars => VersionsInv'
    BY VersionsStep
  <1> QED
    BY <1>1, <1>2, PTL DEF VersionsSpec

\* publish_version: two versions of a run are published together only if their
\* publications ran at the same time.
THEOREM PublicationIsExclusive == VersionsSpec => []CoPublishedOverlapped
  <1>1. VersionsInv => CoPublishedOverlapped
    BY DEF VersionsInv, Publications
  <1> QED
    BY <1>1, RunsRemember, PTL

\* generate_version_drafts: a version has its messages once, unless two requests
\* generated them at the same time.
THEOREM MessagesComeOnce == VersionsSpec => []DraftsOnce
  <1>1. VersionsInv => DraftsOnce
    BY DEF VersionsInv, Shapes, Generations, DraftsOnce
  <1> QED
    BY <1>1, RunsRemember, PTL

\* The rows of a published or superseded version change only with the snapshots,
\* or by an edit that its publication overtook.
THEOREM PublishedRowsStay == VersionsSpec => PublishedRowsFrozen
  <1>1. VersionsInv /\ [VersionsNext]_versionVars => FrozenStep
    BY VersionsStep
  <1>2. FrozenStep =>
          \A v \in Version :
              version[v].status \in {"published", "superseded"} /\ version'[v].rows # version[v].rows =>
                  \/ version'[v].rows = [id \in DOMAIN version[v].rows |-> NullRef]
                  \/ \E r \in Request :
                        Editing(r) /\ req[r].v = v /\ req[r].overtaken /\ req'[r] = Idle
    BY DEF FrozenStep
  <1> QED
    BY <1>1, <1>2, RunsRemember, PTL DEF VersionsSpec, PublishedRowsFrozen

----------------------------------------------------------------------------
(***************************************************************************)
(* What checked edits keep: capacities and the volunteers' missions.       *)
(***************************************************************************)
\* A version's assignments have ids up to the last one given.
RowsShape(rows, last) ==
    /\ last \in Nat /\ DOMAIN rows \subseteq 1..last
    /\ rows \in [DOMAIN rows -> Ref]

FullRef == [ship: Ships(RunWeek), flight: Flights(RunWeek), vol: Vols(RunWeek)]
Size(ref) == IF ref.ship = None THEN 0 ELSE RunWeek.ship[ref.ship].units

WithinCapacity(rows) ==
    \A f \in Flights(RunWeek) :
        Within(RowUnits(rows, OnFlight(rows, f, 0)), RunWeek.flight[f].capacity)
NoClash(rows) ==
    \A i, j \in DOMAIN rows :
        rows[i].vol = rows[j].vol /\ rows[i].vol # None /\ HasAvailability(rows[i].vol) =>
            ~ Clash(rows[i].flight, rows[j].flight)
Careful(rows) == WithinCapacity(rows) /\ NoClash(rows)

\* The form's edit is not checked; a check that stands would pass again.
EditStands(e, rows, last) ==
    /\ e.kind # "delete" => e.ref \in Ref
    /\ e.kind = "form" => e.checked = FALSE /\ e.id \in 1..last
    /\ e.kind = "assign" => e.id = 0
    /\ e.kind \in {"update", "assign"} /\ e.checked =>
          e.ref \in FullRef /\ Accepts(rows, e.ref, e.id)
    /\ e.kind = "update" /\ e.checked /\ e.id \in DOMAIN rows => rows[e.id].ship = e.ref.ship

CarefulInv ==
    /\ \A v \in Version : RowsShape(version[v].rows, version[v].last)
    /\ \A v \in Version \ careless : Careful(version[v].rows)
    /\ \A r \in Request : Editing(r) =>
          /\ Live(req[r].v)
          /\ EditStands(req[r], version[req[r].v].rows, version[req[r].v].last)

-----------------------------------------------------------------------------
\* What the edits rely on, of the week of the run.
LEMMA WeekFacts ==
    /\ IsFiniteSet(Ships(RunWeek)) /\ Ships(RunWeek) \subseteq Int
    /\ None \notin Ships(RunWeek) \cup Flights(RunWeek)
    /\ \A s \in Ships(RunWeek) : RunWeek.ship[s].units \in Nat
    /\ \A f \in Flights(RunWeek) :
         /\ RunWeek.flight[f].day \in Int
         /\ RunWeek.flight[f].time \in Int \cup {None}
         /\ RunWeek.flight[f].capacity \in Nat \cup {None}
  BY WeekAssumption DEF IsWeek

LEMMA SizeNat ==
    ASSUME NEW ref \in Ref
    PROVE  Size(ref) \in Nat
  BY WeekFacts DEF Size, Ref

LEMMA RefFields ==
    /\ \A ref \in FullRef : ref \in Ref /\ ref.ship # None /\ ref.ship \in Ships(RunWeek)
                            /\ ref.flight \in Flights(RunWeek) /\ ref.flight # None
    /\ \A ref \in Ref : ref.ship \in Ships(RunWeek) \cup {None}
                        /\ ref.flight \in Flights(RunWeek) \cup {None}
    /\ NullRef \in Ref /\ NullRef.flight = None /\ NullRef.vol = None /\ NullRef.ship = None
  BY WeekFacts DEF FullRef, Ref, NullRef

\* The units of some rows.
LEMMA RowUnitsSum ==
    ASSUME NEW rows, NEW last, RowsShape(rows, last), NEW ids \in SUBSET DOMAIN rows
    PROVE  /\ IsFiniteSet(ids)
           /\ [id \in ids |-> Size(rows[id])] \in [ids -> Nat]
           /\ RowUnits(rows, ids) = SumFunction([id \in ids |-> Size(rows[id])])
           /\ RowUnits(rows, ids) \in Nat
  <1>1. IsFiniteSet(ids)
    <2>1. IsFiniteSet(1..last)
      BY FS_Interval DEF RowsShape
    <2> QED
      BY <2>1, FS_Subset DEF RowsShape
  <1>2. [id \in ids |-> Size(rows[id])] \in [ids -> Nat]
    BY SizeNat DEF RowsShape
  <1>3. RowUnits(rows, ids) = SumFunction([id \in ids |-> Size(rows[id])])
    BY DEF RowUnits, Size
  <1>4. SumFunction([id \in ids |-> Size(rows[id])]) \in Nat
    BY <1>1, <1>2, SumIsHeap
  <1> QED
    BY <1>1, <1>2, <1>3, <1>4

LEMMA FewerUnits ==
    ASSUME NEW rows, NEW last, RowsShape(rows, last), NEW ids \in SUBSET DOMAIN rows,
           NEW more, NEW end, RowsShape(more, end), NEW jds \in SUBSET DOMAIN more,
           NEW m \in [ids -> jds], \A x, y \in ids : m[x] = m[y] => x = y,
           \A x \in ids : rows[x] = more[m[x]]
    PROVE  RowUnits(rows, ids) <= RowUnits(more, jds)
  <1> DEFINE size == [id \in ids |-> Size(rows[id])]
             tall == [id \in jds |-> Size(more[id])]
  <1>1. /\ IsFiniteSet(ids) /\ size \in [ids -> Nat] /\ RowUnits(rows, ids) = SumFunction(size)
        /\ IsFiniteSet(jds) /\ tall \in [jds -> Nat] /\ RowUnits(more, jds) = SumFunction(tall)
    BY RowUnitsSum
  <1>2. \A x \in ids : size[x] \in Nat /\ size[x] = tall[m[x]]
    BY <1>1
  <1>3. \A x \in ids : size[x] <= tall[m[x]]
    <2> HIDE DEF size, tall
    <2> QED
      BY <1>2
  <1> HIDE DEF size, tall
  <1> QED
    BY <1>1, <1>3, SumCompares

LEMMA OneRowMore ==
    ASSUME NEW rows, NEW last, RowsShape(rows, last), NEW ids \in SUBSET DOMAIN rows, NEW id \in ids
    PROVE  RowUnits(rows, ids) = Size(rows[id]) + RowUnits(rows, ids \ {id})
  <1> DEFINE size == [i \in ids |-> Size(rows[i])]
             rest == [i \in ids \ {id} |-> Size(rows[i])]
  <1>1. IsFiniteSet(ids) /\ size \in [ids -> Nat] /\ RowUnits(rows, ids) = SumFunction(size)
    BY RowUnitsSum
  <1>2. RowUnits(rows, ids \ {id}) = SumFunction(rest)
    BY RowUnitsSum
  <1>3. rest = [i \in ids \ {id} |-> size[i]] /\ size[id] = Size(rows[id])
    OBVIOUS
  <1>4. SumFunction(size) = size[id] + SumFunction([i \in ids \ {id} |-> size[i]])
    <2> HIDE DEF size
    <2> QED
      BY <1>1, SumInserts
  <1> HIDE DEF size, rest
  <1> QED
    BY <1>1, <1>2, <1>3, <1>4

\* Capacities are numbers.
LEMMA WithinLess ==
    ASSUME NEW f \in Flights(RunWeek), NEW m \in Nat, NEW n \in Nat, m <= n,
           Within(n, RunWeek.flight[f].capacity)
    PROVE  Within(m, RunWeek.flight[f].capacity)
  <1>1. RunWeek.flight[f].capacity \in Nat \cup {None}
    BY WeekFacts
  <1> QED
    BY <1>1 DEF Within

LEMMA ClashFacts ==
    ASSUME NEW f \in Flights(RunWeek) \cup {None}, NEW g \in Flights(RunWeek) \cup {None}
    PROVE  ~ Clash(f, f) /\ (Clash(f, g) => Clash(g, f))
  <1>1. ~ Clash(f, f)
    BY DEF Clash
  <1>2. ASSUME Clash(f, g) PROVE Clash(g, f)
    <2>1. \A h \in Flights(RunWeek) : RunWeek.flight[h].time # None => Departure(RunWeek, h) \in Int
      BY WeekFacts DEF Departure, Day
    <2>2. PICK a \in Int, b \in Int : a = Departure(RunWeek, f) /\ b = Departure(RunWeek, g)
      BY <1>2, <2>1 DEF Clash
    <2>3. Distance(a, b) = Distance(b, a)
      BY DEF Distance
    <2> QED
      BY <1>2, <2>2, <2>3 DEF Clash
  <1> QED
    BY <1>1, <1>2

\* Some of the rows, under other ids.
Renumbers(m, new, rows) ==
    /\ m \in [DOMAIN new -> DOMAIN rows]
    /\ \A x, y \in DOMAIN new : m[x] = m[y] => x = y
    /\ \A x \in DOMAIN new : new[x] = rows[m[x]]

LEMMA FewerRowsCareful ==
    ASSUME NEW rows, NEW last, RowsShape(rows, last), Careful(rows),
           NEW new, NEW end, RowsShape(new, end), NEW m, Renumbers(m, new, rows)
    PROVE  Careful(new)
  <1>0. /\ m \in [DOMAIN new -> DOMAIN rows]
        /\ \A x, y \in DOMAIN new : m[x] = m[y] => x = y
        /\ \A x \in DOMAIN new : new[x] = rows[m[x]]
    BY DEF Renumbers
  <1>1. NoClash(new)
    BY <1>0 DEF Careful, NoClash
  <1>2. ASSUME NEW f \in Flights(RunWeek)
        PROVE  Within(RowUnits(new, OnFlight(new, f, 0)), RunWeek.flight[f].capacity)
    <2> DEFINE ids == OnFlight(new, f, 0)
               jds == OnFlight(rows, f, 0)
               k == [x \in ids |-> m[x]]
    <2>1. ids \in SUBSET DOMAIN new /\ jds \in SUBSET DOMAIN rows
      BY DEF OnFlight
    <2>2. 0 \notin DOMAIN rows
      BY DEF RowsShape
    <2>3. k \in [ids -> jds]
      <3>1. ASSUME NEW x \in ids PROVE m[x] \in jds
        <4>1. x \in DOMAIN new /\ new[x].flight = f
          BY DEF OnFlight
        <4>2. m[x] \in DOMAIN rows /\ rows[m[x]].flight = f
          BY <1>0, <4>1
        <4> QED
          BY <2>2, <4>2 DEF OnFlight
      <3> QED
        BY <3>1
    <2>4. /\ \A x, y \in ids : k[x] = k[y] => x = y
          /\ \A x \in ids : new[x] = rows[k[x]]
      <3> HIDE DEF ids
      <3> QED
        BY <1>0, <2>1
    <2>5. RowUnits(new, ids) <= RowUnits(rows, jds)
      <3> HIDE DEF ids, jds, k
      <3> QED
        BY <2>1, <2>3, <2>4, FewerUnits
    <2>6. RowUnits(new, ids) \in Nat /\ RowUnits(rows, jds) \in Nat
      <3> HIDE DEF ids, jds, k
      <3> QED
        BY <2>1, RowUnitsSum
    <2>7. Within(RowUnits(rows, jds), RunWeek.flight[f].capacity)
      BY DEF Careful, WithinCapacity
    <2> HIDE DEF ids, jds, k
    <2>8. Within(RowUnits(new, ids), RunWeek.flight[f].capacity)
      BY <2>5, <2>6, <2>7, WithinLess
    <2> QED
      BY <2>8 DEF ids
  <1> QED
    BY <1>1, <1>2 DEF Careful, WithinCapacity

\* What was accepted still is when rows are gone.
LEMMA FewerRowsAccept ==
    ASSUME NEW rows, NEW last, RowsShape(rows, last), NEW new, NEW D \in SUBSET DOMAIN rows,
           new = [i \in D |-> rows[i]], NEW ref \in FullRef, NEW but, Accepts(rows, ref, but)
    PROVE  RowsShape(new, last) /\ Accepts(new, ref, but)
  <1> DEFINE f == ref.flight
             u == RunWeek.ship[ref.ship].units
  <1>1. RowsShape(new, last)
    BY DEF RowsShape
  <1>2. f \in Flights(RunWeek) /\ u \in Nat
    BY RefFields, WeekFacts
  <1>3. VolAccepts(new, ref.vol, f, but)
    BY DEF Accepts, VolAccepts
  <1>4. FlightAccepts(new, ref.ship, f, but)
    <2> DEFINE ids == OnFlight(new, f, but)
               jds == OnFlight(rows, f, but)
               k == [x \in ids |-> x]
    <2>1. ids \in SUBSET DOMAIN new /\ jds \in SUBSET DOMAIN rows /\ ids \in SUBSET jds
      BY DEF OnFlight
    <2>2. k \in [ids -> jds] /\ \A x \in ids : k[x] = x /\ new[x] = rows[k[x]]
      BY <2>1
    <2>3. RowUnits(new, ids) <= RowUnits(rows, jds)
      <3> HIDE DEF ids, jds, k
      <3>1. \A x, y \in ids : k[x] = k[y] => x = y
        BY <2>2
      <3> QED
        BY <1>1, <2>1, <2>2, <3>1, FewerUnits
    <2>4. RowUnits(new, ids) \in Nat /\ RowUnits(rows, jds) \in Nat
      <3> HIDE DEF ids, jds, k
      <3> QED
        BY <1>1, <2>1, RowUnitsSum
    <2>5. Within(u + RowUnits(rows, jds), RunWeek.flight[f].capacity) /\ ShipFits(RunWeek, ref.ship, f)
      BY DEF Accepts, FlightAccepts
    <2>6. Within(u + RowUnits(new, ids), RunWeek.flight[f].capacity)
      <3> HIDE DEF ids, jds, k, f, u
      <3>1. PICK a \in Nat, b \in Nat : a = RowUnits(new, ids) /\ b = RowUnits(rows, jds)
        BY <2>4
      <3>2. u + a \in Nat /\ u + b \in Nat /\ u + a <= u + b
        BY <1>2, <2>3, <3>1
      <3> QED
        BY <1>2, <2>5, <3>1, <3>2, WithinLess
    <2> QED
      BY <2>5, <2>6 DEF FlightAccepts
  <1> QED
    BY <1>1, <1>3, <1>4 DEF Accepts

\* An accepted row comes in.
LEMMA AcceptedRowCareful ==
    ASSUME NEW rows, NEW last, RowsShape(rows, last), Careful(rows),
           NEW ref \in FullRef, NEW id \in Nat \ {0}, Accepts(rows, ref, id),
           NEW new, NEW end, RowsShape(new, end),
           new = [i \in DOMAIN rows \cup {id} |-> IF i = id THEN ref ELSE rows[i]]
    PROVE  Careful(new)
  <1>1. /\ \A i \in DOMAIN rows : rows[i] \in Ref
        /\ 0 \notin DOMAIN rows /\ 0 \notin DOMAIN new /\ id # 0
    BY DEF RowsShape
  <1>2. NoClash(new)
    <2> SUFFICES ASSUME NEW i \in DOMAIN new, NEW j \in DOMAIN new,
                        new[i].vol = new[j].vol, new[i].vol # None, HasAvailability(new[i].vol),
                        Clash(new[i].flight, new[j].flight)
                 PROVE  FALSE
      BY DEF NoClash
    <2>1. /\ new[i].flight \in Flights(RunWeek) \cup {None}
          /\ new[j].flight \in Flights(RunWeek) \cup {None}
      BY <1>1, RefFields
    <2>2. Clash(new[j].flight, new[i].flight) /\ new[i].flight # new[j].flight
      BY <2>1, ClashFacts
    <2>3. \A k \in DOMAIN rows \ {id} :
             rows[k].vol = ref.vol /\ HasAvailability(ref.vol) => ~ Clash(ref.flight, rows[k].flight)
      BY DEF Accepts, VolAccepts
    <2>4. CASE i = id
      BY <2>2, <2>3, <2>4
    <2>5. CASE j = id
      BY <2>2, <2>3, <2>5
    <2>6. CASE i # id /\ j # id
      BY <2>6 DEF Careful, NoClash
    <2> QED
      BY <2>4, <2>5, <2>6
  <1>3. ASSUME NEW f \in Flights(RunWeek)
        PROVE  Within(RowUnits(new, OnFlight(new, f, 0)), RunWeek.flight[f].capacity)
    <2> DEFINE ids == OnFlight(new, f, 0)
               others == ids \ {id}
               jds == OnFlight(rows, f, 0)
               but == OnFlight(rows, f, id)
               k == [x \in others |-> x]
    <2>1. /\ ids \in SUBSET DOMAIN new /\ others \in SUBSET DOMAIN new
          /\ jds \in SUBSET DOMAIN rows /\ but \in SUBSET DOMAIN rows
          /\ others \in SUBSET jds /\ others = but
      BY <1>1 DEF OnFlight
    <2>2. \A x \in others : new[x] = rows[x]
      BY DEF OnFlight
    <2>3. RowUnits(new, others) <= RowUnits(rows, jds) /\ RowUnits(new, others) <= RowUnits(rows, but)
      <3>1. k \in [others -> jds] /\ k \in [others -> but] /\ \A x \in others : k[x] = x
        BY <2>1
      <3> HIDE DEF ids, others, jds, but, k
      <3>2. /\ \A x, y \in others : k[x] = k[y] => x = y
            /\ \A x \in others : new[x] = rows[k[x]]
        BY <2>2, <3>1
      <3>3. RowUnits(new, others) <= RowUnits(rows, jds)
        BY <2>1, <3>1, <3>2, FewerUnits
      <3>4. RowUnits(new, others) <= RowUnits(rows, but)
        BY <2>1, <3>1, <3>2, FewerUnits
      <3> QED
        BY <3>3, <3>4
    <2>4. /\ RowUnits(new, others) \in Nat /\ RowUnits(rows, jds) \in Nat /\ RowUnits(rows, but) \in Nat
          /\ RowUnits(new, ids) \in Nat
      <3> HIDE DEF ids, others, jds, but, k
      <3> QED
        BY <2>1, RowUnitsSum
    <2>5. CASE id \in ids
      <3>1. new[id] = ref /\ ref.flight = f
        BY <2>5 DEF OnFlight
      <3>2. Size(ref) = RunWeek.ship[ref.ship].units /\ Size(ref) \in Nat
        BY RefFields, SizeNat DEF Size
      <3>3. Within(Size(ref) + RowUnits(rows, but), RunWeek.flight[f].capacity)
        BY <3>1, <3>2 DEF Accepts, FlightAccepts
      <3> HIDE DEF ids, jds, but, k
      <3>4. RowUnits(new, ids) = Size(ref) + RowUnits(new, others)
        BY <2>1, <2>5, <3>1, OneRowMore
      <3>5. PICK a \in Nat, b \in Nat : a = RowUnits(new, others) /\ b = RowUnits(rows, but)
        BY <2>4
      <3> HIDE DEF others
      <3>6. /\ Size(ref) + a \in Nat /\ Size(ref) + b \in Nat /\ Size(ref) + a <= Size(ref) + b
        BY <2>3, <3>2, <3>5
      <3>7. Within(RowUnits(new, ids), RunWeek.flight[f].capacity)
        BY <3>3, <3>4, <3>5, <3>6, WithinLess
      <3> QED
        BY <3>7 DEF ids
    <2>6. CASE id \notin ids
      <3>1. others = ids
        BY <2>6
      <3>2. Within(RowUnits(rows, jds), RunWeek.flight[f].capacity)
        BY DEF Careful, WithinCapacity
      <3> HIDE DEF ids, others, jds, but, k
      <3>3. Within(RowUnits(new, ids), RunWeek.flight[f].capacity)
        BY <2>3, <2>4, <3>1, <3>2, WithinLess
      <3> QED
        BY <3>3 DEF ids
    <2> QED
      BY <2>5, <2>6
  <1> QED
    BY <1>2, <1>3 DEF Careful, WithinCapacity

\* Rows that have lost their snapshots.
LEMMA NullRowsCareful ==
    ASSUME NEW rows, NEW last, RowsShape(rows, last), NEW new, new = [id \in DOMAIN rows |-> NullRef]
    PROVE  RowsShape(new, last) /\ Careful(new)
  <1>1. RowsShape(new, last)
    BY RefFields DEF RowsShape
  <1>2. NoClash(new)
    BY RefFields DEF NoClash
  <1>3. ASSUME NEW f \in Flights(RunWeek)
        PROVE  Within(RowUnits(new, OnFlight(new, f, 0)), RunWeek.flight[f].capacity)
    <2>1. OnFlight(new, f, 0) = {}
      BY RefFields, WeekFacts DEF OnFlight
    <2>2. PICK ids : ids = {}
      OBVIOUS
    <2> DEFINE size == [id \in ids |-> Size(new[id])]
    <2>3. RowUnits(new, ids) = SumFunction(size) /\ size \in [ids -> Nat] /\ IsFiniteSet(ids)
      <3>1. ids \in SUBSET DOMAIN new
        BY <2>2
      <3> QED
        BY <1>1, <3>1, RowUnitsSum
    <2>4. SumFunction(size) = Cardinality(Heap(size, ids))
      <3> HIDE DEF size
      <3> QED
        BY <2>3, SumIsHeap
    <2>5. RowUnits(new, ids) = 0
      <3>1. Heap(size, ids) = {}
        BY <2>2 DEF Heap
      <3> QED
        BY <2>3, <2>4, <3>1, FS_EmptySet
    <2>6. RunWeek.flight[f].capacity \in Nat \cup {None}
      BY WeekFacts
    <2> QED
      BY <2>1, <2>2, <2>5, <2>6 DEF Within
  <1> QED
    BY <1>1, <1>2, <1>3 DEF Careful, WithinCapacity

----------------------------------------------------------------------------
\* The i-th of a finite set of numbers.
Nth(D, i) == CHOOSE x \in D : Cardinality({o \in D : o <= x}) = i

LEMMA NthFacts ==
    ASSUME NEW D \in SUBSET Int, IsFiniteSet(D)
    PROVE  /\ Cardinality(D) \in Nat
           /\ \A i \in 1..Cardinality(D) : Nth(D, i) \in D
           /\ \A i, j \in 1..Cardinality(D) : Nth(D, i) = Nth(D, j) => i = j
  <1> DEFINE n == Cardinality(D)
             upto(x) == {o \in D : o <= x}
             rank == [x \in D |-> Cardinality(upto(x))]
  <1>1. n \in Nat
    BY FS_CardinalityType
  <1>2. ASSUME NEW x \in D
        PROVE  IsFiniteSet(upto(x)) /\ Cardinality(upto(x)) \in 1..n
    <2>1. upto(x) \subseteq D /\ x \in upto(x)
      OBVIOUS
    <2> HIDE DEF upto
    <2>2. IsFiniteSet(upto(x)) /\ Cardinality(upto(x)) <= n
      BY <2>1, FS_Subset
    <2>3. Cardinality(upto(x)) \in Nat /\ Cardinality(upto(x)) # 0
      BY <2>1, <2>2, FS_CardinalityType, FS_EmptySet
    <2> QED
      BY <1>1, <2>2, <2>3
  <1>3. ASSUME NEW x \in D, NEW y \in D, x < y
        PROVE  rank[x] # rank[y]
    <2>1. upto(x) \subseteq upto(y) /\ y \in upto(y) /\ y \notin upto(x)
      <3>1. \A o \in D : o \in Int
        OBVIOUS
      <3>2. \A o \in D : o <= x => o <= y
        BY <1>3, <3>1
      <3>3. y <= y /\ ~ (y <= x)
        BY <1>3, <3>1
      <3> QED
        BY <3>2, <3>3
    <2> HIDE DEF upto
    <2>2. IsFiniteSet(upto(y)) /\ upto(x) # upto(y)
      BY <1>2, <2>1
    <2>3. Cardinality(upto(x)) # Cardinality(upto(y))
      BY <2>1, <2>2, FS_Subset
    <2> QED
      BY <2>3
  <1>4. rank \in Injection(D, 1..n)
    <2>1. rank \in [D -> 1..n]
      BY <1>2
    <2>2. ASSUME NEW x \in D, NEW y \in D, rank[x] = rank[y] PROVE x = y
      <3>1. x \in Int /\ y \in Int
        OBVIOUS
      <3>2. ~ (x < y) /\ ~ (y < x)
        <4> HIDE DEF rank
        <4> QED
          BY <1>3, <2>2
      <3> QED
        BY <3>1, <3>2
    <2> HIDE DEF rank, n
    <2> QED
      BY <2>1, <2>2 DEF Injection, IsInjective
  <1>5. IsFiniteSet(1..n) /\ Cardinality(1..n) = n
    <2> HIDE DEF n
    <2> QED
      BY <1>1, FS_Interval
  <1>6. rank \in Surjection(D, 1..n)
    <2>1. Cardinality(D) = Cardinality(1..n)
      BY <1>5
    <2> HIDE DEF rank, n
    <2> QED
      BY <1>4, <1>5, <2>1, FS_Injection
  <1>7. \A i \in 1..n : \E x \in D : rank[x] = i
    <2> HIDE DEF rank, n
    <2> QED
      BY <1>6 DEF Surjection
  <1>8. ASSUME NEW i \in 1..n PROVE Nth(D, i) \in D /\ rank[Nth(D, i)] = i
    <2>1. \E x \in D : Cardinality(upto(x)) = i
      BY <1>7
    <2>2. Nth(D, i) \in D /\ Cardinality(upto(Nth(D, i))) = i
      BY <2>1 DEF Nth
    <2> QED
      BY <2>2
  <1> HIDE DEF rank
  <1> QED
    BY <1>1, <1>8

\* The rows of a plan that the solver may return.
LEMMA PlanRowsCareful ==
    ASSUME NEW chosen \in FeasiblePlans(RunWeek)
    PROVE  /\ RowsShape(RowsOf(chosen), Cardinality(DOMAIN chosen))
           /\ Careful(RowsOf(chosen))
  <1> DEFINE D == DOMAIN chosen
             n == Cardinality(D)
             rows == RowsOf(chosen)
             m == [i \in 1..n |-> Nth(D, i)]
  <1>1. /\ D \subseteq Ships(RunWeek) /\ chosen \in [D -> Flights(RunWeek) \X Vols(RunWeek)]
        /\ Feasible(RunWeek, chosen)
    BY DEF FeasiblePlans, Plans
  <1>2. D \in SUBSET Int /\ IsFiniteSet(D)
    BY <1>1, WeekFacts, FS_Subset
  <1>3. /\ n \in Nat /\ m \in [1..n -> D] /\ \A i, j \in 1..n : m[i] = m[j] => i = j
        /\ \A i \in 1..n : m[i] = Nth(D, i)
    <2> HIDE DEF D
    <2> QED
      BY <1>2, NthFacts
  <1>4. rows = [i \in 1..n |-> [ship |-> Nth(D, i), flight |-> chosen[Nth(D, i)][1],
                                 vol |-> chosen[Nth(D, i)][2]]]
    BY DEF RowsOf, Nth, FlightOf, VolOf
  <1> HIDE DEF D, m, n, rows
  <1>5. /\ DOMAIN rows = 1..n
        /\ \A i \in 1..n : /\ rows[i] = [ship |-> m[i], flight |-> chosen[m[i]][1], vol |-> chosen[m[i]][2]]
                            /\ rows[i].ship = m[i] /\ rows[i].flight = chosen[m[i]][1]
                            /\ rows[i].vol = chosen[m[i]][2]
                            /\ m[i] \in D
    BY <1>3, <1>4
  <1>6. \A i \in 1..n : /\ m[i] \in Ships(RunWeek) /\ m[i] # None
                        /\ chosen[m[i]][1] \in Flights(RunWeek) /\ chosen[m[i]][2] \in Vols(RunWeek)
    BY <1>1, <1>5, WeekFacts
  <1>7. RowsShape(rows, n)
    <2>1. \A i \in 1..n : rows[i] \in Ref
      BY <1>5, <1>6 DEF Ref
    <2>2. rows = [i \in 1..n |-> rows[i]]
      BY <1>4, <1>5
    <2> QED
      BY <1>3, <1>5, <2>1, <2>2 DEF RowsShape
  <1>8. NoClash(rows)
    <2> SUFFICES ASSUME NEW i \in 1..n, NEW j \in 1..n, rows[i].vol = rows[j].vol,
                        Clash(rows[i].flight, rows[j].flight)
                 PROVE  FALSE
      BY <1>5 DEF NoClash
    <2>1. PICK f, g : f = chosen[m[i]][1] /\ g = chosen[m[j]][1]
      OBVIOUS
    <2>2. /\ f \in Flights(RunWeek) /\ g \in Flights(RunWeek) /\ Clash(f, g)
          /\ chosen[m[i]][2] = chosen[m[j]][2]
      BY <1>5, <1>6, <2>1
    <2>3. f # g
      BY <2>2, ClashFacts
    <2>4. chosen[m[i]] \in Missions(chosen) /\ chosen[m[j]] \in Missions(chosen)
      BY <1>5 DEF Missions, D
    <2>5. Apart(RunWeek, f, g)
      BY <1>1, <2>1, <2>2, <2>3, <2>4 DEF Feasible
    <2>6. PICK a \in Int, b \in Int : a = Departure(RunWeek, f) /\ b = Departure(RunWeek, g)
      <3>1. \A h \in Flights(RunWeek) : Departure(RunWeek, h) \in Int
        BY WeekFacts DEF Departure, Day
      <3> QED
        BY <2>2, <3>1
    <2>7. Distance(a, b) < 150 /\ Distance(a, b) >= 180
      BY <2>2, <2>5, <2>6 DEF Clash, Apart, ConflictMargin, FlightGap
    <2>8. Distance(a, b) \in Int
      BY DEF Distance
    <2> QED
      BY <2>7, <2>8
  <1>9. ASSUME NEW f \in Flights(RunWeek)
        PROVE  Within(RowUnits(rows, OnFlight(rows, f, 0)), RunWeek.flight[f].capacity)
    <2> DEFINE ids == OnFlight(rows, f, 0)
               aboard == Aboard(chosen, f)
               size == [i \in ids |-> Size(rows[i])]
               tall == [s \in aboard |-> RunWeek.ship[s].units]
               k == [i \in ids |-> m[i]]
    <2>1. ids \in SUBSET DOMAIN rows /\ aboard \in SUBSET D /\ IsFiniteSet(aboard)
      <3>1. ids \in SUBSET DOMAIN rows /\ aboard \in SUBSET D
        BY DEF OnFlight, Aboard, D
      <3> QED
        BY <1>2, <3>1, FS_Subset
    <2>2. /\ IsFiniteSet(ids) /\ size \in [ids -> Nat] /\ RowUnits(rows, ids) = SumFunction(size)
          /\ RowUnits(rows, ids) \in Nat
      BY <1>7, <2>1, RowUnitsSum
    <2>3. tall \in [aboard -> Nat] /\ Units(RunWeek, aboard) = SumFunction(tall)
      BY <1>1, <2>1, WeekFacts DEF Units
    <2>4. ASSUME NEW i \in ids
          PROVE  i \in 1..n /\ m[i] \in aboard /\ size[i] \in Nat /\ size[i] = tall[m[i]]
      <3>1. i \in 1..n /\ rows[i].flight = f
        BY <1>5 DEF OnFlight
      <3>2. m[i] \in aboard
        BY <1>5, <3>1 DEF Aboard, FlightOf, D
      <3>3. Size(rows[i]) = RunWeek.ship[m[i]].units
        BY <1>5, <1>6, <3>1 DEF Size
      <3> QED
        BY <2>2, <3>1, <3>2, <3>3
    <2>5. k \in [ids -> aboard] /\ (\A x, y \in ids : k[x] = k[y] => x = y)
          /\ \A x \in ids : size[x] \in Nat /\ size[x] = tall[k[x]]
      <3> HIDE DEF ids, aboard, size, tall
      <3> QED
        BY <1>3, <2>4
    <2>6. SumFunction(size) <= SumFunction(tall) /\ SumFunction(tall) \in Nat
      <3> HIDE DEF ids, aboard, size, tall, k
      <3>1. \A x \in ids : size[x] <= tall[k[x]]
        BY <2>5
      <3>2. SumFunction(tall) \in Nat
        BY <2>1, <2>3, SumIsHeap
      <3> QED
        BY <2>1, <2>2, <2>3, <2>5, <3>1, <3>2, SumCompares
    <2>7. CASE f \in Used(chosen)
      <3>1. Within(Units(RunWeek, aboard), RunWeek.flight[f].capacity)
        BY <1>1, <2>7 DEF Feasible
      <3> HIDE DEF ids, aboard, size, tall, k
      <3>2. Within(RowUnits(rows, ids), RunWeek.flight[f].capacity)
        BY <2>2, <2>3, <2>6, <3>1, WithinLess
      <3> QED
        BY <3>2 DEF ids
    <2>8. CASE f \notin Used(chosen)
      <3>1. aboard = {}
        BY <2>8 DEF Aboard, Used
      <3>2. Heap(tall, aboard) = {}
        BY <3>1 DEF Heap
      <3> HIDE DEF ids, aboard, size, tall, k
      <3>3. SumFunction(tall) = 0
        BY <2>1, <2>3, <3>2, SumIsHeap, FS_EmptySet
      <3>4. RowUnits(rows, ids) <= 0
        BY <2>2, <2>6, <3>3
      <3>5. RunWeek.flight[f].capacity \in Nat \cup {None}
        BY WeekFacts
      <3>6. Within(RowUnits(rows, ids), RunWeek.flight[f].capacity)
        BY <2>2, <3>4, <3>5 DEF Within
      <3> QED
        BY <3>6 DEF ids
    <2> QED
      BY <2>7, <2>8
  <1> QED
    BY <1>7, <1>8, <1>9 DEF Careful, WithinCapacity, rows, n, D

\* A clone's rows are those of its version, numbered anew.
LEMMA CloneRowsCareful ==
    ASSUME NEW rows, NEW last, RowsShape(rows, last),
           NEW new, new = [i \in 1..Cardinality(DOMAIN rows) |-> rows[Nth(DOMAIN rows, i)]]
    PROVE  /\ RowsShape(new, Cardinality(DOMAIN rows))
           /\ Careful(rows) => Careful(new)
  <1> DEFINE D == DOMAIN rows
             n == Cardinality(D)
             m == [i \in 1..n |-> Nth(D, i)]
  <1>1. D \in SUBSET Int /\ IsFiniteSet(D)
    <2>1. last \in Nat /\ D \subseteq 1..last
      BY DEF RowsShape
    <2>2. IsFiniteSet(1..last) /\ 1..last \subseteq Int
      BY <2>1, FS_Interval
    <2> QED
      BY <2>1, <2>2, FS_Subset
  <1>2. /\ n \in Nat /\ m \in [1..n -> D] /\ \A i, j \in 1..n : m[i] = m[j] => i = j
        /\ \A i \in 1..n : m[i] = Nth(D, i)
    <2> HIDE DEF D
    <2> QED
      BY <1>1, NthFacts
  <1>3. new = [i \in 1..n |-> rows[m[i]]]
    BY <1>2
  <1> HIDE DEF D, n, m
  <1>4. \A i \in D : rows[i] \in Ref
    BY DEF RowsShape, D
  <1>5. RowsShape(new, n)
    <2>1. DOMAIN new = 1..n /\ new \in [1..n -> Ref]
      <3>1. \A i \in 1..n : rows[m[i]] \in Ref
        BY <1>2, <1>4
      <3> HIDE DEF Ref
      <3> QED
        BY <1>3, <3>1
    <2> QED
      BY <1>2, <2>1 DEF RowsShape
  <1>6. DOMAIN new = 1..n /\ \A i \in DOMAIN new : new[i] = rows[m[i]]
    BY <1>3
  <1>7. ASSUME Careful(rows) PROVE Careful(new)
    <2>1. Renumbers(m, new, rows)
      BY <1>2, <1>6 DEF D, Renumbers
    <2> QED
      BY <1>5, <1>7, <2>1, FewerRowsCareful
  <1> QED
    BY <1>5, <1>7 DEF n, D

----------------------------------------------------------------------------
(* What one request leaves to the others.                                    *)

\* An edit stays the same one, perhaps no longer checked.
SameEdit(s) ==
    Editing(s)' =>
        /\ Editing(s) /\ req'[s].kind = req[s].kind /\ req'[s].v = req[s].v
        /\ req'[s].id = req[s].id /\ req'[s].ref = req[s].ref
        /\ req'[s].checked \in {req[s].checked, FALSE}

StaysLive == \A w \in Version : Live(w) => version'[w].status # "absent"

\* A check may be undone at any time, and ids are not taken back.
LEMMA EditUnchecked ==
    ASSUME NEW e, NEW f, NEW rows, NEW last \in Nat, NEW end \in Nat,
           EditStands(e, rows, last), last <= end,
           f.kind = e.kind, f.id = e.id, f.ref = e.ref, f.checked \in {e.checked, FALSE}
    PROVE  /\ EditStands(f, rows, end)
           /\ \A new : f.checked = FALSE => EditStands(f, new, end)
  <1>1. \A id \in 1..last : id \in 1..end
    OBVIOUS
  <1> QED
    BY <1>1 DEF EditStands

LEMMA SameEditStands ==
    ASSUME VersionsInv, CarefulInv, NEW s \in Request, SameEdit(s), Editing(s)'
    PROVE  /\ Editing(s) /\ req'[s].v = req[s].v /\ req[s].v \in Version /\ Live(req[s].v)
           /\ EditStands(req'[s], version[req[s].v].rows, version[req[s].v].last)
  <1>1. PICK e, f : e = req[s] /\ f = req'[s]
    OBVIOUS
  <1>2. /\ Editing(s) /\ f.v = e.v /\ f.kind = e.kind /\ f.id = e.id /\ f.ref = e.ref
        /\ f.checked \in {e.checked, FALSE}
    BY <1>1 DEF SameEdit
  <1>3. e.v \in Version
    BY <1>1, <1>2, Kinds DEF VersionsInv, Shapes
  <1>4. Live(e.v) /\ EditStands(e, version[e.v].rows, version[e.v].last) /\ version[e.v].last \in Nat
    BY <1>1, <1>2, <1>3 DEF CarefulInv, RowsShape
  <1>5. PICK rows, last : rows = version[e.v].rows /\ last = version[e.v].last
    OBVIOUS
  <1>6. last \in Nat /\ last <= last /\ EditStands(e, rows, last)
    BY <1>4, <1>5
  <1>7. EditStands(f, rows, last)
    BY <1>2, <1>6, EditUnchecked
  <1> QED
    BY <1>1, <1>2, <1>3, <1>4, <1>5, <1>7

LEMMA RowsSame ==
    ASSUME VersionsInv, CarefulInv, UNCHANGED careless, StaysLive,
           \A w \in Version : version'[w].rows = version[w].rows /\ version'[w].last = version[w].last,
           \A s \in Request : SameEdit(s)
    PROVE  CarefulInv'
  <1>1. ASSUME NEW s \in Request, Editing(s)'
        PROVE  /\ version'[req'[s].v].status # "absent"
               /\ EditStands(req'[s], version'[req'[s].v].rows, version'[req'[s].v].last)
    <2>1. SameEdit(s)
      OBVIOUS
    <2>2. /\ Editing(s) /\ req'[s].v = req[s].v /\ req[s].v \in Version /\ Live(req[s].v)
          /\ EditStands(req'[s], version[req[s].v].rows, version[req[s].v].last)
      BY <1>1, <2>1, SameEditStands
    <2> QED
      BY <2>2 DEF StaysLive
  <1>2. \A v \in Version : RowsShape(version'[v].rows, version'[v].last)
    BY DEF CarefulInv
  <1>3. \A v \in Version \ careless' : Careful(version'[v].rows)
    BY DEF CarefulInv
  <1> QED
    BY <1>1, <1>2, <1>3 DEF CarefulInv, Live

LEMMA OneVersionChanges ==
    ASSUME VersionsInv, CarefulInv, NEW v \in Version, StaysLive,
           NEW rows, NEW last, RowsShape(rows, last),
           version'[v].rows = rows, version'[v].last = last,
           \A w \in Version : w # v => version'[w] = version[w],
           careless \subseteq careless', v \notin careless' => Careful(rows),
           \A s \in Request : SameEdit(s),
           \A s \in Request : Editing(s)' /\ req'[s].v = v => EditStands(req'[s], rows, last)
    PROVE  CarefulInv'
  <1>1. ASSUME NEW s \in Request, Editing(s)'
        PROVE  /\ version'[req'[s].v].status # "absent"
               /\ EditStands(req'[s], version'[req'[s].v].rows, version'[req'[s].v].last)
    <2>1. SameEdit(s)
      OBVIOUS
    <2>2. /\ Editing(s) /\ req'[s].v = req[s].v /\ req[s].v \in Version /\ Live(req[s].v)
          /\ EditStands(req'[s], version[req[s].v].rows, version[req[s].v].last)
      BY <1>1, <2>1, SameEditStands
    <2>6. CASE req[s].v = v
      BY <1>1, <2>2, <2>6 DEF StaysLive
    <2>7. CASE req[s].v # v
      BY <2>2, <2>7 DEF StaysLive
    <2> QED
      BY <2>6, <2>7
  <1>2. \A w \in Version : RowsShape(version'[w].rows, version'[w].last)
    BY DEF CarefulInv
  <1>3. \A w \in Version \ careless' : Careful(version'[w].rows)
    BY DEF CarefulInv
  <1> QED
    BY <1>1, <1>2, <1>3 DEF CarefulInv, Live

\* Requests that are not edits.
LEMMA PlainKinds ==
    ~ (Idle.kind \in {"delete", "update", "assign", "form"})
  BY DEF Idle

\* r does something else than editing; nothing is written but drafts.
LEMMA OtherRequest ==
    ASSUME VersionsInv, CarefulInv, NEW r \in Request, NEW x, req' = [req EXCEPT ![r] = x],
           x.kind \notin {"delete", "update", "assign", "form"}, UNCHANGED <<version, careless>>
    PROVE  CarefulInv'
  <1>1. \A s \in Request : s # r => req'[s] = req[s]
    BY DEF VersionsInv, Shapes
  <1>2. req'[r] = x
    BY DEF VersionsInv, Shapes
  <1>3. \A s \in Request : SameEdit(s)
    BY <1>1, <1>2 DEF SameEdit, Editing
  <1>4. StaysLive
    BY DEF StaysLive, Live
  <1> QED
    BY <1>3, <1>4, RowsSame

LEMMA OthersCareful ==
    ASSUME VersionsInv, CarefulInv, NEW r \in Request,
           \/ Abandon(r) \/ LoadSolve(r) \/ Supersede(r) \/ ClearDrafts(r) \/ CreateDrafts(r)
           \/ \E v \in Version : StartPublish(r, v) \/ LoadGenerate(r, v)
    PROVE  CarefulInv'
  <1>1. CASE Abandon(r) \/ CreateDrafts(r)
    BY <1>1, PlainKinds, OtherRequest DEF Abandon, CreateDrafts, Finish
  <1>2. CASE LoadSolve(r)
    <2>1. PICK x : x = [kind |-> "solve", seen |-> run]
      OBVIOUS
    <2>2. req' = [req EXCEPT ![r] = x] /\ UNCHANGED <<version, careless>>
          /\ x.kind \notin {"delete", "update", "assign", "form"}
      BY <1>2, <2>1 DEF LoadSolve
    <2> QED
      BY <2>2, OtherRequest
  <1>3. CASE \E v \in Version : StartPublish(r, v)
    <2>1. PICK v \in Version : StartPublish(r, v)
      BY <1>3
    <2>2. PICK x : x = [kind |-> "publish", v |-> v, at |-> 1, supersedes |-> {}]
      OBVIOUS
    <2>3. req' = [req EXCEPT ![r] = x] /\ UNCHANGED <<version, careless>>
          /\ x.kind \notin {"delete", "update", "assign", "form"}
      BY <2>1, <2>2 DEF StartPublish
    <2> QED
      BY <2>3, OtherRequest
  <1>4. CASE \E v \in Version : LoadGenerate(r, v)
    <2>1. PICK v \in Version : LoadGenerate(r, v)
      BY <1>4
    <2>2. PICK x : x = [kind |-> "generate", v |-> v, cleared |-> FALSE]
      OBVIOUS
    <2>3. req' = [req EXCEPT ![r] = x] /\ UNCHANGED <<version, careless>>
          /\ x.kind \notin {"delete", "update", "assign", "form"}
      BY <2>1, <2>2 DEF LoadGenerate
    <2> QED
      BY <2>3, OtherRequest
  <1>5. CASE Supersede(r)
    <2>1. /\ req[r] \in PublishReq /\ UNCHANGED <<version, careless>>
      BY <1>5, Kinds DEF Supersede, VersionsInv, Shapes
    <2>2. PICK x : req' = [req EXCEPT ![r] = x] /\ x.kind = req[r].kind
      <3>1. PICK set : req' = [req EXCEPT ![r].at = req[r].at + 1, ![r].supersedes = set]
        BY <1>5 DEF Supersede
      <3>2. PICK x : x = [req[r] EXCEPT !.at = req[r].at + 1, !.supersedes = set]
        OBVIOUS
      <3>3. req' = [req EXCEPT ![r] = x]
        BY <3>1, <3>2
      <3>4. x.kind = req[r].kind
        BY <2>1, <3>2 DEF PublishReq
      <3> QED
        BY <3>3, <3>4
    <2>3. x.kind \notin {"delete", "update", "assign", "form"}
      BY <1>5, <2>2 DEF Supersede, Publishing
    <2> QED
      BY <2>1, <2>2, <2>3, OtherRequest
  <1>6. CASE ClearDrafts(r)
    <2>1. /\ req[r] \in GenerateReq /\ req[r].kind = "generate" /\ UNCHANGED <<version, careless>>
      BY <1>6, Kinds DEF ClearDrafts, VersionsInv, Shapes
    <2>2. PICK x : x = [req[r] EXCEPT !.cleared = TRUE]
      OBVIOUS
    <2>3. req' = [req EXCEPT ![r] = x] /\ x.kind \notin {"delete", "update", "assign", "form"}
      BY <1>6, <2>1, <2>2 DEF ClearDrafts, GenerateReq
    <2> QED
      BY <2>1, <2>3, OtherRequest
  <1> QED
    BY <1>1, <1>2, <1>3, <1>4, <1>5, <1>6

LEMMA CommitPublishCareful ==
    ASSUME VersionsInv, CarefulInv, NEW r \in Request, CommitPublish(r)
    PROVE  CarefulInv'
  <1>1. PICK v, set : v = req[r].v /\ set = req[r].supersedes
    OBVIOUS
  <1>2. /\ version' = [n \in Version |->
                         IF n = v THEN [version[n] EXCEPT !.status = "published"]
                         ELSE IF n \in set THEN [version[n] EXCEPT !.status = "superseded"]
                         ELSE version[n]]
        /\ req' = [s \in Request |->
                     IF s = r THEN Idle
                     ELSE IF Editing(s) /\ req[s].v = v THEN [req[s] EXCEPT !.overtaken = TRUE]
                     ELSE req[s]]
        /\ UNCHANGED careless
    BY <1>1 DEF CommitPublish
  <1>3. ASSUME NEW n \in Version
        PROVE  /\ version'[n].rows = version[n].rows /\ version'[n].last = version[n].last
               /\ version[n].status # "absent" => version'[n].status # "absent"
    <2>1. VersionShape(version[n])
      BY DEF VersionsInv, Shapes
    <2>2. PICK status, rows, last : version[n] = [status |-> status, rows |-> rows, last |-> last]
      BY <2>1 DEF VersionShape
    <2>3. version'[n] \in {[status |-> "published", rows |-> rows, last |-> last],
                           [status |-> "superseded", rows |-> rows, last |-> last],
                           [status |-> status, rows |-> rows, last |-> last]}
      BY <1>2, <2>2
    <2> QED
      BY <2>2, <2>3
  <1>4. ASSUME NEW s \in Request PROVE SameEdit(s)
    <2>1. CASE s = r
      BY <1>2, <2>1, PlainKinds DEF SameEdit, Editing
    <2>2. CASE s # r /\ Editing(s) /\ req[s].v = v
      <3>1. req[s] = [kind |-> req[s].kind, v |-> req[s].v, id |-> req[s].id, ref |-> req[s].ref,
                      checked |-> req[s].checked, overtaken |-> req[s].overtaken]
        BY <2>2, Kinds DEF VersionsInv, Shapes
      <3>2. req'[s] = [req[s] EXCEPT !.overtaken = TRUE]
        BY <1>2, <2>2
      <3>3. req'[s] = [kind |-> req[s].kind, v |-> req[s].v, id |-> req[s].id, ref |-> req[s].ref,
                       checked |-> req[s].checked, overtaken |-> TRUE]
        BY <3>1, <3>2
      <3> QED
        BY <2>2, <3>3 DEF SameEdit
    <2>3. CASE s # r /\ ~ (Editing(s) /\ req[s].v = v)
      <3>1. req'[s] = req[s]
        BY <1>2, <2>3
      <3> QED
        BY <3>1 DEF SameEdit, Editing
    <2> QED
      BY <2>1, <2>2, <2>3
  <1>5. StaysLive
    BY <1>3 DEF StaysLive, Live
  <1> QED
    BY <1>2, <1>3, <1>4, <1>5, RowsSame

----------------------------------------------------------------------------
LEMMA PrepareCareful ==
    ASSUME VersionsInv, CarefulInv, NEW r \in Request, NEW valid \in BOOLEAN, Prepare(r, valid)
    PROVE  CarefulInv'
  <1>1. PICK ready : ready = [kind |-> "solve", seen |-> "ready"]
    OBVIOUS
  <1>2. /\ version' = [v \in Version |->
                         [version[v] EXCEPT !.rows = [id \in DOMAIN version[v].rows |-> NullRef]]]
        /\ req' = [s \in Request |->
                     IF s = r THEN (IF valid THEN ready ELSE Idle)
                     ELSE IF Editing(s) /\ req[s].kind # "delete" THEN Idle
                     ELSE req[s]]
    BY <1>1 DEF Prepare
  <1>3. ASSUME NEW v \in Version
        PROVE  /\ RowsShape(version'[v].rows, version'[v].last) /\ Careful(version'[v].rows)
               /\ version'[v].last = version[v].last /\ version'[v].status = version[v].status
    <2>1. PICK rows : rows = [id \in DOMAIN version[v].rows |-> NullRef]
      OBVIOUS
    <2>2. VersionShape(version[v]) /\ RowsShape(version[v].rows, version[v].last)
      BY DEF VersionsInv, Shapes, CarefulInv
    <2>3. version'[v] = [status |-> version[v].status, rows |-> rows, last |-> version[v].last]
      BY <1>2, <2>1, <2>2 DEF VersionShape
    <2>4. RowsShape(rows, version[v].last) /\ Careful(rows)
      BY <2>1, <2>2, NullRowsCareful
    <2> QED
      BY <2>3, <2>4
  <1>4. ASSUME NEW s \in Request, Editing(s)'
        PROVE  /\ version'[req'[s].v].status # "absent"
               /\ EditStands(req'[s], version'[req'[s].v].rows, version'[req'[s].v].last)
    <2>1. /\ req'[s] = req[s] /\ req[s].kind = "delete" /\ Editing(s)
      BY <1>1, <1>2, <1>4, PlainKinds DEF Editing
    <2>2. req[s].v \in Version /\ Live(req[s].v)
      BY <2>1, Kinds DEF VersionsInv, Shapes, CarefulInv
    <2>3. EditStands(req[s], version'[req[s].v].rows, version'[req[s].v].last)
      BY <2>1 DEF EditStands
    <2> QED
      BY <1>3, <2>1, <2>2, <2>3 DEF Live
  <1> QED
    BY <1>3, <1>4 DEF CarefulInv, Live

\* The new version.
LEMMA MadeCareful ==
    ASSUME VersionsInv, CarefulInv, NEW rows, NEW last, RowsShape(rows, last),
           NextNumber \in Version,
           version' = [version EXCEPT ![NextNumber] = [status |-> "draft", rows |-> rows, last |-> last]],
           careless \subseteq careless', NextNumber \notin careless' => Careful(rows),
           \/ UNCHANGED req
           \/ \E r \in Request : Finish(r)
    PROVE  CarefulInv'
  <1>1. PICK v \in Version : v = NextNumber
    OBVIOUS
  <1>2. /\ version'[v] = [status |-> "draft", rows |-> rows, last |-> last]
        /\ \A w \in Version : w # v => version'[w] = version[w]
    BY <1>1 DEF VersionsInv, Shapes
  <1>3. ~ Live(v)
    <2>1. PICK k : k = Cardinality(LiveOnes)
      OBVIOUS
    <2>2. LiveOnes \subseteq Version /\ IsFiniteSet(Version)
      BY VersionsAssumption DEF LiveOnes
    <2>3. IsFiniteSet(LiveOnes)
      BY <2>2, FS_Subset
    <2>4. k \in Nat /\ LiveOnes = 1..k /\ NextNumber = k + 1
      BY <2>1, <2>3, FS_CardinalityType DEF VersionsInv, Shapes, NextNumber, LiveOnes
    <2>5. v \notin LiveOnes
      BY <1>1, <2>4
    <2> QED
      BY <2>5 DEF LiveOnes
  <1>4. \A s \in Request : req'[s] = Idle \/ req'[s] = req[s]
    BY DEF VersionsInv, Shapes, Finish
  <1>5. \A s \in Request : SameEdit(s)
    BY <1>4, PlainKinds DEF SameEdit, Editing
  <1>6. ASSUME NEW s \in Request, Editing(s)', req'[s].v = v PROVE FALSE
    <2>1. Editing(s) /\ req[s].v = v
      BY <1>5, <1>6 DEF SameEdit
    <2>2. Live(v)
      BY <2>1 DEF CarefulInv
    <2> QED
      BY <1>3, <2>2
  <1>7. StaysLive
    BY <1>2 DEF StaysLive, Live
  <1>8. version'[v].rows = rows /\ version'[v].last = last
    BY <1>2
  <1>9. v \notin careless' => Careful(rows)
    BY <1>1
  <1> QED
    BY <1>2, <1>5, <1>6, <1>7, <1>8, <1>9, OneVersionChanges

LEMMA SolveRunCareful ==
    ASSUME VersionsInv, CarefulInv, NEW r \in Request, SolveRun(r)
    PROVE  CarefulInv'
  <1>1. PICK chosen \in FeasiblePlans(RunWeek) :
           version' = [version EXCEPT ![NextNumber] =
                         [status |-> "draft", rows |-> RowsOf(chosen),
                          last |-> Cardinality(DOMAIN chosen)]]
    BY DEF SolveRun
  <1>2. PICK rows, last : rows = RowsOf(chosen) /\ last = Cardinality(DOMAIN chosen)
    OBVIOUS
  <1>3. RowsShape(rows, last) /\ Careful(rows)
    BY <1>2, PlanRowsCareful
  <1>4. NextNumber \in Version /\ Finish(r) /\ careless' = careless
        /\ version' = [version EXCEPT ![NextNumber] = [status |-> "draft", rows |-> rows, last |-> last]]
    BY <1>1, <1>2 DEF SolveRun
  <1> QED
    BY <1>3, <1>4, MadeCareful

LEMMA CloneVersionCareful ==
    ASSUME VersionsInv, CarefulInv, NEW v \in Version, CloneVersion(v)
    PROVE  CarefulInv'
  <1>1. PICK ids, last : ids = DOMAIN version[v].rows /\ last = Cardinality(ids)
    OBVIOUS
  <1>2. PICK new : new = [i \in 1..Cardinality(ids) |-> version[v].rows[Nth(ids, i)]]
    OBVIOUS
  <1>3. RowsShape(version[v].rows, version[v].last) /\ (v \notin careless => Careful(version[v].rows))
    BY DEF CarefulInv
  <1>4. RowsShape(new, last) /\ (Careful(version[v].rows) => Careful(new))
    BY <1>1, <1>2, <1>3, CloneRowsCareful
  <1>5. /\ NextNumber \in Version /\ UNCHANGED req
        /\ version' = [version EXCEPT ![NextNumber] = [status |-> "draft", rows |-> new, last |-> last]]
        /\ careless' = IF v \in careless THEN careless \cup {NextNumber} ELSE careless
    BY <1>1, <1>2 DEF CloneVersion, Nth
  <1>6. careless \subseteq careless' /\ (NextNumber \notin careless' => Careful(new))
    BY <1>3, <1>4, <1>5
  <1> QED
    BY <1>4, <1>5, <1>6, MadeCareful

----------------------------------------------------------------------------
(* Edits.                                                                    *)

\* Rows change, but no status: each version stays live.
LEMMA WrittenVersion ==
    ASSUME VersionsInv, NEW v \in Version, Live(v), NEW x, x.status = version[v].status,
           version' = [version EXCEPT ![v] = x]
    PROVE  /\ version'[v] = x /\ \A w \in Version : w # v => version'[w] = version[w]
           /\ StaysLive
  <1>1. version'[v] = x /\ \A w \in Version : w # v => version'[w] = version[w]
    BY DEF VersionsInv, Shapes
  <1> QED
    BY <1>1 DEF StaysLive, Live

LEMMA UncheckedFacts ==
    ASSUME VersionsInv, NEW r \in Request, NEW v, req' = Unchecked(r, v), NEW s \in Request
    PROVE  SameEdit(s) /\ (Editing(s)' /\ req'[s].v = v => req'[s].checked = FALSE)
  <1>1. req'[s] = IF s = r THEN Idle
                  ELSE IF Editing(s) /\ req[s].v = v THEN [req[s] EXCEPT !.checked = FALSE]
                  ELSE req[s]
    BY DEF Unchecked
  <1>2. CASE s = r
    BY <1>1, <1>2, PlainKinds DEF SameEdit, Editing
  <1>3. CASE s # r /\ Editing(s) /\ req[s].v = v
    <2>1. req[s] = [kind |-> req[s].kind, v |-> req[s].v, id |-> req[s].id, ref |-> req[s].ref,
                    checked |-> req[s].checked, overtaken |-> req[s].overtaken]
      BY <1>3, Kinds DEF VersionsInv, Shapes
    <2>2. req'[s] = [kind |-> req[s].kind, v |-> req[s].v, id |-> req[s].id, ref |-> req[s].ref,
                     checked |-> FALSE, overtaken |-> req[s].overtaken]
      BY <1>1, <1>3, <2>1
    <2> QED
      BY <1>3, <2>2 DEF SameEdit
  <1>4. CASE s # r /\ ~ (Editing(s) /\ req[s].v = v)
    <2>1. req'[s] = req[s]
      BY <1>1, <1>4
    <2> QED
      BY <1>4, <2>1 DEF SameEdit, Editing
  <1> QED
    BY <1>2, <1>3, <1>4

\* The edits of a version that others are making, when it changes under them.
LEMMA OthersUnchecked ==
    ASSUME VersionsInv, CarefulInv, NEW r \in Request, NEW v \in Version, req' = Unchecked(r, v),
           NEW new, NEW end \in Nat, version[v].last <= end, NEW s \in Request,
           Editing(s)', req'[s].v = v
    PROVE  EditStands(req'[s], new, end)
  <1>1. SameEdit(s) /\ req'[s].checked = FALSE
    BY UncheckedFacts
  <1>2. PICK e, f : e = req[s] /\ f = req'[s]
    OBVIOUS
  <1>3. /\ Editing(s) /\ f.v = v /\ e.v = v /\ f.kind = e.kind /\ f.id = e.id /\ f.ref = e.ref
        /\ f.checked = FALSE /\ f.checked \in {e.checked, FALSE}
    BY <1>1, <1>2 DEF SameEdit
  <1>4. PICK rows, last : rows = version[v].rows /\ last = version[v].last
    OBVIOUS
  <1>5. EditStands(e, rows, last) /\ last \in Nat /\ last <= end
    BY <1>2, <1>3, <1>4 DEF CarefulInv, RowsShape
  <1>6. EditStands(f, new, end)
    BY <1>3, <1>5, EditUnchecked
  <1> QED
    BY <1>2, <1>6

LEMMA MovedIsRef ==
    ASSUME NEW v, NEW id, version[v].rows[id] \in Ref, NEW m \in MovedRow(v, id)
    PROVE  /\ m \in Ref /\ m.ship = version[v].rows[id].ship
           /\ m.ship # None => m \in FullRef
  <1>1. version[v].rows[id].ship \in Ships(RunWeek) \cup {None}
    BY DEF Ref
  <1> QED
    BY <1>1 DEF MovedRow, Ref, FullRef

LEMMA LoadedEditStands ==
    ASSUME NEW v \in Version, NEW x \in Edits(v), RowsShape(version[v].rows, version[v].last)
    PROVE  EditStands(x, version[v].rows, version[v].last)
  <1>1. PICK rows, last : rows = version[v].rows /\ last = version[v].last
    OBVIOUS
  <1>2. /\ RowsShape(rows, last) /\ \A id \in DOMAIN rows : rows[id] \in Ref /\ id \in 1..last
    BY <1>1 DEF RowsShape
  <1>3. CASE x \in Deletions(v)
    <2>1. PICK id : x = Edit("delete", v, id, NullRef)
      BY <1>3, Zenon DEF Deletions
    <2>2. x.kind = "delete"
      BY <2>1 DEF Edit
    <2> QED
      BY <2>2 DEF EditStands
  <1>4. CASE x \in Updates(v)
    <2>0. PICK id \in DOMAIN rows :
             /\ rows[id].ship # None
             /\ \E m \in MovedRow(v, id) : Accepts(rows, m, id) /\ x = Edit("update", v, id, m)
      BY <1>1, <1>4, Zenon DEF Updates
    <2>1. PICK m \in MovedRow(v, id) :
             rows[id].ship # None /\ Accepts(rows, m, id) /\ x = Edit("update", v, id, m)
      BY <2>0
    <2>2. m \in FullRef /\ m \in Ref /\ m.ship = rows[id].ship
      BY <1>1, <1>2, <2>1, MovedIsRef
    <2>3. x.kind = "update" /\ x.id = id /\ x.ref = m
      BY <2>1 DEF Edit
    <2> QED
      BY <1>1, <2>1, <2>2, <2>3 DEF EditStands
  <1>5. CASE x \in FormEdits(v)
    <2>0. PICK id \in DOMAIN rows : \E m \in MovedRow(v, id) : x = Edit("form", v, id, m)
      BY <1>1, <1>5, Zenon DEF FormEdits
    <2>1. PICK m \in MovedRow(v, id) : x = Edit("form", v, id, m)
      BY <2>0
    <2>2. m \in Ref
      BY <1>1, <1>2, <2>1, MovedIsRef
    <2>3. x.kind = "form" /\ x.id = id /\ x.ref = m /\ x.checked = FALSE
      BY <2>1 DEF Edit
    <2> QED
      BY <1>1, <1>2, <2>1, <2>2, <2>3 DEF EditStands
  <1>6. CASE x \in Additions(v)
    <2>1. PICK m \in FullRef : Accepts(rows, m, 0) /\ x = Edit("assign", v, 0, m)
      BY <1>1, <1>6, Zenon DEF Additions, FullRef
    <2>2. x.kind = "assign" /\ x.id = 0 /\ x.ref = m
      BY <2>1 DEF Edit
    <2>3. m \in Ref
      BY RefFields
    <2> QED
      BY <1>1, <2>1, <2>2, <2>3 DEF EditStands
  <1> QED
    BY <1>3, <1>4, <1>5, <1>6 DEF Edits

LEMMA LoadEditCareful ==
    ASSUME VersionsInv, CarefulInv, NEW r \in Request, NEW v \in Version, LoadEdit(r, v)
    PROVE  CarefulInv'
  <1>1. PICK x \in Edits(v) : req' = [req EXCEPT ![r] = x]
    BY DEF LoadEdit
  <1>2. x.v = v
    BY EditIs
  <1>3. Live(v) /\ UNCHANGED <<version, careless>>
    BY DEF LoadEdit, Live
  <1>4. EditStands(x, version[v].rows, version[v].last)
    BY LoadedEditStands DEF CarefulInv
  <1>5. req'[r] = x /\ \A s \in Request : s # r => req'[s] = req[s]
    BY <1>1 DEF VersionsInv, Shapes
  <1>6. ASSUME NEW s \in Request, Editing(s)'
        PROVE  /\ Live(req'[s].v)
               /\ EditStands(req'[s], version[req'[s].v].rows, version[req'[s].v].last)
    <2>1. CASE s = r
      BY <1>2, <1>3, <1>4, <1>5, <2>1
    <2>2. CASE s # r
      <3>1. req'[s] = req[s] /\ Editing(s)
        BY <1>5, <1>6, <2>2 DEF Editing
      <3> QED
        BY <3>1 DEF CarefulInv
    <2> QED
      BY <2>1, <2>2
  <1>7. /\ \A w \in Version : RowsShape(version'[w].rows, version'[w].last)
        /\ \A w \in Version \ careless' : Careful(version'[w].rows)
    BY <1>3 DEF CarefulInv
  <1> QED
    BY <1>3, <1>6, <1>7 DEF CarefulInv, Live

LEMMA DeleteRowCareful ==
    ASSUME VersionsInv, CarefulInv, NEW r \in Request, DeleteRow(r)
    PROVE  CarefulInv'
  <1>1. PICK v, rows, last : v = req[r].v /\ rows = version[v].rows /\ last = version[v].last
    OBVIOUS
  <1>2. Editing(r) /\ v \in Version /\ VersionShape(version[v]) /\ Live(v)
    BY <1>1, Kinds DEF DeleteRow, Editing, VersionsInv, Shapes, CarefulInv
  <1>3. PICK D : D = DOMAIN rows \ {req[r].id}
    OBVIOUS
  <1>4. PICK new : new = [id \in D |-> rows[id]]
    OBVIOUS
  <1>5. PICK x : x = [version[v] EXCEPT !.rows = new]
    OBVIOUS
  <1>6. x.status = version[v].status /\ x.rows = new /\ x.last = last
    BY <1>1, <1>2, <1>5, VersionWith
  <1>7. version' = [version EXCEPT ![v] = x] /\ UNCHANGED careless /\ Finish(r)
    BY <1>1, <1>2, <1>3, <1>4, <1>5 DEF DeleteRow
  <1>8. /\ version'[v] = x /\ \A w \in Version : w # v => version'[w] = version[w]
        /\ StaysLive
    BY <1>2, <1>6, <1>7, WrittenVersion
  <1>9. RowsShape(rows, last) /\ (v \notin careless => Careful(rows)) /\ D \in SUBSET DOMAIN rows
    BY <1>1, <1>2, <1>3 DEF CarefulInv
  <1>10. RowsShape(new, last)
    BY <1>4, <1>9 DEF RowsShape
  <1>11. ASSUME v \notin careless PROVE Careful(new)
    <2>1. PICK m : m = [id \in D |-> id]
      OBVIOUS
    <2>2. Renumbers(m, new, rows)
      BY <1>4, <1>9, <2>1 DEF Renumbers
    <2> QED
      BY <1>9, <1>10, <1>11, <2>2, FewerRowsCareful
  <1>12. /\ req'[r] = Idle /\ \A s \in Request : s # r => req'[s] = req[s]
    BY <1>7 DEF Finish, VersionsInv, Shapes
  <1>13. \A s \in Request : SameEdit(s)
    BY <1>12, PlainKinds DEF SameEdit, Editing
  <1>14. ASSUME NEW s \in Request, Editing(s)', req'[s].v = v
         PROVE  EditStands(req'[s], new, last)
    <2>1. PICK e : e = req[s]
      OBVIOUS
    <2>2. req'[s] = e /\ Editing(s) /\ e.v = v
      BY <1>12, <1>14, <2>1, PlainKinds DEF Editing
    <2>3. EditStands(e, rows, last)
      BY <1>1, <2>1, <2>2 DEF CarefulInv
    <2>4. \A i \in DOMAIN new : i \in DOMAIN rows /\ new[i] = rows[i]
      BY <1>4, <1>9
    <2>5. ASSUME e.kind \in {"update", "assign"}, e.checked PROVE Accepts(new, e.ref, e.id)
      <3>1. e.ref \in FullRef /\ Accepts(rows, e.ref, e.id)
        BY <2>3, <2>5 DEF EditStands
      <3> QED
        BY <1>4, <1>9, <3>1, FewerRowsAccept
    <2>6. EditStands(e, new, last)
      BY <2>3, <2>4, <2>5 DEF EditStands
    <2> QED
      BY <2>2, <2>6
  <1>15. version'[v].rows = new /\ version'[v].last = last
    BY <1>6, <1>8
  <1>16. careless \subseteq careless' /\ (v \notin careless' => Careful(new))
    BY <1>7, <1>11
  <1> QED
    BY <1>2, <1>8, <1>10, <1>13, <1>14, <1>15, <1>16, OneVersionChanges

LEMMA SaveRowCareful ==
    ASSUME VersionsInv, CarefulInv, NEW r \in Request, SaveRow(r)
    PROVE  CarefulInv'
  <1>1. PICK e, v, rows, last, id :
           /\ e = req[r] /\ v = e.v /\ rows = version[v].rows /\ last = version[v].last /\ id = e.id
    OBVIOUS
  <1>2. Editing(r) /\ v \in Version /\ VersionShape(version[v]) /\ Live(v)
    BY <1>1, Kinds DEF SaveRow, Editing, VersionsInv, Shapes, CarefulInv
  <1>3. PICK saved : saved = IF e.kind = "update" THEN [e.ref EXCEPT !.ship = rows[id].ship] ELSE e.ref
    OBVIOUS
  <1>4. PICK new : new = [i \in DOMAIN rows \cup {id} |-> IF i = id THEN saved ELSE rows[i]]
    OBVIOUS
  <1>5. /\ e.kind \in {"update", "form"} /\ (e.kind = "update" => id \in DOMAIN rows)
        /\ version' = [version EXCEPT ![v].rows = new]
        /\ careless' = IF e.checked THEN careless ELSE careless \cup {v}
        /\ req' = Unchecked(r, v)
    BY <1>1, <1>3, <1>4 DEF SaveRow
  <1>6. PICK x : x = [version[v] EXCEPT !.rows = new]
    OBVIOUS
  <1>7. x.status = version[v].status /\ x.rows = new /\ x.last = last
    BY <1>1, <1>2, <1>6, VersionWith
  <1>8. /\ version'[v] = x /\ \A w \in Version : w # v => version'[w] = version[w]
        /\ StaysLive
    <2>1. version' = [version EXCEPT ![v] = x]
      BY <1>2, <1>5, <1>6
    <2> QED
      BY <1>2, <1>7, <2>1, WrittenVersion
  <1>9. /\ RowsShape(rows, last) /\ last \in Nat /\ (v \notin careless => Careful(rows))
        /\ \A i \in DOMAIN rows : rows[i] \in Ref /\ i \in 1..last
    BY <1>1, <1>2 DEF CarefulInv, RowsShape
  <1>10. EditStands(e, rows, last)
    BY <1>1, <1>2 DEF CarefulInv
  <1>11. id \in 1..last
    BY <1>1, <1>5, <1>9, <1>10 DEF EditStands
  <1>12. saved \in Ref /\ (e.kind = "update" /\ e.ref \in FullRef /\ rows[id].ship = e.ref.ship => saved = e.ref)
    <2>1. e.ref \in Ref
      BY <1>5, <1>10 DEF EditStands
    <2>2. CASE e.kind = "update"
      <3>1. PICK ship \in Ships(RunWeek) \cup {None} : ship = rows[id].ship
        BY <1>5, <1>9, <2>2, RefFields
      <3>2. saved = [ship |-> ship, flight |-> e.ref.flight, vol |-> e.ref.vol]
        BY <1>3, <2>1, <2>2, <3>1 DEF Ref
      <3>3. e.ref = [ship |-> e.ref.ship, flight |-> e.ref.flight, vol |-> e.ref.vol]
        BY <2>1 DEF Ref
      <3>4. saved \in Ref
        BY <2>1, <3>1, <3>2 DEF Ref
      <3> QED
        BY <3>1, <3>2, <3>3, <3>4
    <2>3. CASE e.kind # "update"
      BY <1>3, <2>1, <2>3
    <2> QED
      BY <2>2, <2>3
  <1>13. RowsShape(new, last)
    <2>1. \A i \in DOMAIN rows \cup {id} : (IF i = id THEN saved ELSE rows[i]) \in Ref /\ i \in 1..last
      BY <1>9, <1>11, <1>12
    <2> HIDE DEF Ref
    <2> QED
      BY <1>4, <1>9, <2>1 DEF RowsShape
  <1>14. ASSUME v \notin careless' PROVE Careful(new)
    <2>1. e.checked /\ Careful(rows)
      BY <1>5, <1>9, <1>14
    <2>2. e.kind = "update"
      BY <1>5, <1>10, <2>1 DEF EditStands
    <2>3. e.ref \in FullRef /\ Accepts(rows, e.ref, id) /\ rows[id].ship = e.ref.ship
      BY <1>1, <1>5, <1>10, <2>1, <2>2 DEF EditStands
    <2>4. saved = e.ref
      BY <1>12, <2>2, <2>3
    <2>5. id \in Nat \ {0}
      BY <1>9, <1>11
    <2>6. PICK ref \in FullRef : ref = e.ref
      BY <2>3
    <2>7. new = [i \in DOMAIN rows \cup {id} |-> IF i = id THEN ref ELSE rows[i]]
      BY <1>4, <2>4, <2>6
    <2>8. Accepts(rows, ref, id)
      BY <2>3, <2>6
    <2> QED
      BY <1>9, <1>13, <2>1, <2>5, <2>7, <2>8, AcceptedRowCareful
  <1>15. \A s \in Request : SameEdit(s)
    BY <1>5, UncheckedFacts
  <1>16. \A s \in Request : Editing(s)' /\ req'[s].v = v => EditStands(req'[s], new, last)
    <2>1. last <= last
      BY <1>9
    <2> QED
      BY <1>1, <1>2, <1>5, <1>9, <2>1, OthersUnchecked
  <1>17. version'[v].rows = new /\ version'[v].last = last
    BY <1>7, <1>8
  <1>18. careless \subseteq careless'
    BY <1>5
  <1> QED
    BY <1>2, <1>8, <1>13, <1>14, <1>15, <1>16, <1>17, <1>18, OneVersionChanges

LEMMA AssignRowCareful ==
    ASSUME VersionsInv, CarefulInv, NEW r \in Request, AssignRow(r)
    PROVE  CarefulInv'
  <1>1. PICK e, v, rows, last, id :
           /\ e = req[r] /\ v = e.v /\ rows = version[v].rows /\ last = version[v].last
           /\ id = last + 1
    OBVIOUS
  <1>2. Editing(r) /\ v \in Version /\ VersionShape(version[v]) /\ Live(v) /\ e.kind = "assign"
    BY <1>1, Kinds DEF AssignRow, Editing, VersionsInv, Shapes, CarefulInv
  <1>3. PICK new : new = [i \in DOMAIN rows \cup {id} |-> IF i = id THEN e.ref ELSE rows[i]]
    OBVIOUS
  <1>4. /\ version' = [version EXCEPT ![v].last = id, ![v].rows = new]
        /\ careless' = IF e.checked THEN careless ELSE careless \cup {v}
        /\ req' = Unchecked(r, v)
    BY <1>1, <1>3 DEF AssignRow
  <1>5. PICK old, x : old = version[v] /\ x = [old EXCEPT !.last = id, !.rows = new]
    OBVIOUS
  <1>6. x.status = version[v].status /\ x.rows = new /\ x.last = id
    <2>1. VersionShape(old)
      BY <1>2, <1>5
    <2>2. x = [old EXCEPT !.last = id, !.rows = new]
      BY <1>5
    <2>3. PICK status, before, given :
             status \in Status /\ old = [status |-> status, rows |-> before, last |-> given]
      BY <2>1 DEF VersionShape
    <2>4. x = [status |-> status, rows |-> new, last |-> id]
      BY <2>2, <2>3
    <2> QED
      BY <1>5, <2>3, <2>4
  <1>7. /\ version'[v] = x /\ \A w \in Version : w # v => version'[w] = version[w]
        /\ StaysLive
    <2>1. version' = [version EXCEPT ![v] = x]
      BY <1>2, <1>4, <1>5
    <2> QED
      BY <1>2, <1>6, <2>1, WrittenVersion
  <1>8. /\ RowsShape(rows, last) /\ last \in Nat /\ (v \notin careless => Careful(rows))
        /\ \A i \in DOMAIN rows : rows[i] \in Ref /\ i \in 1..last
    BY <1>1, <1>2 DEF CarefulInv, RowsShape
  <1>9. /\ id \in Nat \ {0} /\ id \notin DOMAIN rows /\ 0 \notin DOMAIN rows /\ last <= id
        /\ id \in 1..id /\ \A i \in DOMAIN rows : i \in 1..id
    BY <1>1, <1>8
  <1>10. EditStands(e, rows, last)
    BY <1>1, <1>2 DEF CarefulInv
  <1>11. e.ref \in Ref /\ e.id = 0
    BY <1>2, <1>10 DEF EditStands
  <1>12. RowsShape(new, id)
    <2>1. \A i \in DOMAIN rows \cup {id} : (IF i = id THEN e.ref ELSE rows[i]) \in Ref /\ i \in 1..id
      BY <1>8, <1>9, <1>11
    <2> HIDE DEF Ref
    <2> QED
      BY <1>3, <1>9, <2>1 DEF RowsShape
  <1>13. ASSUME v \notin careless' PROVE Careful(new)
    <2>1. e.checked /\ Careful(rows)
      BY <1>4, <1>8, <1>13
    <2>2. e.ref \in FullRef /\ Accepts(rows, e.ref, 0)
      BY <1>2, <1>10, <1>11, <2>1 DEF EditStands
    <2>3. PICK ref \in FullRef : ref = e.ref
      BY <2>2
    <2>4. DOMAIN rows \ {0} = DOMAIN rows \ {id}
      BY <1>9
    <2>5. OnFlight(rows, ref.flight, 0) = OnFlight(rows, ref.flight, id)
      BY <2>4 DEF OnFlight
    <2>6. Accepts(rows, ref, id)
      BY <2>2, <2>3, <2>4, <2>5 DEF Accepts, FlightAccepts, VolAccepts
    <2>7. new = [i \in DOMAIN rows \cup {id} |-> IF i = id THEN ref ELSE rows[i]]
      BY <1>3, <2>3
    <2> QED
      BY <1>8, <1>9, <1>12, <2>1, <2>6, <2>7, AcceptedRowCareful
  <1>14. \A s \in Request : SameEdit(s)
    BY <1>4, UncheckedFacts
  <1>15. \A s \in Request : Editing(s)' /\ req'[s].v = v => EditStands(req'[s], new, id)
    BY <1>1, <1>2, <1>4, <1>9, OthersUnchecked
  <1>16. version'[v].rows = new /\ version'[v].last = id
    BY <1>6, <1>7
  <1>17. careless \subseteq careless'
    BY <1>4
  <1> QED
    BY <1>2, <1>7, <1>12, <1>13, <1>14, <1>15, <1>16, <1>17, OneVersionChanges

----------------------------------------------------------------------------
LEMMA CarefulStart ==
    ASSUME VersionsInit
    PROVE  CarefulInv
  <1>1. PICK rows : rows = <<>>
    OBVIOUS
  <1>2. DOMAIN rows = {} /\ rows = [i \in {} |-> NullRef]
    BY <1>1
  <1>3. RowsShape(rows, 0)
    BY <1>2 DEF RowsShape
  <1>4. Careful(rows)
    <2>1. rows = [i \in DOMAIN rows |-> NullRef]
      BY <1>2
    <2> QED
      BY <1>3, <2>1, NullRowsCareful
  <1>5. \A v \in Version : version[v].rows = rows /\ version[v].last = 0
    BY <1>1 DEF VersionsInit, NoVersion
  <1>6. \A r \in Request : ~ Editing(r)
    BY PlainKinds DEF VersionsInit, Editing
  <1> QED
    BY <1>3, <1>4, <1>5, <1>6 DEF CarefulInv

LEMMA CarefulStep ==
    ASSUME VersionsInv, CarefulInv, [VersionsNext]_versionVars
    PROVE  CarefulInv'
  <1>1. CASE UNCHANGED versionVars
    <2>1. StaysLive /\ \A s \in Request : SameEdit(s)
      BY <1>1 DEF versionVars, StaysLive, Live, SameEdit, Editing
    <2> QED
      BY <1>1, <2>1, RowsSame DEF versionVars
  <1>2. CASE VersionsNext
    <2>1. ASSUME NEW v \in Version, CloneVersion(v) PROVE CarefulInv'
      BY <2>1, CloneVersionCareful
    <2>2. ASSUME NEW r \in Request, \/ Abandon(r) \/ LoadSolve(r) \/ Supersede(r)
                                    \/ ClearDrafts(r) \/ CreateDrafts(r)
                                    \/ \E v \in Version : StartPublish(r, v) \/ LoadGenerate(r, v)
          PROVE  CarefulInv'
      BY <2>2, OthersCareful
    <2>3. ASSUME NEW r \in Request, SolveRun(r) \/ \E valid \in BOOLEAN : Prepare(r, valid)
          PROVE  CarefulInv'
      BY <2>3, SolveRunCareful, PrepareCareful
    <2>4. ASSUME NEW r \in Request, CommitPublish(r) \/ DeleteRow(r) \/ SaveRow(r) \/ AssignRow(r)
          PROVE  CarefulInv'
      BY <2>4, CommitPublishCareful, DeleteRowCareful, SaveRowCareful, AssignRowCareful
    <2>5. ASSUME NEW r \in Request, NEW v \in Version, LoadEdit(r, v) PROVE CarefulInv'
      BY <2>5, LoadEditCareful
    <2> QED
      BY <1>2, <2>1, <2>2, <2>3, <2>4, <2>5 DEF VersionsNext
  <1> QED
    BY <1>1, <1>2

\* Edits that were checked, and clones, keep what the solver gave: no flight above
\* its capacity, no volunteer in two places.
THEOREM CarefulPlansStay == VersionsSpec => []CarefulPlansHold
  <1>1. VersionsInit => CarefulInv
    BY CarefulStart
  <1>2. VersionsInv /\ CarefulInv /\ [VersionsNext]_versionVars => CarefulInv'
    BY CarefulStep
  <1>3. CarefulInv => CarefulPlansHold
    BY DEF CarefulInv, Careful, WithinCapacity, NoClash, CarefulPlansHold
  <1> QED
    BY <1>1, <1>2, <1>3, RunsRemember, PTL DEF VersionsSpec

-----------------------------------------------------------------------------
(***************************************************************************)
(* Ranks. R puts a set in order; the rank of an element is the number of   *)
(* elements under it.                                                      *)
(***************************************************************************)
Orders(R, S) ==
    /\ IsFiniteSet(S)
    /\ \A a \in S : <<a, a>> \notin R
    /\ \A a, b, c \in S : <<a, b>> \in R /\ <<b, c>> \in R => <<a, c>> \in R
    /\ \A a, b \in S : a # b => <<a, b>> \in R \/ <<b, a>> \in R
Under(R, S, a) == {b \in S : <<b, a>> \in R}

LEMMA OrdersLess ==
    ASSUME NEW R, NEW S, Orders(R, S), NEW T \in SUBSET S
    PROVE  Orders(R, T)
  <1>1. IsFiniteSet(T)
    BY FS_Subset DEF Orders
  <1> QED BY <1>1 DEF Orders

LEMMA RanksClimb ==
    ASSUME NEW R, NEW S, Orders(R, S), NEW a \in S
    PROVE  /\ IsFiniteSet(Under(R, S, a))
           /\ Cardinality(Under(R, S, a)) \in 0..(Cardinality(S) - 1)
           /\ \A b \in S : <<b, a>> \in R =>
                  Cardinality(Under(R, S, b)) < Cardinality(Under(R, S, a))
  <1>1. IsFiniteSet(S)
    BY DEF Orders
  <1>2. ASSUME NEW b \in S, NEW T \in SUBSET S, Under(R, S, b) \subseteq T, b \in T, IsFiniteSet(T)
        PROVE  Cardinality(Under(R, S, b)) < Cardinality(T)
    <2>1. b \notin Under(R, S, b)
      BY DEF Orders, Under
    <2>2. Under(R, S, b) # T
      BY <1>2, <2>1
    <2>3. IsFiniteSet(Under(R, S, b)) /\ Cardinality(Under(R, S, b)) <= Cardinality(T)
          /\ (Cardinality(Under(R, S, b)) = Cardinality(T) => Under(R, S, b) = T)
      BY <1>2, FS_Subset
    <2>4. Cardinality(Under(R, S, b)) \in Nat /\ Cardinality(T) \in Nat
      BY <1>2, <2>3, FS_CardinalityType
    <2> QED BY <2>2, <2>3, <2>4
  <1>3. Under(R, S, a) \in SUBSET S
    BY DEF Under
  <1>4. IsFiniteSet(Under(R, S, a)) /\ Cardinality(Under(R, S, a)) \in Nat /\ Cardinality(S) \in Nat
    BY <1>1, <1>3, FS_Subset, FS_CardinalityType
  <1>5. Cardinality(Under(R, S, a)) < Cardinality(S)
    BY <1>1, <1>2, <1>3
  <1>6. ASSUME NEW b \in S, <<b, a>> \in R
        PROVE  Cardinality(Under(R, S, b)) < Cardinality(Under(R, S, a))
    <2>1. Under(R, S, b) \subseteq Under(R, S, a) /\ b \in Under(R, S, a)
      BY <1>6 DEF Orders, Under
    <2> QED BY <1>2, <1>3, <1>4, <2>1
  <1> QED BY <1>4, <1>5, <1>6

LEMMA RanksDiffer ==
    ASSUME NEW R, NEW S, Orders(R, S), NEW a \in S, NEW b \in S,
           Cardinality(Under(R, S, a)) = Cardinality(Under(R, S, b))
    PROVE  a = b
  <1>1. <<a, b>> \notin R /\ <<b, a>> \notin R
    <2>1. Cardinality(Under(R, S, a)) \in Nat /\ Cardinality(Under(R, S, b)) \in Nat
      BY RanksClimb
    <2>2. <<a, b>> \in R => Cardinality(Under(R, S, a)) < Cardinality(Under(R, S, b))
      BY RanksClimb
    <2>3. <<b, a>> \in R => Cardinality(Under(R, S, b)) < Cardinality(Under(R, S, a))
      BY RanksClimb
    <2> QED BY <2>1, <2>2, <2>3
  <1> QED BY <1>1 DEF Orders

LEMMA RanksCover ==
    ASSUME NEW R, NEW S, Orders(R, S), NEW i \in 0..(Cardinality(S) - 1)
    PROVE  \E a \in S : Cardinality(Under(R, S, a)) = i
  <1> DEFINE n == Cardinality(S)
             rank == [a \in S |-> Cardinality(Under(R, S, a))]
  <1>1. IsFiniteSet(S) /\ n \in Nat
    BY FS_CardinalityType DEF Orders
  <1>2. rank \in [S -> 0..(n - 1)]
    BY RanksClimb
  <1>3. rank \in Injection(S, 0..(n - 1))
    <2>1. ASSUME NEW a \in S, NEW b \in S, rank[a] = rank[b] PROVE a = b
      BY <2>1, RanksDiffer
    <2> HIDE DEF rank
    <2> QED BY <1>2, <2>1 DEF Injection, IsInjective
  <1>4. IsFiniteSet(0..(n - 1)) /\ Cardinality(0..(n - 1)) = n
    <2>1. 0 \in Int /\ n - 1 \in Int
      BY <1>1
    <2>2. IsFiniteSet(0..(n - 1)) /\ Cardinality(0..(n - 1)) = IF 0 > n - 1 THEN 0 ELSE (n - 1) - 0 + 1
      BY <2>1, FS_Interval
    <2> HIDE DEF n
    <2> QED BY <1>1, <2>2
  <1>5. rank \in Surjection(S, 0..(n - 1))
    <2> HIDE DEF rank
    <2> QED BY <1>1, <1>3, <1>4, FS_Injection
  <1>6. PICK a \in S : rank[a] = i
    <2> HIDE DEF rank
    <2> QED BY <1>5 DEF Surjection
  <1> QED BY <1>6

\* The first n elements are n.
LEMMA FirstRanks ==
    ASSUME NEW R, NEW S, Orders(R, S), NEW n \in Nat, n <= Cardinality(S)
    PROVE  Cardinality({a \in S : Cardinality(Under(R, S, a)) < n}) = n
  <1> DEFINE T == {a \in S : Cardinality(Under(R, S, a)) < n}
             rank == [a \in T |-> Cardinality(Under(R, S, a))]
  <1>1. IsFiniteSet(S) /\ Cardinality(S) \in Nat
    BY FS_CardinalityType DEF Orders
  <1>2. IsFiniteSet(T)
    BY <1>1, FS_Subset
  <1>3. rank \in [T -> 0..(n - 1)]
    <2>1. ASSUME NEW a \in T PROVE rank[a] \in 0..(n - 1)
      <3>1. Cardinality(Under(R, S, a)) \in 0..(Cardinality(S) - 1)
        BY RanksClimb
      <3> QED BY <1>1, <3>1
    <2> QED BY <2>1
  <1>4. rank \in Bijection(T, 0..(n - 1))
    <2>1. ASSUME NEW a \in T, NEW b \in T, rank[a] = rank[b] PROVE a = b
      BY <2>1, RanksDiffer
    <2>2. ASSUME NEW i \in 0..(n - 1) PROVE \E a \in T : rank[a] = i
      <3>1. i \in 0..(Cardinality(S) - 1) /\ i < n
        BY <1>1
      <3>2. PICK a \in S : Cardinality(Under(R, S, a)) = i
        BY <3>1, RanksCover
      <3> QED BY <3>1, <3>2
    <2> HIDE DEF rank, T
    <2> QED BY <1>3, <2>1, <2>2 DEF Bijection, Injection, Surjection, IsInjective
  <1>5. IsFiniteSet(0..(n - 1)) /\ Cardinality(0..(n - 1)) = n
    <2>1. IsFiniteSet(0..(n - 1)) /\ Cardinality(0..(n - 1)) = IF 0 > n - 1 THEN 0 ELSE (n - 1) - 0 + 1
      BY FS_Interval
    <2> QED BY <2>1
  <1> HIDE DEF rank, T
  <1>6. Cardinality(T) = Cardinality(0..(n - 1))
    BY <1>2, <1>4, FS_Bijection DEF ExistsBijection
  <1> QED BY <1>5, <1>6 DEF T

\* The first of all.
LEMMA FirstExists ==
    ASSUME NEW R, NEW S, Orders(R, S), S # {}
    PROVE  \E a \in S : \A b \in S \ {a} : <<a, b>> \in R
  <1>1. IsFiniteSet(S) /\ Cardinality(S) \in Nat /\ Cardinality(S) # 0
    BY FS_CardinalityType, FS_EmptySet DEF Orders
  <1>2. PICK a \in S : Cardinality(Under(R, S, a)) = 0
    <2>1. 0 \in 0..(Cardinality(S) - 1)
      BY <1>1
    <2> QED BY <2>1, RanksCover
  <1>3. Under(R, S, a) = {}
    BY <1>2, RanksClimb, FS_EmptySet
  <1>4. ASSUME NEW b \in S \ {a} PROVE <<a, b>> \in R
    BY <1>3 DEF Orders, Under
  <1> QED BY <1>4

\* What comes first by its key.
ByKey(key, S) == {z \in S \X S : Before(key[z[1]], key[z[2]])}

-----------------------------------------------------------------------------
\* Tuples of numbers of one length are in order.
LEMMA BeforeOrders ==
    ASSUME NEW n \in Nat, NEW S, IsFiniteSet(S), NEW key \in [S -> [1..n -> Int]],
           \A s, t \in S : key[s] = key[t] => s = t
    PROVE  Orders(ByKey(key, S), S)
  <1> DEFINE R == ByKey(key, S)
  <1>1. ASSUME NEW s \in S, NEW t \in S
        PROVE  <<s, t>> \in R <=> \E i \in 1..n : key[s][i] < key[t][i] /\ \A j \in 1..(i - 1) : key[s][j] = key[t][j]
    BY DEF Before, ByKey
  <1>2. \A s \in S : \A i \in 1..n : key[s][i] \in Int
    OBVIOUS
  <1> HIDE DEF R
  <1>3. ASSUME NEW s \in S PROVE <<s, s>> \notin R
    BY <1>1, <1>2
  <1>4. ASSUME NEW s \in S, NEW t \in S, NEW u \in S, <<s, t>> \in R, <<t, u>> \in R
        PROVE  <<s, u>> \in R
    <2>1. PICK i \in 1..n : key[s][i] < key[t][i] /\ \A j \in 1..(i - 1) : key[s][j] = key[t][j]
      BY <1>1, <1>4
    <2>2. PICK k \in 1..n : key[t][k] < key[u][k] /\ \A j \in 1..(k - 1) : key[t][j] = key[u][j]
      BY <1>1, <1>4
    <2>3. CASE i <= k
      <3>1. key[s][i] < key[u][i]
        <4>1. key[t][i] <= key[u][i]
          BY <1>2, <2>2, <2>3
        <4> QED BY <1>2, <2>1, <4>1
      <3>2. \A j \in 1..(i - 1) : key[s][j] = key[u][j]
        BY <2>1, <2>2, <2>3
      <3> QED BY <1>1, <3>1, <3>2
    <2>4. CASE k < i
      <3>1. key[s][k] < key[u][k]
        <4>1. key[s][k] = key[t][k]
          BY <2>1, <2>4
        <4> QED BY <2>2, <4>1
      <3>2. \A j \in 1..(k - 1) : key[s][j] = key[u][j]
        BY <2>1, <2>2, <2>4
      <3> QED BY <1>1, <3>1, <3>2
    <2> QED BY <2>3, <2>4
  <1>5. ASSUME NEW s \in S, NEW t \in S, s # t PROVE <<s, t>> \in R \/ <<t, s>> \in R
    <2> DEFINE D == {i \in 1..n : key[s][i] # key[t][i]}
    <2>1. D # {}
      <3>1. key[s] # key[t] /\ key[s] \in [1..n -> Int] /\ key[t] \in [1..n -> Int]
        BY <1>5
      <3> QED BY <3>1
    <2>2. PICK i \in D : \A j \in D : i <= j
      <3>1. D \in SUBSET Nat
        OBVIOUS
      <3> HIDE DEF D
      <3> QED BY <2>1, <3>1, LeastNat
    <2>3. \A j \in 1..(i - 1) : key[s][j] = key[t][j]
      BY <2>2
    <2>4. key[s][i] < key[t][i] \/ key[t][i] < key[s][i]
      <3>1. key[s][i] \in Int /\ key[t][i] \in Int /\ key[s][i] # key[t][i]
        BY <1>2, <2>2
      <3> QED BY <3>1
    <2> QED BY <1>1, <2>2, <2>3, <2>4
  <1> QED BY <1>3, <1>4, <1>5 DEF Orders, R

LEMMA Pairs == ASSUME NEW a \in Int, NEW b \in Int PROVE <<a, b>> \in [1..2 -> Int]
  OBVIOUS
LEMMA Triples == ASSUME NEW a \in Int, NEW b \in Int, NEW c \in Int PROVE <<a, b, c>> \in [1..3 -> Int]
  OBVIOUS
LEMMA Quads == ASSUME NEW a \in Int, NEW b \in Int, NEW c \in Int, NEW d \in Int PROVE <<a, b, c, d>> \in [1..4 -> Int]
  OBVIOUS
LEMMA Quints == ASSUME NEW a \in Int, NEW b \in Int, NEW c \in Int, NEW d \in Int, NEW e \in Int PROVE <<a, b, c, d, e>> \in [1..5 -> Int]
  OBVIOUS

----------------------------------------------------------------------------
(***************************************************************************)
(* The solver's passes.                                                    *)
(***************************************************************************)
LEMMA WeekNumbers ==
    ASSUME NEW p, IsWeek(p)
    PROVE  /\ \A s \in Ships(p) :
                /\ s \in Int /\ p.ship[s].units \in Nat /\ p.ship[s].cartons \in Nat
                /\ p.ship[s].priority \in Int /\ Weight(p, s) \in Whole
                /\ Ordinal(p.ship[s].printed) \in Int /\ Ordinal(p.ship[s].packed) \in Int
           /\ \A f \in Flights(p) : Departure(p, f) \in Int
           /\ \A v \in Vols(p) : v \in Int /\ Load(p, v) \in Nat
           /\ \A S \in SUBSET Ships(p) : IsFiniteSet(S)
           /\ \A S \in SUBSET Vols(p) : IsFiniteSet(S)
  <1>1. ASSUME NEW s \in Ships(p)
        PROVE  /\ s \in Int /\ p.ship[s].units \in Nat /\ p.ship[s].cartons \in Nat
               /\ p.ship[s].priority \in Int
               /\ Ordinal(p.ship[s].printed) \in Int /\ Ordinal(p.ship[s].packed) \in Int
    BY DEF IsWeek, Ordinal
  <1>2. ASSUME NEW s \in Ships(p) PROVE Weight(p, s) \in Whole
    <2>1. p.ship[s].units \in Int /\ p.ship[s].rank \in Int
      BY DEF IsWeek
    <2>2. (IF p.ship[s].rank < 10 THEN 10 - p.ship[s].rank ELSE 0) \in Int
      BY <2>1
    <2>3. \A a, b \in Int : a * b \in Int
      OBVIOUS
    <2> QED BY <2>1, <2>2, <2>3 DEF Weight, Whole
  <1>3. \A f \in Flights(p) : Departure(p, f) \in Int
    BY DEF IsWeek, Departure, Day
  <1>4. \A v \in Vols(p) : v \in Int /\ Load(p, v) \in Nat
    BY DEF IsWeek, Load, DefaultLoad
  <1>5. \A S \in SUBSET Ships(p) : IsFiniteSet(S)
    BY FS_Subset DEF IsWeek
  <1>6. \A S \in SUBSET Vols(p) : IsFiniteSet(S)
    BY FS_Subset DEF IsWeek
  <1> QED BY <1>1, <1>2, <1>3, <1>4, <1>5, <1>6

LEMMA PlanShape ==
    ASSUME NEW p, IsWeek(p), NEW x \in Plans(p)
    PROVE  /\ DOMAIN x \in SUBSET Ships(p) /\ IsFiniteSet(DOMAIN x)
           /\ x \in [DOMAIN x -> Flights(p) \X Vols(p)]
           /\ \A s \in DOMAIN x : /\ x[s] = <<FlightOf(x, s), VolOf(x, s)>>
                                  /\ FlightOf(x, s) \in Flights(p) /\ VolOf(x, s) \in Vols(p)
  <1>1. PICK S \in SUBSET Ships(p) : x \in [S -> Flights(p) \X Vols(p)]
    BY DEF Plans
  <1>2. DOMAIN x = S /\ IsFiniteSet(S)
    BY <1>1, WeekNumbers
  <1> QED BY <1>1, <1>2 DEF FlightOf, VolOf

\* The orders the passes go by.
ByTie(p, S) == {z \in S \X S : Ahead(p, z[1], z[2])}
ByAssignment(p, S) == {z \in S \X S : Before(AssignmentKey(p, z[1]), AssignmentKey(p, z[2]))}
BySlot(p, x, S) == {z \in S \X S : Before(SlotKey(p, x, z[1]), SlotKey(p, x, z[2]))}

LEMMA ByTieOrders ==
    ASSUME NEW p, IsWeek(p), NEW S \in SUBSET Ships(p)
    PROVE  Orders(ByTie(p, S), S)
  <1> DEFINE key == [s \in S |-> TieBreakKey(p, s)]
             R == ByKey(key, S)
  <1>1. \A s \in S : TieBreakKey(p, s) \in [1..4 -> Int] /\ TieBreakKey(p, s)[4] = -s /\ s \in Int
    <2> SUFFICES ASSUME NEW s \in S
                 PROVE  TieBreakKey(p, s) \in [1..4 -> Int] /\ TieBreakKey(p, s)[4] = -s /\ s \in Int
      OBVIOUS
    <2>1. s \in Int /\ Ordinal(p.ship[s].printed) \in Int /\ Ordinal(p.ship[s].packed) \in Int
      BY WeekNumbers
    <2>2. Flag(p.ship[s].left # None) \in Int /\ -s \in Int
      BY <2>1 DEF Flag
    <2> QED BY <2>1, <2>2, Quads DEF TieBreakKey
  <1>2. key \in [S -> [1..4 -> Int]]
    BY <1>1
  <1>3. ASSUME NEW s \in S, NEW t \in S, key[s] = key[t] PROVE s = t
    <2>1. -s = -t /\ s \in Int /\ t \in Int
      BY <1>1, <1>3
    <2> QED BY <2>1
  <1>4. Orders(R, S)
    <2>1. 4 \in Nat /\ IsFiniteSet(S)
      BY WeekNumbers
    <2> HIDE DEF key
    <2> QED BY <1>2, <1>3, <2>1, BeforeOrders
  <1>5. \A s, t \in S : <<s, t>> \in ByTie(p, S) <=> <<t, s>> \in R
    BY DEF ByTie, Ahead, ByKey
  <1> HIDE DEF R
  <1> QED BY <1>4, <1>5 DEF Orders

LEMMA ByAssignmentOrders ==
    ASSUME NEW p, IsWeek(p), NEW S \in SUBSET Ships(p)
    PROVE  Orders(ByAssignment(p, S), S)
  <1> DEFINE key == [s \in S |-> AssignmentKey(p, s)]
             R == ByKey(key, S)
  <1>1. \A s \in S : AssignmentKey(p, s) \in [1..5 -> Int] /\ AssignmentKey(p, s)[5] = s
    <2> SUFFICES ASSUME NEW s \in S
                 PROVE  AssignmentKey(p, s) \in [1..5 -> Int] /\ AssignmentKey(p, s)[5] = s
      OBVIOUS
    <2>1. /\ s \in Int /\ Ordinal(p.ship[s].printed) \in Int /\ Ordinal(p.ship[s].packed) \in Int
          /\ p.ship[s].priority \in Int
      BY WeekNumbers
    <2>2. Flag(p.ship[s].left = None) \in Int
      BY DEF Flag
    <2> QED BY <2>1, <2>2, Quints DEF AssignmentKey
  <1>2. key \in [S -> [1..5 -> Int]] /\ \A s, t \in S : key[s] = key[t] => s = t
    BY <1>1
  <1>3. Orders(R, S)
    <2>1. 5 \in Nat /\ IsFiniteSet(S)
      BY WeekNumbers
    <2> HIDE DEF key
    <2> QED BY <1>2, <2>1, BeforeOrders
  <1>4. R = ByAssignment(p, S)
    BY DEF ByAssignment, ByKey
  <1> QED BY <1>3, <1>4

LEMMA BySlotOrders ==
    ASSUME NEW p, IsWeek(p), NEW x \in Plans(p), NEW S \in SUBSET DOMAIN x
    PROVE  Orders(BySlot(p, x, S), S)
  <1> DEFINE key == [s \in S |-> SlotKey(p, x, s)]
             R == ByKey(key, S)
  <1>1. \A s \in S : SlotKey(p, x, s) \in [1..2 -> Int] /\ SlotKey(p, x, s)[2] = s
    <2> SUFFICES ASSUME NEW s \in S
                 PROVE  SlotKey(p, x, s) \in [1..2 -> Int] /\ SlotKey(p, x, s)[2] = s
      OBVIOUS
    <2>1. s \in Ships(p) /\ FlightOf(x, s) \in Flights(p)
      BY PlanShape
    <2>2. s \in Int /\ Departure(p, FlightOf(x, s)) \in Int
      BY <2>1, WeekNumbers
    <2> QED BY <2>2, Pairs DEF SlotKey
  <1>2. key \in [S -> [1..2 -> Int]] /\ \A s, t \in S : key[s] = key[t] => s = t
    BY <1>1
  <1>3. Orders(R, S)
    <2>1. 2 \in Nat /\ IsFiniteSet(S)
      BY PlanShape, FS_Subset
    <2> HIDE DEF key
    <2> QED BY <1>2, <2>1, BeforeOrders
  <1>4. R = BySlot(p, x, S)
    BY DEF BySlot, ByKey
  <1> QED BY <1>3, <1>4

-----------------------------------------------------------------------------
LEMMA ForemostMany ==
    ASSUME NEW p, IsWeek(p), NEW S \in SUBSET Ships(p), NEW n \in Nat, n <= Cardinality(S)
    PROVE  Foremost(p, S, n) \in SUBSET S /\ Cardinality(Foremost(p, S, n)) = n
  <1> DEFINE R == ByTie(p, S)
  <1>1. Orders(R, S)
    BY ByTieOrders
  <1>2. \A s \in S : Under(R, S, s) = {t \in S : Ahead(p, t, s)}
    BY DEF Under, ByTie
  <1>3. Foremost(p, S, n) = {s \in S : Cardinality(Under(R, S, s)) < n}
    BY <1>2 DEF Foremost
  <1> HIDE DEF R
  <1>4. Cardinality({s \in S : Cardinality(Under(R, S, s)) < n}) = n
    BY <1>1, FirstRanks
  <1> QED BY <1>3, <1>4

\* Those of a group that are served: one of each shipper, or each of another one.
Shippers(p, S) == {p.ship[s].shipper : s \in S}

LEMMA PreferredMany ==
    ASSUME NEW p, IsWeek(p), NEW group \in SUBSET Ships(p), NEW n \in Nat, n <= Cardinality(group)
    PROVE  /\ Preferred(p, group, n) \in SUBSET group /\ Cardinality(Preferred(p, group, n)) = n
           /\ \/ Shippers(p, Preferred(p, group, n)) = Shippers(p, group)
              \/ Cardinality(Shippers(p, Preferred(p, group, n))) = n
  <1> DEFINE heads == {s \in group : \A t \in group :
                          p.ship[t].shipper = p.ship[s].shipper => ~ Ahead(p, t, s)}
             others == group \ heads
             R == ByTie(p, group)
  <1>1. IsFiniteSet(group) /\ heads \in SUBSET group /\ IsFiniteSet(heads) /\ IsFiniteSet(others)
        /\ heads \in SUBSET Ships(p) /\ others \in SUBSET Ships(p)
    BY WeekNumbers, FS_Subset
  <1>2. Orders(R, group)
    BY ByTieOrders
  <1>3. \A s, t \in group : <<s, t>> \in R <=> Ahead(p, s, t)
    BY DEF ByTie
  <1> HIDE DEF R
  <1>4. ASSUME NEW s \in heads, NEW t \in heads, p.ship[s].shipper = p.ship[t].shipper PROVE s = t
    <2>1. ~ Ahead(p, t, s) /\ ~ Ahead(p, s, t)
      BY <1>4
    <2> QED BY <1>2, <1>3, <2>1 DEF Orders
  <1>5. ASSUME NEW s \in group PROVE \E h \in heads : p.ship[h].shipper = p.ship[s].shipper
    <2> DEFINE S == {t \in group : p.ship[t].shipper = p.ship[s].shipper}
    <2>1. S \in SUBSET group /\ S # {}
      OBVIOUS
    <2>2. PICK h \in S : \A t \in S \ {h} : <<h, t>> \in R
      <3>1. Orders(R, S)
        <4> HIDE DEF S
        <4> QED BY <1>2, <2>1, OrdersLess
      <3> HIDE DEF S
      <3> QED BY <2>1, <3>1, FirstExists
    <2>3. ASSUME NEW t \in S PROVE ~ Ahead(p, t, h)
      <3>1. t # h => <<h, t>> \in R
        BY <2>2
      <3>2. <<t, h>> \notin R
        BY <1>2, <2>1, <3>1 DEF Orders
      <3> QED BY <1>3, <2>1, <3>2
    <2> QED BY <2>2, <2>3
  <1>6. CASE n <= Cardinality(heads)
    <2> DEFINE T == Foremost(p, heads, n)
    <2>1. Preferred(p, group, n) = T
      BY <1>6 DEF Preferred
    <2>2. T \in SUBSET heads /\ Cardinality(T) = n
      <3> HIDE DEF heads
      <3> QED BY <1>1, <1>6, ForemostMany
    <2>3. Cardinality(Shippers(p, T)) = n
      <3> DEFINE m == [s \in T |-> p.ship[s].shipper]
      <3>1. m \in Bijection(T, Shippers(p, T))
        <4>1. m \in [T -> Shippers(p, T)] /\ \A a \in Shippers(p, T) : \E s \in T : m[s] = a
          BY DEF Shippers
        <4>2. \A s, t \in T : m[s] = m[t] => s = t
          <5> HIDE DEF heads, T
          <5> QED BY <1>4, <2>2
        <4> HIDE DEF m
        <4> QED BY <4>1, <4>2 DEF Bijection, Injection, Surjection, IsInjective
      <3>2. IsFiniteSet(T)
        BY <1>1, <2>2, FS_Subset
      <3> HIDE DEF m
      <3> QED BY <2>2, <3>1, <3>2, FS_Bijection DEF ExistsBijection
    <2> QED BY <1>1, <2>1, <2>2, <2>3
  <1>7. CASE ~ (n <= Cardinality(heads))
    <2> DEFINE k == n - Cardinality(heads)  T == Foremost(p, others, k)
    <2>1. Preferred(p, group, n) = heads \cup T
      BY <1>7 DEF Preferred
    <2>2. /\ Cardinality(heads) \in Nat /\ Cardinality(others) \in Nat
          /\ Cardinality(others) = Cardinality(group) - Cardinality(heads) /\ Cardinality(group) \in Nat
      <3>1. group \cap heads = heads
        BY <1>1
      <3> HIDE DEF heads
      <3> QED BY <1>1, <3>1, FS_CardinalityType, FS_Difference
    <2>3. k \in Nat /\ k <= Cardinality(others)
      <3> HIDE DEF heads, others
      <3> QED BY <1>7, <2>2
    <2>4. T \in SUBSET others /\ Cardinality(T) = k
      <3> HIDE DEF heads, others, k
      <3> QED BY <1>1, <2>3, ForemostMany
    <2>5. Cardinality(heads \cup T) = n
      <3>1. heads \cap T = {} /\ IsFiniteSet(T) /\ Cardinality({}) = 0
        BY <1>1, <2>4, FS_Subset, FS_EmptySet
      <3>2. Cardinality(heads \cup T) = Cardinality(heads) + Cardinality(T) - 0
        <4> HIDE DEF heads, T
        <4> QED BY <1>1, <3>1, FS_Union
      <3> HIDE DEF heads, T
      <3> QED BY <2>2, <2>4, <3>2
    <2>6. heads \cup T \in SUBSET group
      BY <2>4
    <2>7. Shippers(p, heads \cup T) = Shippers(p, group)
      <3> HIDE DEF heads, T
      <3> QED BY <1>1, <1>5, <2>6 DEF Shippers
    <2> QED BY <2>1, <2>5, <2>6, <2>7
  <1> QED BY <1>6, <1>7

\* Nobody else has the place of the taker s.
LEMMA SlotsTaken ==
    ASSUME NEW p, IsWeek(p), NEW x \in Plans(p), NEW g \in SUBSET Ships(p)
    PROVE  /\ Takers(p, x, g) \in SUBSET g
           /\ Cardinality(Takers(p, x, g)) = Cardinality(g \cap DOMAIN x)
           /\ \A s \in Takers(p, x, g) : Slot(p, x, g, s) \in g \cap DOMAIN x
           /\ \A s, t \in Takers(p, x, g) : Slot(p, x, g, s) = Slot(p, x, g, t) => s = t
  <1> DEFINE T == Takers(p, x, g)  D == g \cap DOMAIN x
             Q == ByAssignment(p, T)  R == BySlot(p, x, D)
  <1>1. IsFiniteSet(g) /\ IsFiniteSet(D) /\ D \in SUBSET g /\ D \in SUBSET DOMAIN x
    BY WeekNumbers, FS_Subset
  <1>2. Cardinality(D) \in Nat /\ Cardinality(D) <= Cardinality(g)
    <2> HIDE DEF D
    <2> QED BY <1>1, FS_CardinalityType, FS_Subset
  <1>3. T \in SUBSET g /\ Cardinality(T) = Cardinality(D)
    <2>1. T = Preferred(p, g, Cardinality(D))
      BY DEF Takers
    <2> HIDE DEF T, D
    <2> QED BY <1>2, <2>1, PreferredMany
  <1>4. Orders(Q, T)
    <2>1. T \in SUBSET Ships(p)
      BY <1>3
    <2> HIDE DEF T
    <2> QED BY <2>1, ByAssignmentOrders
  <1>5. Orders(R, D)
    <2> HIDE DEF D
    <2> QED BY <1>1, BySlotOrders
  <1>6. \A s \in T : TakersBefore(p, x, g, s) = Under(Q, T, s)
    BY DEF TakersBefore, Under, ByAssignment
  <1>7. \A t \in D : SlotsBefore(p, x, g, t) = Under(R, D, t)
    BY DEF SlotsBefore, Under, BySlot
  <1> HIDE DEF Q, R
  <1>8. ASSUME NEW s \in T
        PROVE  /\ Slot(p, x, g, s) \in D
               /\ Cardinality(Under(R, D, Slot(p, x, g, s))) = Cardinality(Under(Q, T, s))
    <2>1. Cardinality(Under(Q, T, s)) \in 0..(Cardinality(T) - 1)
      <3> HIDE DEF T, D
      <3> QED BY <1>4, RanksClimb
    <2>2. PICK t \in D : Cardinality(Under(R, D, t)) = Cardinality(Under(Q, T, s))
      <3> HIDE DEF T, D
      <3> QED BY <1>3, <1>5, <2>1, RanksCover
    <2>3. Slot(p, x, g, s) = CHOOSE u \in D : Cardinality(SlotsBefore(p, x, g, u)) = Cardinality(TakersBefore(p, x, g, s))
      BY DEF Slot
    <2>4. Cardinality(SlotsBefore(p, x, g, t)) = Cardinality(TakersBefore(p, x, g, s))
      BY <1>6, <1>7, <2>2
    <2>5. /\ Slot(p, x, g, s) \in D
          /\ Cardinality(SlotsBefore(p, x, g, Slot(p, x, g, s))) = Cardinality(TakersBefore(p, x, g, s))
      <3> HIDE DEF T, D
      <3> QED BY <2>3, <2>4
    <2> QED BY <1>6, <1>7, <2>5
  <1>9. ASSUME NEW s \in T, NEW t \in T, Slot(p, x, g, s) = Slot(p, x, g, t) PROVE s = t
    <2>1. Cardinality(Under(Q, T, s)) = Cardinality(Under(Q, T, t))
      BY <1>8, <1>9
    <2> HIDE DEF T, D
    <2> QED BY <1>4, <2>1, RanksDiffer
  <1> QED BY <1>3, <1>8, <1>9

LEMMA SlotsCovered ==
    ASSUME NEW p, IsWeek(p), NEW x \in Plans(p), NEW g \in SUBSET Ships(p), NEW t \in g \cap DOMAIN x
    PROVE  \E s \in Takers(p, x, g) : Slot(p, x, g, s) = t
  <1> DEFINE T == Takers(p, x, g)  D == g \cap DOMAIN x  m == [s \in T |-> Slot(p, x, g, s)]
  <1>1. IsFiniteSet(D) /\ Cardinality(T) = Cardinality(D)
    BY SlotsTaken, WeekNumbers, FS_Subset
  <1>2. m \in Injection(T, D)
    <2>1. m \in [T -> D] /\ \A s, u \in T : m[s] = m[u] => s = u
      BY SlotsTaken
    <2> HIDE DEF m
    <2> QED BY <2>1 DEF Injection, IsInjective
  <1>3. m \in Surjection(T, D)
    <2> HIDE DEF m, T, D
    <2> QED BY <1>1, <1>2, FS_Injection
  <1>4. PICK s \in T : m[s] = t
    <2> HIDE DEF m
    <2> QED BY <1>3 DEF Surjection
  <1> QED BY <1>4

\* y is x but for trades: each shipment of y has the place that one of the same group,
\* its own or another's, had in x.
Trades(p, x, y, m, w) ==
    /\ x \in Plans(p) /\ y \in Plans(p)
    /\ m \in [DOMAIN y -> DOMAIN x] /\ w \in [DOMAIN x -> DOMAIN y]
    /\ \A s \in DOMAIN y : w[m[s]] = s /\ y[s] = x[m[s]] /\ GroupKey(p, s) = GroupKey(p, m[s])
    /\ \A t \in DOMAIN x : m[w[t]] = t

LEMMA SameFacts ==
    ASSUME NEW p, NEW s \in Ships(p)
    PROVE  /\ s \in Same(p, s) /\ Same(p, s) \in SUBSET Ships(p)
           /\ \A t \in Same(p, s) : Same(p, t) = Same(p, s) /\ GroupKey(p, t) = GroupKey(p, s)
           /\ \A g : (\E t \in Ships(p) : g = Same(p, t)) /\ s \in g => g = Same(p, s)
  BY DEF Same

LEMMA CanonicalTrades ==
    ASSUME NEW p, IsWeek(p), NEW x \in Plans(p)
    PROVE  \E m, w : Trades(p, x, Canonicalized(p, x), m, w)
  <1> DEFINE y == Canonicalized(p, x)
             traded(s) == Same(p, s) \in Contested(p, x)
             m == [s \in DOMAIN y |-> IF traded(s) THEN Slot(p, x, Same(p, s), s) ELSE s]
             back(t) == CHOOSE s \in Takers(p, x, Same(p, t)) : Slot(p, x, Same(p, t), s) = t
             w == [t \in DOMAIN x |-> IF traded(t) THEN back(t) ELSE t]
  <1>1. /\ DOMAIN y = {s \in Ships(p) : IF traded(s) THEN s \in Takers(p, x, Same(p, s)) ELSE s \in DOMAIN x}
        /\ \A s \in DOMAIN y : y[s] = IF traded(s) THEN x[Slot(p, x, Same(p, s), s)] ELSE x[s]
        /\ y = [s \in DOMAIN y |-> y[s]]
    BY DEF Canonicalized
  <1> HIDE DEF y
  <1>2. DOMAIN x \in SUBSET Ships(p) /\ x \in [DOMAIN x -> Flights(p) \X Vols(p)]
    BY PlanShape
  <1>3. ASSUME NEW s \in DOMAIN y, traded(s)
        PROVE  /\ s \in Ships(p) /\ s \in Takers(p, x, Same(p, s))
               /\ m[s] = Slot(p, x, Same(p, s), s) /\ m[s] \in Same(p, s) \cap DOMAIN x
               /\ Same(p, m[s]) = Same(p, s) /\ GroupKey(p, s) = GroupKey(p, m[s])
    <2>1. s \in Ships(p) /\ s \in Takers(p, x, Same(p, s)) /\ m[s] = Slot(p, x, Same(p, s), s)
      BY <1>1, <1>3
    <2>2. Same(p, s) \in SUBSET Ships(p)
      BY <2>1, SameFacts
    <2>3. Slot(p, x, Same(p, s), s) \in Same(p, s) \cap DOMAIN x
      BY <2>1, <2>2, SlotsTaken
    <2> HIDE DEF m
    <2> QED BY <2>1, <2>3, SameFacts
  <1>4. ASSUME NEW t \in DOMAIN x, traded(t)
        PROVE  /\ w[t] = back(t) /\ w[t] \in Takers(p, x, Same(p, t)) /\ Slot(p, x, Same(p, t), w[t]) = t
               /\ w[t] \in Ships(p) /\ Same(p, w[t]) = Same(p, t) /\ w[t] \in DOMAIN y
    <2>1. t \in Ships(p) /\ w[t] = back(t)
      BY <1>2, <1>4
    <2>2. Same(p, t) \in SUBSET Ships(p) /\ t \in Same(p, t) \cap DOMAIN x
      BY <2>1, SameFacts
    <2>3. \E s \in Takers(p, x, Same(p, t)) : Slot(p, x, Same(p, t), s) = t
      BY <2>2, SlotsCovered
    <2>4. back(t) \in Takers(p, x, Same(p, t)) /\ Slot(p, x, Same(p, t), back(t)) = t
      BY <2>3
    <2>5. back(t) \in Same(p, t) /\ back(t) \in Ships(p)
      BY <2>2, <2>4, SlotsTaken
    <2>6. Same(p, back(t)) = Same(p, t)
      BY <2>1, <2>5, SameFacts
    <2> HIDE DEF back, w
    <2> QED BY <1>1, <1>4, <2>1, <2>4, <2>5, <2>6
  <1>5. ASSUME NEW s \in DOMAIN y, ~ traded(s)
        PROVE  s \in Ships(p) /\ s \in DOMAIN x /\ m[s] = s /\ w[s] = s /\ y[s] = x[s]
    BY <1>1, <1>5
  <1>6. ASSUME NEW t \in DOMAIN x, ~ traded(t) PROVE w[t] = t /\ t \in DOMAIN y /\ m[t] = t
    BY <1>1, <1>2, <1>6
  <1>7. m = [s \in DOMAIN y |-> m[s]] /\ w = [t \in DOMAIN x |-> w[t]]
    OBVIOUS
  <1> HIDE DEF m, w, back
  <1>8. ASSUME NEW s \in DOMAIN y
        PROVE  /\ m[s] \in DOMAIN x /\ w[m[s]] = s /\ y[s] = x[m[s]] /\ GroupKey(p, s) = GroupKey(p, m[s])
    <2>1. CASE traded(s)
      <3>1. /\ m[s] = Slot(p, x, Same(p, s), s) /\ m[s] \in DOMAIN x /\ s \in Takers(p, x, Same(p, s))
            /\ Same(p, m[s]) = Same(p, s) /\ GroupKey(p, s) = GroupKey(p, m[s]) /\ s \in Ships(p)
        BY <1>3, <2>1
      <3>2. traded(m[s])
        BY <2>1, <3>1
      <3>3. w[m[s]] \in Takers(p, x, Same(p, s)) /\ Slot(p, x, Same(p, s), w[m[s]]) = m[s]
        BY <1>4, <3>1, <3>2
      <3>4. Same(p, s) \in SUBSET Ships(p)
        BY <3>1, SameFacts
      <3>5. w[m[s]] = s
        BY <3>1, <3>3, <3>4, SlotsTaken
      <3>6. y[s] = x[m[s]]
        BY <1>1, <2>1, <3>1
      <3> QED BY <3>1, <3>5, <3>6
    <2>2. CASE ~ traded(s)
      BY <1>5, <2>2
    <2> QED BY <2>1, <2>2
  <1>9. ASSUME NEW t \in DOMAIN x PROVE w[t] \in DOMAIN y /\ m[w[t]] = t
    <2>1. CASE traded(t)
      <3>1. /\ w[t] \in DOMAIN y /\ Same(p, w[t]) = Same(p, t) /\ Slot(p, x, Same(p, t), w[t]) = t
        BY <1>4, <2>1
      <3>2. traded(w[t])
        BY <2>1, <3>1
      <3> QED BY <1>3, <3>1, <3>2
    <2>2. CASE ~ traded(t)
      BY <1>6, <2>2
    <2> QED BY <2>1, <2>2
  <1>10. y \in Plans(p)
    <2>1. DOMAIN y \in SUBSET Ships(p)
      BY <1>1
    <2>2. \A s \in DOMAIN y : y[s] \in Flights(p) \X Vols(p)
      BY <1>2, <1>8
    <2> QED BY <1>1, <2>1, <2>2 DEF Plans
  <1>11. m \in [DOMAIN y -> DOMAIN x] /\ w \in [DOMAIN x -> DOMAIN y]
    BY <1>7, <1>8, <1>9
  <1>12. Trades(p, x, y, m, w)
    BY <1>8, <1>9, <1>10, <1>11 DEF Trades
  <1> QED BY <1>12 DEF y

----------------------------------------------------------------------------
LEMMA KeyFacts ==
    ASSUME NEW p, NEW s, NEW t, GroupKey(p, s) = GroupKey(p, t)
    PROVE  /\ p.ship[s].units = p.ship[t].units /\ p.ship[s].cartons = p.ship[t].cartons
           /\ Compatible(p, s) = Compatible(p, t) /\ Weight(p, s) = Weight(p, t)
  BY DEF GroupKey, Weight

WeightOf(p, S) == SumFunction([s \in S |-> Weight(p, s)])

\* A trade leaves as many shipments as there were on each flight and with each volunteer,
\* of the same size.
LEMMA TradesMatch ==
    ASSUME NEW p, IsWeek(p), NEW x, NEW y, NEW m, NEW w, Trades(p, x, y, m, w),
           NEW A \in SUBSET DOMAIN y, NEW B \in SUBSET DOMAIN x, \A s \in DOMAIN y : s \in A <=> m[s] \in B
    PROVE  /\ Cardinality(A) = Cardinality(B) /\ Units(p, A) = Units(p, B)
           /\ Cartons(p, A) = Cartons(p, B) /\ WeightOf(p, A) = WeightOf(p, B)
  <1> DEFINE to == [s \in A |-> m[s]]  from == [t \in B |-> w[t]]
  <1>1. /\ x \in Plans(p) /\ y \in Plans(p) /\ m \in [DOMAIN y -> DOMAIN x] /\ w \in [DOMAIN x -> DOMAIN y]
        /\ \A s \in DOMAIN y : w[m[s]] = s /\ GroupKey(p, s) = GroupKey(p, m[s])
        /\ \A t \in DOMAIN x : m[w[t]] = t
    BY DEF Trades
  <1>2. A \in SUBSET Ships(p) /\ B \in SUBSET Ships(p)
    BY <1>1, PlanShape
  <1>3. IsFiniteSet(A) /\ IsFiniteSet(B)
    BY <1>2, WeekNumbers
  <1>4. to \in [A -> B] /\ from \in [B -> A]
    BY <1>1
  <1>5. \A s \in A : to[s] = m[s] /\ from[to[s]] = s /\ GroupKey(p, s) = GroupKey(p, to[s])
    BY <1>1
  <1>6. \A t \in B : to[from[t]] = t
    BY <1>1
  <1> HIDE DEF to, from
  <1>7. to \in Bijection(A, B)
    BY <1>4, <1>5, <1>6 DEF Bijection, Injection, Surjection, IsInjective
  <1>8. Cardinality(A) = Cardinality(B)
    BY <1>3, <1>7, FS_Bijection DEF ExistsBijection
  <1>9. ASSUME NEW size \in [A -> Whole], NEW tall \in [B -> Whole], \A s \in A : size[s] = tall[to[s]]
        PROVE  SumFunction(size) = SumFunction(tall)
    BY <1>3, <1>4, <1>5, <1>6, <1>9, IntSumRenamed
  <1>10. Units(p, A) = Units(p, B)
    <2> DEFINE size == [s \in A |-> p.ship[s].units]  tall == [t \in B |-> p.ship[t].units]
    <2>1. size \in [A -> Whole] /\ tall \in [B -> Whole]
      BY <1>2, WeekNumbers DEF Whole
    <2>2. \A s \in A : size[s] = tall[to[s]]
      BY <1>4, <1>5, KeyFacts
    <2>3. SumFunction(size) = SumFunction(tall)
      <3> HIDE DEF size, tall
      <3> QED BY <1>9, <2>1, <2>2
    <2> QED BY <2>3 DEF Units
  <1>11. Cartons(p, A) = Cartons(p, B)
    <2> DEFINE size == [s \in A |-> p.ship[s].cartons]  tall == [t \in B |-> p.ship[t].cartons]
    <2>1. size \in [A -> Whole] /\ tall \in [B -> Whole]
      BY <1>2, WeekNumbers DEF Whole
    <2>2. \A s \in A : size[s] = tall[to[s]]
      BY <1>4, <1>5, KeyFacts
    <2>3. SumFunction(size) = SumFunction(tall)
      <3> HIDE DEF size, tall
      <3> QED BY <1>9, <2>1, <2>2
    <2> QED BY <2>3 DEF Cartons
  <1>12. WeightOf(p, A) = WeightOf(p, B)
    <2> DEFINE size == [s \in A |-> Weight(p, s)]  tall == [t \in B |-> Weight(p, t)]
    <2>1. size \in [A -> Whole] /\ tall \in [B -> Whole]
      BY <1>2, WeekNumbers
    <2>2. \A s \in A : size[s] = tall[to[s]]
      BY <1>4, <1>5, KeyFacts
    <2>3. SumFunction(size) = SumFunction(tall)
      <3> HIDE DEF size, tall
      <3> QED BY <1>9, <2>1, <2>2
    <2> QED BY <2>3 DEF WeightOf
  <1> QED BY <1>8, <1>10, <1>11, <1>12

LEMMA TradesKeep ==
    ASSUME NEW p, IsWeek(p), NEW x, NEW y, NEW m, NEW w, Trades(p, x, y, m, w)
    PROVE  /\ Used(y) = Used(x) /\ Missions(y) = Missions(x) /\ Value(p, y) = Value(p, x)
           /\ Feasible(p, x) => Feasible(p, y)
  <1>1. /\ x \in Plans(p) /\ y \in Plans(p) /\ m \in [DOMAIN y -> DOMAIN x] /\ w \in [DOMAIN x -> DOMAIN y]
        /\ \A s \in DOMAIN y : w[m[s]] = s /\ y[s] = x[m[s]] /\ GroupKey(p, s) = GroupKey(p, m[s])
        /\ \A t \in DOMAIN x : m[w[t]] = t /\ x[t] = y[w[t]]
    BY DEF Trades
  <1>2. Missions(y) = Missions(x)
    BY <1>1 DEF Missions
  <1>3. Used(y) = Used(x)
    BY <1>1 DEF Used, FlightOf
  <1>4. Value(p, y) = Value(p, x)
    <2>1. WeightOf(p, DOMAIN y) = WeightOf(p, DOMAIN x)
      <3>1. \A s \in DOMAIN y : s \in DOMAIN y <=> m[s] \in DOMAIN x
        BY <1>1
      <3> QED BY <3>1, TradesMatch
    <2> QED BY <2>1 DEF Value, WeightOf
  <1>5. ASSUME NEW f
        PROVE  /\ Cardinality(Aboard(y, f)) = Cardinality(Aboard(x, f))
               /\ Units(p, Aboard(y, f)) = Units(p, Aboard(x, f))
               /\ Cartons(p, Aboard(y, f)) = Cartons(p, Aboard(x, f))
    <2>1. /\ Aboard(y, f) \in SUBSET DOMAIN y /\ Aboard(x, f) \in SUBSET DOMAIN x
          /\ \A s \in DOMAIN y : s \in Aboard(y, f) <=> m[s] \in Aboard(x, f)
      BY <1>1 DEF Aboard, FlightOf
    <2> QED BY <2>1, TradesMatch
  <1>6. ASSUME NEW f, NEW v PROVE Units(p, Carried(y, f, v)) = Units(p, Carried(x, f, v))
    <2>1. /\ Carried(y, f, v) \in SUBSET DOMAIN y /\ Carried(x, f, v) \in SUBSET DOMAIN x
          /\ \A s \in DOMAIN y : s \in Carried(y, f, v) <=> m[s] \in Carried(x, f, v)
      BY <1>1 DEF Carried, Aboard, FlightOf, VolOf
    <2> QED BY <2>1, TradesMatch
  <1>7. ASSUME Feasible(p, x) PROVE Feasible(p, y)
    <2>1. \A s \in DOMAIN y : y[s] \in Compatible(p, s)
      <3> SUFFICES ASSUME NEW s \in DOMAIN y PROVE y[s] \in Compatible(p, s)
        OBVIOUS
      <3>1. m[s] \in DOMAIN x /\ y[s] = x[m[s]] /\ Compatible(p, s) = Compatible(p, m[s])
        BY <1>1, KeyFacts
      <3>2. x[m[s]] \in Compatible(p, m[s])
        BY <1>7, <3>1 DEF Feasible
      <3> QED BY <3>1, <3>2
    <2>2. ASSUME NEW f \in Used(y)
          PROVE  /\ Cardinality(Aboard(y, f)) <= ShipsPerFlight
                 /\ Within(Units(p, Aboard(y, f)), p.flight[f].capacity)
                 /\ Within(Cartons(p, Aboard(y, f)), p.rule[p.flight[f].dest].cartons)
                 /\ FirstLeg(p, f)
                 /\ \A g \in Used(y) : f # g => p.flight[f].key # p.flight[g].key
                 /\ \A v \in Vols(p) : Units(p, Carried(y, f, v)) <= Load(p, v)
      <3>1. f \in Used(x)
        BY <1>3
      <3>2. /\ Cardinality(Aboard(x, f)) <= ShipsPerFlight
            /\ Within(Units(p, Aboard(x, f)), p.flight[f].capacity)
            /\ Within(Cartons(p, Aboard(x, f)), p.rule[p.flight[f].dest].cartons)
            /\ FirstLeg(p, f)
            /\ \A g \in Used(x) : f # g => p.flight[f].key # p.flight[g].key
            /\ \A v \in Vols(p) : Units(p, Carried(x, f, v)) <= Load(p, v)
        BY <1>7, <3>1 DEF Feasible
      <3>3. \A v \in Vols(p) : Units(p, Carried(y, f, v)) <= Load(p, v)
        BY <1>6, <3>2
      <3> QED BY <1>3, <1>5, <3>2, <3>3
    <2>3. \A a, b \in Missions(y) : a[2] = b[2] /\ a[1] # b[1] => Apart(p, a[1], b[1])
      BY <1>2, <1>7 DEF Feasible
    <2>4. \A d \in DOMAIN p.rule :
            Within(Cardinality({f \in Used(y) : p.flight[f].dest = d}), p.rule[d].frequency)
      BY <1>3, <1>7 DEF Feasible
    <2> QED BY <2>1, <2>2, <2>3, <2>4 DEF Feasible
  <1> QED BY <1>2, <1>3, <1>4, <1>7
-----------------------------------------------------------------------------
\* Of equal shipments that compete, those in x are of as many shippers as can be.
Fair(p, x) ==
    \A g \in Contested(p, x) :
        \/ Shippers(p, g \cap DOMAIN x) = Shippers(p, g)
        \/ Cardinality(Shippers(p, g \cap DOMAIN x)) = Cardinality(g \cap DOMAIN x)

LEMMA CanonicalFair ==
    ASSUME NEW p, IsWeek(p), NEW x \in Plans(p)
    PROVE  Fair(p, Canonicalized(p, x))
  <1> DEFINE y == Canonicalized(p, x)
             traded(s) == Same(p, s) \in Contested(p, x)
  <1>1. DOMAIN y = {s \in Ships(p) : IF traded(s) THEN s \in Takers(p, x, Same(p, s)) ELSE s \in DOMAIN x}
    BY DEF Canonicalized
  <1> HIDE DEF y
  <1>2. DOMAIN x \in SUBSET Ships(p)
    BY PlanShape
  <1>3. SUFFICES ASSUME NEW g \in Contested(p, y)
                 PROVE  \/ Shippers(p, g \cap DOMAIN y) = Shippers(p, g)
                        \/ Cardinality(Shippers(p, g \cap DOMAIN y)) = Cardinality(g \cap DOMAIN y)
    BY DEF Fair, y
  <1>4. PICK a \in Ships(p) : g = Same(p, a)
    BY DEF Contested
  <1>5. g \in SUBSET Ships(p) /\ \A s \in g : Same(p, s) = g
    BY <1>4, SameFacts
  <1>6. g \cap DOMAIN y # {} /\ ~ g \subseteq DOMAIN y /\ \E s \in g : HasTieBreak(p, s)
    BY DEF Contested
  <1>7. CASE g \in Contested(p, x)
    <2>1. Takers(p, x, g) \in SUBSET g
      BY <1>5, SlotsTaken
    <2>2. g \cap DOMAIN y = Takers(p, x, g)
      BY <1>1, <1>5, <1>7, <2>1
    <2>3. Cardinality(g \cap DOMAIN x) \in Nat /\ Cardinality(g \cap DOMAIN x) <= Cardinality(g)
      <3>1. IsFiniteSet(g) /\ g \cap DOMAIN x \in SUBSET g
        BY <1>5, WeekNumbers
      <3> QED BY <3>1, FS_Subset, FS_CardinalityType
    <2> DEFINE n == Cardinality(g \cap DOMAIN x)
    <2>4. Takers(p, x, g) = Preferred(p, g, n)
      BY DEF Takers
    <2>5. /\ Cardinality(Preferred(p, g, n)) = n
          /\ \/ Shippers(p, Preferred(p, g, n)) = Shippers(p, g)
             \/ Cardinality(Shippers(p, Preferred(p, g, n))) = n
      <3> HIDE DEF n
      <3> QED BY <1>5, <2>3, PreferredMany DEF n
    <2> HIDE DEF n
    <2> QED BY <2>2, <2>4, <2>5
  <1>8. CASE g \notin Contested(p, x)
    <2>1. g \cap DOMAIN y = g \cap DOMAIN x
      BY <1>1, <1>5, <1>8
    <2>2. g \cap DOMAIN x # {} /\ ~ g \subseteq DOMAIN x
      BY <1>6, <2>1
    <2> QED BY <1>4, <1>6, <1>8, <2>2 DEF Contested
  <1> QED BY <1>7, <1>8

----------------------------------------------------------------------------
\* The sets of numbers, and the ways to share, have a first.
LEMMA LeastInt ==
    ASSUME NEW T, \A n \in T : n \in Int, IsFiniteSet(T), T # {}
    PROVE  \E m \in T : \A n \in T : m <= n
  <1> DEFINE R == {z \in T \X T : z[1] < z[2]}
  <1>1. Orders(R, T)
    BY DEF Orders
  <1>2. PICK m \in T : \A n \in T \ {m} : <<m, n>> \in R
    <2> HIDE DEF R
    <2> QED BY <1>1, FirstExists
  <1>3. ASSUME NEW n \in T PROVE m <= n
    <2>1. CASE n = m
      BY <2>1
    <2>2. CASE n # m
      <3>1. <<m, n>> \in R
        <4> HIDE DEF R
        <4> QED BY <1>2, <2>2
      <3>2. m < n /\ m \in Int /\ n \in Int
        BY <3>1
      <3> QED BY <3>2
    <2> QED BY <2>1, <2>2
  <1> QED BY <1>3

LEMMA FiniteFunctions ==
    ASSUME NEW S, IsFiniteSet(S), NEW T, IsFiniteSet(T)
    PROVE  IsFiniteSet([S -> T])
  <1> DEFINE graph == [f \in [S -> T] |-> {<<s, f[s]>> : s \in S}]
  <1>1. graph \in Injection([S -> T], SUBSET (S \X T))
    <2>1. graph \in [[S -> T] -> SUBSET (S \X T)]
      OBVIOUS
    <2>2. ASSUME NEW f \in [S -> T], NEW g \in [S -> T], graph[f] = graph[g] PROVE f = g
      <3>1. ASSUME NEW s \in S PROVE f[s] = g[s]
        <4>1. <<s, f[s]>> \in graph[f]
          OBVIOUS
        <4>2. <<s, f[s]>> \in graph[g]
          BY <2>2, <4>1
        <4>3. PICK t \in S : <<s, f[s]>> = <<t, g[t]>>
          BY <4>2
        <4> QED BY <4>3
      <3> QED BY <3>1
    <2> HIDE DEF graph
    <2> QED BY <2>1, <2>2 DEF Injection, IsInjective
  <1>2. IsFiniteSet(SUBSET (S \X T))
    BY FS_Product, FS_SUBSET
  <1> HIDE DEF graph
  <1> QED BY <1>1, <1>2, FS_Injection

LEMMA FirstShareShares ==
    ASSUME NEW p, IsWeek(p), NEW ships \in SUBSET Ships(p), NEW vols \in SUBSET Vols(p),
           Shares(p, ships, vols) # {}
    PROVE  FirstShare(p, ships, vols) \in Shares(p, ships, vols)
  <1> DEFINE S == Shares(p, ships, vols)
             ahead(f, g) == \E s \in ships : f[s] < g[s] /\ \A t \in ships : t < s => f[t] = g[t]
             R == {z \in S \X S : ahead(z[1], z[2])}
  <1>1. IsFiniteSet(ships) /\ IsFiniteSet(vols) /\ ships \in SUBSET Int /\ vols \in SUBSET Int
    BY WeekNumbers
  <1>2. S \in SUBSET [ships -> vols]
    BY DEF Shares
  <1>3. IsFiniteSet(S)
    <2>1. IsFiniteSet([ships -> vols])
      BY <1>1, FiniteFunctions
    <2> HIDE DEF S
    <2> QED BY <1>2, <2>1, FS_Subset
  <1>4. \A f, g \in S : <<f, g>> \in R <=> ahead(f, g)
    OBVIOUS
  <1> HIDE DEF R
  <1>5. \A f \in S, s \in ships : f[s] \in Int
    <2> HIDE DEF S
    <2> QED BY <1>1, <1>2
  <1> HIDE DEF S
  <1>6. ASSUME NEW f \in S PROVE ~ ahead(f, f)
    BY <1>5
  <1>7. ASSUME NEW f \in S, NEW g \in S, NEW h \in S, ahead(f, g), ahead(g, h) PROVE ahead(f, h)
    <2>1. PICK s \in ships : f[s] < g[s] /\ \A t \in ships : t < s => f[t] = g[t]
      BY <1>7
    <2>2. PICK u \in ships : g[u] < h[u] /\ \A t \in ships : t < u => g[t] = h[t]
      BY <1>7
    <2>3. s \in Int /\ u \in Int
      BY <1>1
    <2>4. /\ f[s] \in Int /\ g[s] \in Int /\ h[s] \in Int
          /\ f[u] \in Int /\ g[u] \in Int /\ h[u] \in Int
      BY <1>5
    <2>5. CASE s < u
      <3>1. f[s] < h[s]
        BY <2>1, <2>2, <2>5
      <3>2. ASSUME NEW t \in ships, t < s PROVE f[t] = h[t]
        <4>1. t \in Int
          BY <1>1
        <4>2. t < u
          BY <2>3, <2>5, <3>2, <4>1
        <4> QED BY <2>1, <2>2, <3>2, <4>2
      <3> QED BY <3>1, <3>2
    <2>6. CASE u < s
      <3>1. f[u] < h[u]
        BY <2>1, <2>2, <2>6
      <3>2. ASSUME NEW t \in ships, t < u PROVE f[t] = h[t]
        <4>1. t \in Int
          BY <1>1
        <4>2. t < s
          BY <2>3, <2>6, <3>2, <4>1
        <4> QED BY <2>1, <2>2, <3>2, <4>2
      <3> QED BY <3>1, <3>2
    <2>7. CASE s = u
      <3>1. f[s] < h[s]
        BY <2>1, <2>2, <2>4, <2>7
      <3> QED BY <2>1, <2>2, <2>7, <3>1
    <2> QED BY <2>3, <2>5, <2>6, <2>7
  <1>8. ASSUME NEW f \in S, NEW g \in S, f # g PROVE ahead(f, g) \/ ahead(g, f)
    <2> DEFINE D == {s \in ships : f[s] # g[s]}
    <2>1. D # {} /\ (\A t \in D : t \in Int) /\ IsFiniteSet(D)
      <3>1. D # {}
        <4>1. f \in [ships -> vols] /\ g \in [ships -> vols]
          BY <1>2
        <4> QED BY <1>8, <4>1
      <3> QED BY <1>1, <3>1, FS_Subset
    <2>2. PICK s \in D : \A t \in D : s <= t
      <3> HIDE DEF D
      <3> QED BY <2>1, LeastInt
    <2>3. ASSUME NEW t \in ships, t < s PROVE f[t] = g[t]
      <3>1. t \in Int /\ s \in Int
        BY <1>1
      <3> QED BY <2>2, <2>3, <3>1
    <2>4. f[s] < g[s] \/ g[s] < f[s]
      <3>1. f[s] \in Int /\ g[s] \in Int /\ f[s] # g[s]
        BY <1>5
      <3> QED BY <3>1
    <2> QED BY <2>3, <2>4
  <1> HIDE DEF ahead
  <1>9. Orders(R, S)
    BY <1>3, <1>4, <1>6, <1>7, <1>8 DEF Orders
  <1>10. PICK f \in S : \A g \in S \ {f} : <<f, g>> \in R
    <2>1. S # {}
      BY DEF S
    <2> QED BY <1>9, <2>1, FirstExists
  <1>11. \A g \in S \ {f} : ahead(f, g)
    BY <1>4, <1>10
  <1>12. FirstShare(p, ships, vols) = CHOOSE share \in S : \A other \in S \ {share} : ahead(share, other)
    BY DEF FirstShare, S, ahead
  <1>13. FirstShare(p, ships, vols) \in S
    BY <1>11, <1>12
  <1> QED BY <1>13 DEF S

-----------------------------------------------------------------------------
LEMMA UnitsAmount ==
    ASSUME NEW p, IsWeek(p), NEW S \in SUBSET Ships(p)
    PROVE  /\ Units(p, S) \in Nat /\ \A s \in S : p.ship[s].units <= Units(p, S)
           /\ S = {} => Units(p, S) = 0
           /\ \A s : S = {s} => Units(p, S) = p.ship[s].units
  <1> DEFINE size == [s \in S |-> p.ship[s].units]
  <1>1. IsFiniteSet(S) /\ size \in [S -> Nat]
    BY WeekNumbers
  <1>2. \A s \in S : size[s] = p.ship[s].units
    OBVIOUS
  <1>3. Units(p, S) = SumFunction(size)
    BY DEF Units
  <1> HIDE DEF size
  <1>4. Units(p, S) \in Nat
    BY <1>1, <1>3, SumIsHeap
  <1>5. ASSUME S = {} PROVE Units(p, S) = 0
    <2>1. Heap(size, S) = {}
      BY <1>5 DEF Heap
    <2>2. SumFunction(size) = Cardinality(Heap(size, S))
      BY <1>1, SumIsHeap
    <2> QED BY <1>3, <2>1, <2>2, FS_EmptySet
  <1>6. ASSUME NEW s \in S
        PROVE  p.ship[s].units <= Units(p, S) /\ (S = {s} => Units(p, S) = p.ship[s].units)
    <2> DEFINE rest == [t \in S \ {s} |-> size[t]]
    <2>1. SumFunction(size) = size[s] + SumFunction(rest)
      BY <1>1, SumInserts
    <2>2. IsFiniteSet(S \ {s}) /\ rest \in [S \ {s} -> Nat]
      BY <1>1, FS_Subset
    <2> HIDE DEF rest
    <2>3. SumFunction(rest) \in Nat /\ SumFunction(rest) = Cardinality(Heap(rest, S \ {s}))
      BY <2>2, SumIsHeap
    <2>4. size[s] \in Nat
      BY <1>1
    <2>5. S = {s} => SumFunction(rest) = 0
      <3>1. S = {s} => Heap(rest, S \ {s}) = {}
        BY DEF Heap
      <3> QED BY <2>3, <3>1, FS_EmptySet
    <2> QED BY <1>2, <1>3, <2>1, <2>3, <2>4, <2>5
  <1> QED BY <1>4, <1>5, <1>6

\* The shipments stay on their flights.
SameFlights(p, x, y) ==
    /\ x \in Plans(p) /\ y \in Plans(p) /\ DOMAIN y = DOMAIN x
    /\ \A s \in DOMAIN x : FlightOf(y, s) = FlightOf(x, s)

\* What the last two passes do to the plan x.
Kept(p, x, y) ==
    /\ SameFlights(p, x, y) /\ Feasible(p, y) /\ Used(y) = Used(x) /\ Value(p, y) = Value(p, x)
    /\ Cardinality(Missions(y)) <= Cardinality(Missions(x))
    /\ \A f : Aboard(y, f) = Aboard(x, f)

LEMMA FlightsKept ==
    ASSUME NEW p, IsWeek(p), NEW x, NEW y, SameFlights(p, x, y), Feasible(p, x),
           \A s \in DOMAIN y : y[s] \in Compatible(p, s),
           \A f \in Used(y) : \A v \in Vols(p) : Units(p, Carried(y, f, v)) <= Load(p, v),
           \A a, b \in Missions(y) : a[2] = b[2] /\ a[1] # b[1] => Apart(p, a[1], b[1])
    PROVE  /\ Feasible(p, y) /\ Used(y) = Used(x) /\ Value(p, y) = Value(p, x)
           /\ \A f : Aboard(y, f) = Aboard(x, f)
  <1>1. Used(y) = Used(x)
    BY DEF SameFlights, Used
  <1>2. \A f : Aboard(y, f) = Aboard(x, f)
    BY DEF SameFlights, Aboard
  <1>3. Value(p, y) = Value(p, x)
    BY DEF SameFlights, Value
  <1>4. Feasible(p, y)
    BY <1>1, <1>2 DEF Feasible
  <1> QED BY <1>1, <1>2, <1>3, <1>4

LEMMA MissionsFinite ==
    ASSUME NEW p, IsWeek(p), NEW x \in Plans(p)
    PROVE  IsFiniteSet(Missions(x)) /\ Cardinality(Missions(x)) \in Nat
  <1>1. x \in Surjection(DOMAIN x, Missions(x))
    <2>1. x = [s \in DOMAIN x |-> x[s]]
      BY PlanShape
    <2> QED BY <2>1 DEF Surjection, Missions
  <1>2. IsFiniteSet(DOMAIN x)
    BY PlanShape
  <1> QED BY <1>1, <1>2, FS_Surjection, FS_CardinalityType

----------------------------------------------------------------------------
LEMMA CompatibleFacts ==
    ASSUME NEW p, NEW s, NEW f, NEW v
    PROVE  <<f, v>> \in Compatible(p, s) <=>
              /\ f \in Flights(p) /\ v \in Vols(p) /\ ShipFits(p, s, f)
              /\ p.ship[s].units <= Load(p, v) /\ VolFits(p, v, f)
  BY DEF Compatible

\* The volunteers of a flight share its shipments anew.
LEMMA CrewShares ==
    ASSUME NEW p, IsWeek(p), NEW x \in Plans(p), Feasible(p, x), NEW f \in Used(x)
    PROVE  /\ FirstShare(p, Aboard(x, f), Crew(x, f)) \in Shares(p, Aboard(x, f), Crew(x, f))
           /\ Aboard(x, f) \in SUBSET Ships(p) /\ Crew(x, f) \in SUBSET Vols(p)
  <1> DEFINE ships == Aboard(x, f)  vols == Crew(x, f)
             now == [s \in ships |-> VolOf(x, s)]
  <1>1. ships \in SUBSET Ships(p) /\ vols \in SUBSET Vols(p)
    BY PlanShape DEF Aboard, Crew
  <1>2. now \in [ships -> vols]
    BY DEF Crew
  <1>3. ASSUME NEW v \in vols PROVE Units(p, {s \in ships : now[s] = v}) <= Load(p, v)
    <2>1. {s \in ships : now[s] = v} = Carried(x, f, v)
      BY DEF Carried
    <2>2. Units(p, Carried(x, f, v)) <= Load(p, v)
      BY <1>1 DEF Feasible
    <2> QED BY <2>1, <2>2
  <1>4. now \in Shares(p, ships, vols)
    <2> HIDE DEF now, ships, vols
    <2> QED BY <1>2, <1>3 DEF Shares
  <1> HIDE DEF now, ships, vols
  <1>5. FirstShare(p, ships, vols) \in Shares(p, ships, vols)
    BY <1>1, <1>4, FirstShareShares
  <1> QED BY <1>1, <1>5 DEF ships, vols

LEMMA RebalancedKeeps ==
    ASSUME NEW p, IsWeek(p), NEW x \in Plans(p), Feasible(p, x)
    PROVE  Kept(p, x, Rebalanced(p, x))
  <1> DEFINE y == Rebalanced(p, x)
             shared == {f \in Used(x) : Cardinality(Aboard(x, f)) > 1 /\ Cardinality(Crew(x, f)) > 1}
             share(f) == FirstShare(p, Aboard(x, f), Crew(x, f))
  <1>1. /\ DOMAIN y = DOMAIN x /\ y = [s \in DOMAIN x |-> y[s]]
        /\ \A s \in DOMAIN x : y[s] = IF FlightOf(x, s) \in shared
                                      THEN <<FlightOf(x, s), share(FlightOf(x, s))[s]>> ELSE x[s]
    BY DEF Rebalanced
  <1> HIDE DEF y
  <1>2. ASSUME NEW f \in shared
        PROVE  /\ share(f) \in [Aboard(x, f) -> Crew(x, f)]
               /\ \A v \in Crew(x, f) : Units(p, {s \in Aboard(x, f) : share(f)[s] = v}) <= Load(p, v)
               /\ Aboard(x, f) \in SUBSET Ships(p) /\ Crew(x, f) \in SUBSET Vols(p)
    BY CrewShares DEF Shares
  <1> HIDE DEF share
  <1>3. \A s \in DOMAIN x : /\ x[s] = <<FlightOf(x, s), VolOf(x, s)>> /\ s \in Aboard(x, FlightOf(x, s))
                            /\ FlightOf(x, s) \in Flights(p) /\ VolOf(x, s) \in Vols(p)
                            /\ FlightOf(x, s) \in Used(x)
    BY PlanShape DEF Aboard, Used
  <1>4. ASSUME NEW s \in DOMAIN x
        PROVE  /\ y[s] = <<FlightOf(x, s), VolOf(y, s)>> /\ VolOf(y, s) \in Crew(x, FlightOf(x, s))
               /\ FlightOf(y, s) = FlightOf(x, s)
               /\ FlightOf(x, s) \in shared => VolOf(y, s) = share(FlightOf(x, s))[s]
               /\ FlightOf(x, s) \notin shared => y[s] = x[s]
    <2>1. CASE FlightOf(x, s) \in shared
      <3>1. y[s] = <<FlightOf(x, s), share(FlightOf(x, s))[s]>>
        BY <1>1, <2>1
      <3>2. share(FlightOf(x, s))[s] \in Crew(x, FlightOf(x, s))
        BY <1>2, <1>3, <2>1
      <3> QED BY <2>1, <3>1, <3>2 DEF FlightOf, VolOf
    <2>2. CASE FlightOf(x, s) \notin shared
      <3>1. y[s] = x[s]
        BY <1>1, <2>2
      <3>2. FlightOf(y, s) = FlightOf(x, s) /\ VolOf(y, s) = VolOf(x, s)
        BY <3>1 DEF FlightOf, VolOf
      <3>3. VolOf(x, s) \in Crew(x, FlightOf(x, s))
        BY <1>3 DEF Crew
      <3> QED BY <1>3, <2>2, <3>1, <3>2, <3>3
    <2> QED BY <2>1, <2>2
  <1>5. ASSUME NEW f, NEW v \in Crew(x, f) PROVE \E t \in Aboard(x, f) : x[t] = <<f, v>> /\ t \in DOMAIN x
    BY <1>3 DEF Crew, Aboard
  <1>6. Missions(y) \in SUBSET Missions(x)
    <2> SUFFICES ASSUME NEW s \in DOMAIN x PROVE y[s] \in Missions(x)
      BY <1>1 DEF Missions
    <2>1. PICK t \in DOMAIN x : x[t] = y[s]
      BY <1>4, <1>5
    <2> QED BY <2>1 DEF Missions
  <1>7. SameFlights(p, x, y)
    <2>1. \A s \in DOMAIN x : y[s] \in Flights(p) \X Vols(p)
      <3> SUFFICES ASSUME NEW s \in DOMAIN x PROVE y[s] \in Flights(p) \X Vols(p)
        OBVIOUS
      <3>1. PICK t \in DOMAIN x : x[t] = y[s]
        BY <1>4, <1>5
      <3> QED BY <3>1, PlanShape
    <2>2. y \in Plans(p)
      <3>1. DOMAIN x \in SUBSET Ships(p)
        BY PlanShape
      <3> QED BY <1>1, <2>1, <3>1 DEF Plans
    <2> QED BY <1>1, <1>4, <2>2 DEF SameFlights
  <1>8. ASSUME NEW f \in Used(y), NEW v \in Vols(p) PROVE Units(p, Carried(y, f, v)) <= Load(p, v)
    <2>1. f \in Used(x) /\ Aboard(y, f) = Aboard(x, f)
      BY <1>7 DEF SameFlights, Used, Aboard
    <2>2. \A s \in Aboard(x, f) : s \in DOMAIN x /\ FlightOf(x, s) = f
      BY DEF Aboard
    <2>3. CASE f \in shared /\ v \in Crew(x, f)
      <3>1. Carried(y, f, v) = {s \in Aboard(x, f) : share(f)[s] = v}
        BY <1>4, <2>1, <2>2, <2>3 DEF Carried
      <3> QED BY <1>2, <2>3, <3>1
    <2>4. CASE f \in shared /\ v \notin Crew(x, f)
      <3>1. Carried(y, f, v) = {}
        BY <1>4, <2>1, <2>2, <2>4 DEF Carried
      <3>2. Units(p, {}) = 0 /\ Load(p, v) \in Nat
        BY UnitsAmount, WeekNumbers
      <3> QED BY <3>1, <3>2
    <2>5. CASE f \notin shared
      <3>1. \A s \in Aboard(x, f) : y[s] = x[s]
        BY <1>4, <2>2, <2>5
      <3>2. Carried(y, f, v) = Carried(x, f, v)
        BY <2>1, <3>1 DEF Carried, VolOf
      <3> QED BY <2>1, <3>2 DEF Feasible
    <2> QED BY <2>3, <2>4, <2>5
  <1>9. ASSUME NEW s \in DOMAIN y PROVE y[s] \in Compatible(p, s)
    <2> DEFINE f == FlightOf(x, s)  v == VolOf(y, s)
    <2>1. s \in DOMAIN x /\ y[s] = <<f, v>> /\ v \in Crew(x, f) /\ f \in Used(x) /\ s \in Aboard(x, f)
      BY <1>1, <1>3, <1>4, <1>9
    <2>2. PICK t \in DOMAIN x : x[t] = <<f, v>>
      BY <1>5, <2>1
    <2>3. x[s] = <<f, VolOf(x, s)>> /\ x[s] \in Compatible(p, s) /\ x[t] \in Compatible(p, t)
      BY <1>3, <2>1, <2>2 DEF Feasible
    <2> HIDE DEF f, v
    <2>4. f \in Flights(p) /\ ShipFits(p, s, f)
      BY <2>3, CompatibleFacts
    <2>5. v \in Vols(p) /\ VolFits(p, v, f)
      BY <2>2, <2>3, CompatibleFacts
    <2>6. p.ship[s].units <= Load(p, v)
      <3>1. s \in Carried(y, f, v) /\ f \in Used(y) /\ Carried(y, f, v) \in SUBSET DOMAIN y
        BY <1>1, <1>7, <2>1 DEF SameFlights, Carried, Aboard, Used, f, v
      <3>2. Carried(y, f, v) \in SUBSET Ships(p) /\ s \in Ships(p)
        BY <1>1, <2>1, <3>1, PlanShape
      <3>3. p.ship[s].units <= Units(p, Carried(y, f, v)) /\ Units(p, Carried(y, f, v)) \in Nat
        BY <3>1, <3>2, UnitsAmount
      <3>4. Units(p, Carried(y, f, v)) <= Load(p, v)
        BY <1>8, <2>5, <3>1
      <3>5. p.ship[s].units \in Nat /\ Load(p, v) \in Nat
        BY <2>5, <3>2, WeekNumbers
      <3> QED BY <3>3, <3>4, <3>5
    <2> QED BY <2>1, <2>4, <2>5, <2>6, CompatibleFacts
  <1>10. \A a, b \in Missions(y) : a[2] = b[2] /\ a[1] # b[1] => Apart(p, a[1], b[1])
    BY <1>6 DEF Feasible
  <1>11. Cardinality(Missions(y)) <= Cardinality(Missions(x))
    BY <1>6, MissionsFinite, FS_Subset
  <1>12. /\ Feasible(p, y) /\ Used(y) = Used(x) /\ Value(p, y) = Value(p, x)
         /\ \A f : Aboard(y, f) = Aboard(x, f)
    BY <1>7, <1>8, <1>9, <1>10, FlightsKept
  <1> QED BY <1>7, <1>11, <1>12 DEF Kept, y

\* A volunteer who has a slot that day has a longest one.
LEMMA LongestSlotFits ==
    ASSUME NEW p, IsWeek(p), NEW v \in Vols(p), NEW f, SlotsThatDay(p, v, f) # {}
    PROVE  LongestSlot(p, v, f) \in SlotsThatDay(p, v, f) /\ LongestSlot(p, v, f).from \in Int
           /\ LongestSlot(p, v, f).to \in Int
  <1> DEFINE S == SlotsThatDay(p, v, f)
             key == [a \in S |-> <<-a.to, a.from>>]
             R == ByKey(key, S)
  <1>1. IsFiniteSet(S)
    BY FS_Subset DEF SlotsThatDay, IsWeek
  <1>2. \A a \in S : a \in [day : Int, from : Int, to : Int] /\ a.day = p.flight[f].day
    BY DEF SlotsThatDay, IsWeek
  <1> HIDE DEF S
  <1>3. \A a \in S : a.from \in Int /\ a.to \in Int /\ -a.to \in Int
    BY <1>2
  <1>4. key \in [S -> [1..2 -> Int]]
    BY <1>3, Pairs
  <1>5. ASSUME NEW a \in S, NEW b \in S, key[a] = key[b] PROVE a = b
    <2>1. -a.to = -b.to /\ a.from = b.from
      BY <1>5
    <2>2. a.to = b.to /\ a.from = b.from /\ a.day = b.day
      BY <1>2, <1>3, <2>1
    <2> QED BY <1>2, <2>2
  <1>6. \A a, b \in S : <<a, b>> \in R <=> Before(<<-a.to, a.from>>, <<-b.to, b.from>>)
    BY DEF ByKey
  <1> HIDE DEF key
  <1>7. Orders(R, S)
    <2>1. 2 \in Nat
      OBVIOUS
    <2> QED BY <1>1, <1>4, <1>5, <2>1, BeforeOrders
  <1> HIDE DEF R
  <1>8. PICK a \in S : \A b \in S \ {a} : <<a, b>> \in R
    <2>1. S # {}
      BY DEF S
    <2> QED BY <1>7, <2>1, FirstExists
  <1>9. \A b \in S \ {a} : Before(<<-a.to, a.from>>, <<-b.to, b.from>>)
    BY <1>6, <1>8
  <1>10. LongestSlot(p, v, f) = CHOOSE c \in S :
            \A b \in S \ {c} : Before(<<-c.to, c.from>>, <<-b.to, b.from>>)
    BY DEF LongestSlot, S
  <1>11. LongestSlot(p, v, f) \in S
    BY <1>9, <1>10
  <1> QED BY <1>3, <1>11 DEF S

LEMMA SingleFits ==
    ASSUME NEW p, IsWeek(p), NEW x \in Plans(p), NEW s \in DOMAIN x
    PROVE  LET v == SingleVolunteer(p, x, s)
           IN  \/ v = VolOf(x, s)
               \/ <<FlightOf(x, s), v>> \in Compatible(p, s) /\ ~ Conflicts(p, x, v, s)
  <1> DEFINE f == FlightOf(x, s)
             free == {v \in Vols(p) : /\ <<f, v>> \in Compatible(p, s)
                                      /\ ~ Conflicts(p, x, v, s)
                                      /\ SlotsThatDay(p, v, f) # {}}
             rate(v) == LET slot == LongestSlot(p, v, f) IN <<-slot.to, slot.from - slot.to, v>>
             key == [v \in free |-> rate(v)]
             R == ByKey(key, free)
  <1>1. SingleVolunteer(p, x, s) =
            IF free = {} THEN VolOf(x, s)
            ELSE CHOOSE v \in free : \A w \in free \ {v} : Before(rate(v), rate(w))
    BY DEF SingleVolunteer
  <1>2. free \in SUBSET Vols(p) /\ IsFiniteSet(free)
    BY WeekNumbers
  <1>3. CASE free = {}
    BY <1>1, <1>3
  <1>4. CASE free # {}
    <2>1. ASSUME NEW v \in free PROVE rate(v) \in [1..3 -> Int] /\ rate(v)[3] = v
      <3>1. v \in Int /\ LongestSlot(p, v, f).from \in Int /\ LongestSlot(p, v, f).to \in Int
        BY LongestSlotFits, WeekNumbers
      <3>2. -LongestSlot(p, v, f).to \in Int /\ LongestSlot(p, v, f).from - LongestSlot(p, v, f).to \in Int
        BY <3>1
      <3> QED BY <3>1, <3>2, Triples
    <2>2. \A v, w \in free : <<v, w>> \in R <=> Before(rate(v), rate(w))
      <3> HIDE DEF free, rate
      <3> QED BY DEF ByKey
    <2>3. key \in [free -> [1..3 -> Int]] /\ \A v, w \in free : key[v] = key[w] => v = w
      <3> HIDE DEF free, rate
      <3> QED BY <2>1
    <2> HIDE DEF key
    <2>4. Orders(R, free)
      <3>1. 3 \in Nat
        OBVIOUS
      <3> HIDE DEF free
      <3> QED BY <1>2, <2>3, <3>1, BeforeOrders
    <2> HIDE DEF R
    <2>5. PICK v \in free : \A w \in free \ {v} : <<v, w>> \in R
      <3> HIDE DEF free
      <3> QED BY <1>4, <2>4, FirstExists
    <2>6. \A w \in free \ {v} : Before(rate(v), rate(w))
      <3> HIDE DEF free, rate
      <3> QED BY <2>2, <2>5
    <2>7. SingleVolunteer(p, x, s) \in free
      <3> HIDE DEF free, rate
      <3> QED BY <1>1, <1>4, <2>6
    <2> QED BY <2>7
  <1> QED BY <1>3, <1>4

LEMMA ApartBoth ==
    ASSUME NEW p, IsWeek(p), NEW f \in Flights(p), NEW g \in Flights(p), Apart(p, f, g)
    PROVE  Apart(p, g, f)
  <1>1. Departure(p, f) \in Int /\ Departure(p, g) \in Int
    BY WeekNumbers
  <1>2. Distance(Departure(p, f), Departure(p, g)) = Distance(Departure(p, g), Departure(p, f))
    <2> DEFINE a == Departure(p, f)  b == Departure(p, g)
    <2> HIDE DEF a, b
    <2>1. a \in Int /\ b \in Int => Distance(a, b) = Distance(b, a)
      BY DEF Distance
    <2> QED BY <1>1, <2>1 DEF a, b
  <1> QED BY <1>2 DEF Apart

\* A shipment alone on its flight changes hands.
LEMMA ReassignedKeeps ==
    ASSUME NEW p, IsWeek(p), NEW x \in Plans(p), Feasible(p, x), NEW s \in DOMAIN x,
           Aboard(x, FlightOf(x, s)) = {s}
    PROVE  Kept(p, x, [x EXCEPT ![s] = <<FlightOf(x, s), SingleVolunteer(p, x, s)>>])
  <1> DEFINE f == FlightOf(x, s)  v == SingleVolunteer(p, x, s)
             y == [x EXCEPT ![s] = <<f, v>>]
  <1>1. /\ DOMAIN y = DOMAIN x /\ y = [t \in DOMAIN x |-> y[t]]
        /\ y[s] = <<f, v>> /\ \A t \in DOMAIN x \ {s} : y[t] = x[t]
    <2>1. x = [t \in DOMAIN x |-> x[t]]
      BY PlanShape
    <2> QED BY <2>1
  <1>2. \A t \in DOMAIN x : /\ x[t] = <<FlightOf(x, t), VolOf(x, t)>> /\ t \in Ships(p)
                            /\ FlightOf(x, t) \in Flights(p) /\ VolOf(x, t) \in Vols(p)
    BY PlanShape
  <1>3. \A t \in DOMAIN x \ {s} : FlightOf(x, t) # f
    BY DEF Aboard
  <1>4. v = VolOf(x, s) \/ (<<f, v>> \in Compatible(p, s) /\ ~ Conflicts(p, x, v, s))
    BY SingleFits
  <1> HIDE DEF v
  <1>5. ASSUME v = VolOf(x, s) PROVE Kept(p, x, y)
    <2>1. y = x
      <3>1. \A t \in DOMAIN x : y[t] = x[t]
        BY <1>1, <1>2, <1>5
      <3>2. x = [t \in DOMAIN x |-> x[t]]
        BY PlanShape
      <3> HIDE DEF y
      <3> QED BY <1>1, <3>1, <3>2
    <2>2. Cardinality(Missions(x)) \in Nat
      BY MissionsFinite
    <2> HIDE DEF y
    <2>3. SameFlights(p, x, y)
      BY <2>1 DEF SameFlights
    <2> QED BY <2>1, <2>2, <2>3 DEF Kept
  <1>6. ASSUME <<f, v>> \in Compatible(p, s), ~ Conflicts(p, x, v, s)
        PROVE  Kept(p, x, y)
    <2> HIDE DEF y
    <2>1. v \in Vols(p) /\ p.ship[s].units <= Load(p, v) /\ f \in Flights(p)
      BY <1>6, CompatibleFacts
    <2>2. FlightOf(y, s) = f /\ VolOf(y, s) = v
      BY <1>1 DEF FlightOf, VolOf
    <2>3. \A t \in DOMAIN x \ {s} : FlightOf(y, t) = FlightOf(x, t) /\ VolOf(y, t) = VolOf(x, t)
      BY <1>1 DEF FlightOf, VolOf
    <2>4. SameFlights(p, x, y)
      <3>1. ASSUME NEW t \in DOMAIN x PROVE y[t] \in Flights(p) \X Vols(p)
        <4>1. CASE t = s
          BY <1>1, <2>1, <4>1
        <4>2. CASE t # s
          <5>1. y[t] = x[t]
            BY <1>1, <4>2
          <5> QED BY <1>2, <5>1
        <4> QED BY <4>1, <4>2
      <3>2. y \in Plans(p)
        <4>1. DOMAIN x \in SUBSET Ships(p)
          BY <1>2
        <4> QED BY <1>1, <3>1, <4>1 DEF Plans
      <3> QED BY <1>1, <2>2, <2>3, <3>2 DEF SameFlights
    <2>5. ASSUME NEW t \in DOMAIN y PROVE y[t] \in Compatible(p, t)
      BY <1>1, <1>6, <2>5 DEF Feasible
    <2>6. ASSUME NEW g \in Used(y), NEW w \in Vols(p) PROVE Units(p, Carried(y, g, w)) <= Load(p, w)
      <3>1. g \in Used(x)
        BY <2>4 DEF SameFlights, Used
      <3>2. CASE g # f
        <4>1. Carried(y, g, w) = Carried(x, g, w)
          <5>1. \A t \in DOMAIN x : FlightOf(y, t) = g => t # s
            BY <2>2, <3>2
          <5>2. \A t \in DOMAIN x : FlightOf(x, t) = g => t # s
            BY <3>2
          <5> QED BY <1>1, <2>3, <5>1, <5>2 DEF Carried, Aboard
        <4> QED BY <3>1, <4>1 DEF Feasible
      <3>3. CASE g = f
        <4>1. \A t \in DOMAIN y : FlightOf(y, t) = f => t = s
          BY <1>1, <1>3, <2>3
        <4>2. Carried(y, g, w) = IF w = v THEN {s} ELSE {}
          BY <1>1, <2>2, <3>3, <4>1 DEF Carried, Aboard
        <4>3. Units(p, {}) = 0 /\ Load(p, w) \in Nat
          BY UnitsAmount, WeekNumbers
        <4>4. Units(p, {s}) = p.ship[s].units
          <5>1. {s} \in SUBSET Ships(p)
            BY <1>2
          <5> QED BY <5>1, UnitsAmount
        <4> QED BY <2>1, <4>2, <4>3, <4>4
      <3> QED BY <3>2, <3>3
    <2>7. ASSUME NEW t \in DOMAIN x \ {s}, VolOf(x, t) = v
          PROVE  Apart(p, FlightOf(x, t), f) /\ Apart(p, f, FlightOf(x, t))
      <3>1. Apart(p, FlightOf(x, t), f)
        BY <1>6, <2>7 DEF Conflicts
      <3> QED BY <1>2, <2>1, <3>1, ApartBoth
    <2>8. ASSUME NEW a \in Missions(y), NEW b \in Missions(y), a[2] = b[2], a[1] # b[1]
          PROVE  Apart(p, a[1], b[1])
      <3>1. PICK t \in DOMAIN x, u \in DOMAIN x : a = y[t] /\ b = y[u]
        BY <1>1 DEF Missions
      <3>2. CASE t # s /\ u # s
        <4>1. a \in Missions(x) /\ b \in Missions(x)
          BY <1>1, <3>1, <3>2 DEF Missions
        <4> QED BY <2>8, <4>1 DEF Feasible
      <3>3. CASE t = s /\ u # s
        <4>1. a = <<f, v>> /\ b = <<FlightOf(x, u), VolOf(x, u)>>
          BY <1>1, <1>2, <3>1, <3>3
        <4> QED BY <2>7, <2>8, <3>3, <4>1
      <3>4. CASE u = s /\ t # s
        <4>1. b = <<f, v>> /\ a = <<FlightOf(x, t), VolOf(x, t)>>
          BY <1>1, <1>2, <3>1, <3>4
        <4> QED BY <2>7, <2>8, <3>4, <4>1
      <3>5. CASE t = s /\ u = s
        BY <2>8, <3>1, <3>5
      <3> QED BY <3>2, <3>3, <3>4, <3>5
    <2>9. Cardinality(Missions(y)) <= Cardinality(Missions(x))
      <3> DEFINE rest == Missions(x) \ {x[s]}
      <3>1. Missions(y) \in SUBSET (rest \cup {y[s]})
        <4>1. ASSUME NEW t \in DOMAIN x \ {s} PROVE y[t] \in rest
          <5>1. x[t] # x[s]
            BY <1>3 DEF FlightOf
          <5> QED BY <1>1, <5>1 DEF Missions
        <4> HIDE DEF rest
        <4> QED BY <1>1, <4>1 DEF Missions
      <3>2. x[s] \in Missions(x) /\ IsFiniteSet(Missions(x)) /\ Cardinality(Missions(x)) \in Nat
        BY MissionsFinite DEF Missions
      <3>3. IsFiniteSet(rest) /\ Cardinality(rest) = Cardinality(Missions(x)) - 1
        BY <3>2, FS_RemoveElement, FS_Subset
      <3> HIDE DEF rest
      <3>4. IsFiniteSet(rest \cup {y[s]}) /\ Cardinality(rest \cup {y[s]}) <= Cardinality(rest) + 1
        <4>1. Cardinality(rest) \in Nat
          BY <3>3, FS_CardinalityType
        <4>2. /\ IsFiniteSet(rest \cup {y[s]})
              /\ Cardinality(rest \cup {y[s]}) = IF y[s] \in rest THEN Cardinality(rest) ELSE Cardinality(rest) + 1
          BY <3>3, FS_AddElement
        <4> DEFINE n == Cardinality(rest)  k == Cardinality(rest \cup {y[s]})
        <4>3. n \in Nat /\ (k = n \/ k = n + 1)
          BY <4>1, <4>2
        <4>4. k <= n + 1
          <5> HIDE DEF n, k
          <5> QED BY <4>3
        <4> QED BY <4>2, <4>4
      <3>5. Cardinality(Missions(y)) <= Cardinality(rest \cup {y[s]})
        BY <3>1, <3>4, FS_Subset
      <3>6. /\ Cardinality(Missions(y)) \in Nat /\ Cardinality(rest \cup {y[s]}) \in Nat
            /\ Cardinality(rest) \in Nat
        BY <3>1, <3>3, <3>4, FS_Subset, FS_CardinalityType
      <3> QED BY <3>2, <3>3, <3>4, <3>5, <3>6
    <2>10. /\ Feasible(p, y) /\ Used(y) = Used(x) /\ Value(p, y) = Value(p, x)
           /\ \A g : Aboard(y, g) = Aboard(x, g)
      BY <2>4, <2>5, <2>6, <2>8, FlightsKept
    <2> QED BY <2>4, <2>9, <2>10 DEF Kept
  <1>7. Kept(p, x, y)
    BY <1>4, <1>5, <1>6
  <1> QED BY <1>7 DEF y, v

----------------------------------------------------------------------------
\* What the plan is at each stage, and why a shipment that waits for its volunteer is
\* still alone on its flight.
SolverInv ==
    /\ payload \in Payloads
    /\ solution \in Plans(payload) /\ plan \in Plans(payload)
    /\ stage \in {"solve", "canonicalize", "rebalance", "singles"}
    /\ stage = "solve" => solution = <<>> /\ plan = <<>>
    /\ Feasible(payload, plan) /\ ObjectivesKept
    /\ stage \in {"rebalance", "singles"} => Fair(payload, plan)
    /\ stage # "singles" => alone = {}
    /\ \A s \in alone : s \in DOMAIN plan /\ Aboard(plan, FlightOf(plan, s)) = {s}

LEMMA EmptyPlan ==
    ASSUME NEW p, IsWeek(p)
    PROVE  <<>> \in Plans(p) /\ Feasible(p, <<>>)
  <1>1. <<>> \in [{} -> Flights(p) \X Vols(p)] /\ DOMAIN <<>> = {}
    OBVIOUS
  <1>2. <<>> \in Plans(p)
    BY <1>1 DEF Plans
  <1>3. Used(<<>>) = {} /\ Missions(<<>>) = {}
    BY <1>1 DEF Used, Missions
  <1>4. ASSUME NEW d \in DOMAIN p.rule
        PROVE  Within(Cardinality({f \in Used(<<>>) : p.flight[f].dest = d}), p.rule[d].frequency)
    <2>1. {f \in Used(<<>>) : p.flight[f].dest = d} = {}
      BY <1>3
    <2>2. Cardinality({f \in Used(<<>>) : p.flight[f].dest = d}) = 0
      BY <2>1, FS_EmptySet
    <2>3. p.rule[d].frequency \in Nat \cup {None}
      BY DEF IsWeek
    <2> QED BY <2>2, <2>3 DEF Within
  <1>5. Feasible(p, <<>>)
    BY <1>1, <1>3, <1>4 DEF Feasible
  <1> QED BY <1>2, <1>5

LEMMA FairKept ==
    ASSUME NEW p, NEW x, NEW y, Fair(p, x), DOMAIN y = DOMAIN x
    PROVE  Fair(p, y)
  <1>1. Contested(p, y) = Contested(p, x)
    BY DEF Contested
  <1> QED BY <1>1 DEF Fair

LEMMA SolverInvInit == SolverInit => SolverInv
  <1> SUFFICES ASSUME SolverInit PROVE SolverInv
    OBVIOUS
  <1>1. payload \in Payloads /\ IsWeek(payload)
    BY PayloadsAssumption DEF SolverInit
  <1>2. <<>> \in Plans(payload) /\ Feasible(payload, <<>>)
    BY <1>1, EmptyPlan
  <1>3. ObjectivesKept
    <2>1. Cardinality(Missions(<<>>)) \in Nat
      BY <1>1, <1>2, MissionsFinite
    <2> QED BY <2>1 DEF SolverInit, ObjectivesKept
  <1> QED BY <1>1, <1>2, <1>3 DEF SolverInit, SolverInv

LEMMA SolverInvStep == SolverInv /\ [SolverNext]_solverVars => SolverInv'
  <1> SUFFICES ASSUME SolverInv, [SolverNext]_solverVars PROVE SolverInv'
    OBVIOUS
  <1>1. payload \in Payloads /\ IsWeek(payload)
    BY PayloadsAssumption DEF SolverInv
  <1>2. plan \in Plans(payload) /\ solution \in Plans(payload) /\ Feasible(payload, plan)
    BY DEF SolverInv
  <1>3. Cardinality(Missions(plan)) \in Nat /\ Cardinality(Missions(solution)) \in Nat
    BY <1>1, <1>2, MissionsFinite
  <1>4. CASE Solve
    <2>1. /\ solution' \in Plans(payload) /\ Feasible(payload, solution') /\ plan' = solution'
          /\ payload' = payload /\ alone' = alone /\ stage = "solve" /\ stage' = "canonicalize"
      BY <1>4 DEF Solve, FeasiblePlans
    <2>2. ObjectivesKept'
      <3>1. Cardinality(Missions(solution')) \in Nat
        BY <1>1, <2>1, MissionsFinite
      <3> QED BY <2>1, <3>1 DEF ObjectivesKept
    <2> QED BY <1>1, <2>1, <2>2 DEF SolverInv
  <1>5. CASE Canonicalize
    <2>1. /\ plan' = Canonicalized(payload, plan) /\ payload' = payload /\ solution' = solution
          /\ alone' = alone /\ stage = "canonicalize" /\ stage' = "rebalance"
      BY <1>5 DEF Canonicalize
    <2>2. PICK m, w : Trades(payload, plan, plan', m, w)
      BY <1>1, <1>2, <2>1, CanonicalTrades
    <2>3. plan' \in Plans(payload)
      BY <2>2 DEF Trades
    <2>4. /\ Used(plan') = Used(plan) /\ Missions(plan') = Missions(plan)
          /\ Value(payload, plan') = Value(payload, plan) /\ Feasible(payload, plan')
      BY <1>1, <1>2, <2>2, TradesKeep
    <2>5. Fair(payload, plan')
      BY <1>1, <1>2, <2>1, CanonicalFair
    <2>6. ObjectivesKept'
      BY <2>1, <2>4 DEF SolverInv, ObjectivesKept
    <2> QED BY <2>1, <2>3, <2>4, <2>5, <2>6 DEF SolverInv
  <1>6. ASSUME Kept(payload, plan, plan'), payload' = payload, solution' = solution,
               stage \in {"rebalance", "singles"}, stage' = "singles",
               \A s \in alone' : s \in DOMAIN plan /\ Aboard(plan, FlightOf(plan, s)) = {s}
        PROVE  SolverInv'
    <2>1. /\ plan' \in Plans(payload) /\ DOMAIN plan' = DOMAIN plan
          /\ \A s \in DOMAIN plan : FlightOf(plan', s) = FlightOf(plan, s)
      BY <1>6 DEF Kept, SameFlights
    <2>2. /\ Feasible(payload, plan') /\ Used(plan') = Used(plan)
          /\ Value(payload, plan') = Value(payload, plan)
          /\ Cardinality(Missions(plan')) <= Cardinality(Missions(plan))
          /\ \A f : Aboard(plan', f) = Aboard(plan, f)
      BY <1>6 DEF Kept
    <2>3. Fair(payload, plan')
      BY <1>6, <2>1, FairKept DEF SolverInv
    <2>4. ObjectivesKept'
      <3>1. Cardinality(Missions(plan')) \in Nat
        BY <1>1, <2>1, MissionsFinite
      <3>2. Cardinality(Missions(plan)) <= Cardinality(Missions(solution))
        BY DEF SolverInv, ObjectivesKept
      <3>3. Cardinality(Missions(plan')) <= Cardinality(Missions(solution))
        BY <1>3, <2>2, <3>1, <3>2
      <3> QED BY <1>6, <2>2, <3>3 DEF SolverInv, ObjectivesKept
    <2>5. \A s \in alone' : s \in DOMAIN plan' /\ Aboard(plan', FlightOf(plan', s)) = {s}
      BY <1>6, <2>1, <2>2
    <2> QED BY <1>1, <1>2, <1>6, <2>1, <2>2, <2>3, <2>4, <2>5 DEF SolverInv
  <1>7. CASE Rebalance
    <2>1. /\ plan' = Rebalanced(payload, plan) /\ payload' = payload /\ solution' = solution
          /\ stage = "rebalance" /\ stage' = "singles"
          /\ alone' = {s \in DOMAIN plan : Aboard(plan, FlightOf(plan, s)) = {s}}
      BY <1>7 DEF Rebalance
    <2>2. Kept(payload, plan, plan')
      BY <1>1, <1>2, <2>1, RebalancedKeeps
    <2> QED BY <1>6, <2>1, <2>2
  <1>8. ASSUME NEW s \in Ships(payload), Reassign(s) PROVE SolverInv'
    <2>1. /\ stage = "singles" /\ s \in alone /\ alone' = alone \ {s}
          /\ plan' = [plan EXCEPT ![s] = <<FlightOf(plan, s), SingleVolunteer(payload, plan, s)>>]
          /\ payload' = payload /\ solution' = solution /\ stage' = stage
      BY <1>8 DEF Reassign
    <2>2. \A t \in alone : t \in DOMAIN plan /\ Aboard(plan, FlightOf(plan, t)) = {t}
      BY DEF SolverInv
    <2>3. Kept(payload, plan, plan')
      BY <1>1, <1>2, <2>1, <2>2, ReassignedKeeps
    <2> QED BY <1>6, <2>1, <2>2, <2>3
  <1>9. CASE UNCHANGED solverVars
    BY <1>9 DEF solverVars, SolverInv, ObjectivesKept
  <1> QED BY <1>4, <1>5, <1>7, <1>8, <1>9 DEF SolverNext

LEMMA SolverInvAlways == SolverSpec => []SolverInv
  BY SolverInvInit, SolverInvStep, PTL DEF SolverSpec

\* Whatever plan of whatever week the solver returns, the passes leave one that meets
\* every constraint it met, is worth as much on the same flights with no more missions,
\* and serves as many shippers as it can.
THEOREM PlansStayAsGood == SolverSpec => []PlanStaysAsGood
  <1>1. SolverInv => PlanStaysAsGood
    BY DEF SolverInv, PlanStaysAsGood, ShippersServed, Fair, Shippers
  <1> QED BY <1>1, SolverInvAlways, PTL

\* The passes plan shipments of the week alone, each with a flight and a volunteer.
THEOREM SolverTypesHold == SolverSpec => []SolverTypeOK
  <1>1. SolverInv => SolverTypeOK
    BY DEF SolverInv, SolverTypeOK
  <1> QED BY <1>1, SolverInvAlways, PTL
=============================================================================
