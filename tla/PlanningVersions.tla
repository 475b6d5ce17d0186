--------------------------- MODULE PlanningVersions ---------------------------
(***************************************************************************)
(* The versions of a planning run: wms/planning/versioning.py, the pages   *)
(* of wms/views_planning.py that solve, edit, clone and publish, and the   *)
(* communication drafts of a published version. A request reads, checks    *)
(* and writes; between the two, others commit.                             *)
(*                                                                         *)
(* Publication is followed lock by lock, as MySQL does it under Django's   *)
(* READ COMMITTED: an UPDATE waits for a row that another transaction has  *)
(* locked only if the row's committed values match.                        *)
(***************************************************************************)
EXTENDS PlanningRules

CONSTANTS
    Version,   \* version numbers, from 1
    Row,       \* ids of a version's assignments, from 1
    Request,   \* requests that may be in progress together
    RunWeek    \* the payload of the run

ASSUME VersionsAssumption ==
    /\ IsFiniteSet(Version) /\ Version = 1..Cardinality(Version)
    /\ IsFiniteSet(Row) /\ Row = 1..Cardinality(Row)

\* compile_run_solver_payload: what the snapshots of a run hold.
ASSUME WeekAssumption ==
    /\ IsWeek(RunWeek)
    /\ None \notin Ships(RunWeek) \cup Flights(RunWeek)

VARIABLES
    run,         \* the status of the run
    version,     \* the versions: status, assignments by id, the last id given
    drafts,      \* how many sets of communication drafts each has, up to 2
    req,         \* what each request holds
    overlapped,  \* pairs of versions whose publications ran at the same time
    careless,    \* versions with an edit nobody checked, or checked too early
    crossed      \* versions whose drafts two requests generated at once

versionVars == <<run, version, drafts, req, overlapped, careless, crossed>>

Ref == [ship: Ships(RunWeek) \cup {None}, flight: Flights(RunWeek) \cup {None},
        vol: Vols(RunWeek) \cup {None}]
NullRef == [ship |-> None, flight |-> None, vol |-> None]
Rows == UNION {[ids -> Ref] : ids \in SUBSET Row}
VersionRow == [status: {"absent", "draft", "published", "superseded"}, rows: Rows, last: {0} \cup Row]
NoVersion == [status |-> "absent", rows |-> <<>>, last |-> 0]

Idle == [kind |-> "idle"]
\* A solve holds the status it read; an edit what it will write, and: checked,
\* its validation still stands; overtaken, its version was published meanwhile.
SolveReq == [kind: {"solve"}, seen: {"draft", "ready", "failed", "solved"}]
EditReq == [kind: {"delete", "update", "assign", "form"}, v: Version, id: {0} \cup Row,
            ref: Ref, checked: BOOLEAN, overtaken: BOOLEAN]
\* at: the next row that the UPDATE examines; own and supersedes: its locks.
PublishReq == [kind: {"publish"}, v: Version, at: Nat, supersedes: SUBSET Version]
GenerateReq == [kind: {"generate"}, v: Version, cleared: BOOLEAN]

Editing(r) == req[r].kind \in {"delete", "update", "assign", "form"}
Publishing(r) == req[r].kind = "publish"
Live(v) == version[v].status # "absent"
NextNumber == 1 + Cardinality({v \in Version : Live(v)})

VersionsInit ==
    /\ run = "draft"
    /\ version = [v \in Version |-> NoVersion]
    /\ drafts = [v \in Version |-> 0]
    /\ req = [r \in Request |-> Idle]
    /\ overlapped = {} /\ careless = {} /\ crossed = {}

Finish(r) == req' = [req EXCEPT ![r] = Idle]

\* The process dies, or a check refuses: nothing of the request is committed.
Abandon(r) ==
    /\ req[r] # Idle
    /\ Finish(r)
    /\ UNCHANGED <<run, version, drafts, overlapped, careless, crossed>>

----------------------------------------------------------------------------
\* planning_run_solve, posted from any page that still shows its button.
LoadSolve(r) ==
    /\ req[r] = Idle
    /\ req' = [req EXCEPT ![r] = [kind |-> "solve", seen |-> run]]
    /\ UNCHANGED <<run, version, drafts, overlapped, careless, crossed>>

\* Mutant: a refused preparation leaves the run as it was while being checked.
PrepareUnfinished(r, valid) ==
    /\ req[r].kind = "solve" /\ req[r].seen # "ready"
    /\ run' = IF valid THEN "ready" ELSE "validating"
    /\ version' = [v \in Version |->
                     [version[v] EXCEPT !.rows = [id \in DOMAIN version[v].rows |-> NullRef]]]
    /\ req' = [s \in Request |->
                 IF s = r THEN (IF valid THEN [kind |-> "solve", seen |-> "ready"] ELSE Idle)
                 ELSE IF Editing(s) /\ req[s].kind # "delete" THEN Idle
                 ELSE req[s]]
    /\ UNCHANGED <<drafts, overlapped, careless, crossed>>

\* prepare_run_inputs makes new snapshots; the assignments of every version lose
\* the old ones (SET_NULL). A request that holds some cannot save them: only a
\* deletion still goes through.
Prepare(r, valid) ==
    /\ req[r].kind = "solve" /\ req[r].seen # "ready"
    /\ run' = IF valid THEN "ready" ELSE "failed"
    /\ version' = [v \in Version |->
                     [version[v] EXCEPT !.rows = [id \in DOMAIN version[v].rows |-> NullRef]]]
    /\ req' = [s \in Request |->
                 IF s = r THEN (IF valid THEN [kind |-> "solve", seen |-> "ready"] ELSE Idle)
                 ELSE IF Editing(s) /\ req[s].kind # "delete" THEN Idle
                 ELSE req[s]]
    /\ UNCHANGED <<drafts, overlapped, careless, crossed>>

\* Rows for the shipments of a plan, in their order.
RowsOf(plan) ==
    LET nth(id) == CHOOSE s \in DOMAIN plan :
                     Cardinality({t \in DOMAIN plan : t <= s}) = id
    IN  [id \in 1..Cardinality(DOMAIN plan) |->
            [ship |-> nth(id), flight |-> FlightOf(plan, nth(id)), vol |-> VolOf(plan, nth(id))]]

\* solve_run: a new draft with what the solver found.
SolveRun(r) ==
    /\ req[r].kind = "solve" /\ req[r].seen = "ready"
    /\ NextNumber \in Version
    /\ \E plan \in FeasiblePlans(RunWeek) :
         version' = [version EXCEPT ![NextNumber] =
                       [status |-> "draft", rows |-> RowsOf(plan),
                        last |-> Cardinality(DOMAIN plan)]]
    /\ run' = "solved"
    /\ Finish(r)
    /\ UNCHANGED <<drafts, overlapped, careless, crossed>>

----------------------------------------------------------------------------
\* clone_version, in one transaction.
CloneVersion(v) ==
    /\ Live(v) /\ NextNumber \in Version
    /\ LET ids == DOMAIN version[v].rows
           nth(i) == CHOOSE id \in ids : Cardinality({o \in ids : o <= id}) = i
       IN  version' = [version EXCEPT ![NextNumber] =
                         [status |-> "draft",
                          rows |-> [i \in 1..Cardinality(ids) |-> version[v].rows[nth(i)]],
                          last |-> Cardinality(ids)]]
    /\ careless' = IF v \in careless THEN careless \cup {NextNumber} ELSE careless
    /\ UNCHANGED <<run, drafts, req, overlapped, crossed>>

\* publish_version locks its own row and checks it.
LockedBy(s) == IF Publishing(s) THEN {req[s].v} \cup req[s].supersedes ELSE {}
Free(v, r) == \A s \in Request \ {r} : v \notin LockedBy(s)

StartPublish(r, v) ==
    /\ req[r] = Idle
    /\ version[v].status = "draft" /\ Free(v, r)
    /\ req' = [req EXCEPT ![r] = [kind |-> "publish", v |-> v, at |-> 1, supersedes |-> {}]]
    /\ overlapped' = overlapped \cup {{v, req[s].v} : s \in {t \in Request : Publishing(t)}}
    /\ UNCHANGED <<run, version, drafts, careless, crossed>>

\* Mutant: the UPDATE goes no further than the version itself.
SupersedeOlder(r) ==
    /\ Publishing(r) /\ req[r].at \in Version
    /\ LET n == req[r].at
           hit == n < req[r].v /\ version[n].status = "published"
       IN  /\ hit => Free(n, r)
           /\ req' = [req EXCEPT ![r].at = n + 1,
                                 ![r].supersedes = IF hit THEN @ \cup {n} ELSE @]
    /\ UNCHANGED <<run, version, drafts, overlapped, careless, crossed>>

\* The UPDATE examines the other versions, oldest first.
Supersede(r) ==
    /\ Publishing(r) /\ req[r].at \in Version
    /\ LET n == req[r].at
           hit == n # req[r].v /\ version[n].status = "published"
       IN  /\ hit => Free(n, r)
           /\ req' = [req EXCEPT ![r].at = n + 1,
                                 ![r].supersedes = IF hit THEN @ \cup {n} ELSE @]
    /\ UNCHANGED <<run, version, drafts, overlapped, careless, crossed>>

CommitPublish(r) ==
    /\ Publishing(r) /\ req[r].at \notin Version
    /\ version' = [v \in Version |->
                     IF v = req[r].v THEN [version[v] EXCEPT !.status = "published"]
                     ELSE IF v \in req[r].supersedes
                     THEN [version[v] EXCEPT !.status = "superseded"]
                     ELSE version[v]]
    /\ req' = [s \in Request |->
                 IF s = r THEN Idle
                 ELSE IF Editing(s) /\ req[s].v = req[r].v
                 THEN [req[s] EXCEPT !.overtaken = TRUE]
                 ELSE req[s]]
    /\ UNCHANGED <<run, drafts, overlapped, careless, crossed>>

----------------------------------------------------------------------------
\* The assignments of a version on a flight, the edited one aside.
OnFlight(rows, f, but) == {id \in DOMAIN rows \ {but} : rows[id].flight = f}
RowUnits(rows, ids) ==
    SumFunction([id \in ids |-> IF rows[id].ship = None THEN 0 ELSE RunWeek.ship[rows[id].ship].units])

\* explain_flight_rejection: cartons are compared shipment by shipment.
FlightAccepts(rows, s, f, but) ==
    /\ ShipFits(RunWeek, s, f)
    /\ Within(RunWeek.ship[s].units + RowUnits(rows, OnFlight(rows, f, but)),
              RunWeek.flight[f].capacity)

ConflictMargin == 150   \* CONFLICT_MARGIN_MINUTES
Clash(f, g) ==
    /\ f # None /\ g # None
    /\ RunWeek.flight[f].time # None /\ RunWeek.flight[g].time # None
    /\ RunWeek.flight[f].key # RunWeek.flight[g].key
    /\ Distance(Departure(RunWeek, f), Departure(RunWeek, g)) < ConflictMargin
HasAvailability(v) == RunWeek.vol[v].slots # {} \/ RunWeek.vol[v].off # {}

\* Mutant: the volunteer's other missions are not looked at.
VolAcceptsAlone(rows, v, f, but) == HasAvailability(v) => VolFits(RunWeek, v, f)

\* explain_volunteer_rejection.
VolAccepts(rows, v, f, but) ==
    HasAvailability(v) =>
        /\ VolFits(RunWeek, v, f)
        /\ \A id \in DOMAIN rows \ {but} : rows[id].vol = v => ~ Clash(f, rows[id].flight)

Accepts(rows, ref, but) ==
    FlightAccepts(rows, ref.ship, ref.flight, but) /\ VolAccepts(rows, ref.vol, ref.flight, but)

Edit(kind, v, id, ref) ==
    [kind |-> kind, v |-> v, id |-> id, ref |-> ref, checked |-> kind # "form",
     overtaken |-> FALSE]

MovedRow(v, id) ==
    [ship: {version[v].rows[id].ship}, flight: Flights(RunWeek), vol: Vols(RunWeek)]

\* delete_assignment.
Deletions(v) == UNION {{Edit("delete", v, id, NullRef)} : id \in DOMAIN version[v].rows}

\* update_assignment.
Updates(v) ==
    UNION {{Edit("update", v, id, ref) :
               ref \in {m \in MovedRow(v, id) : Accepts(version[v].rows, m, id)}} :
              id \in {i \in DOMAIN version[v].rows : version[v].rows[i].ship # None}}

\* The form of all assignments checks nothing.
FormEdits(v) ==
    UNION {{Edit("form", v, id, ref) : ref \in MovedRow(v, id)} : id \in DOMAIN version[v].rows}

\* assign_unassigned_shipment.
Additions(v) ==
    {Edit("assign", v, 0, ref) :
        ref \in {m \in [ship: Ships(RunWeek), flight: Flights(RunWeek), vol: Vols(RunWeek)] :
                    Accepts(version[v].rows, m, 0)}}

\* The draft as a request finds it, and the edit it will make once its checks
\* have passed.
Edits(v) == Deletions(v) \cup Updates(v) \cup FormEdits(v) \cup Additions(v)

\* Mutant: the status is not looked at.
LoadAnyEdit(r, v) ==
    /\ req[r] = Idle /\ Live(v)
    /\ \E edit \in Edits(v) : req' = [req EXCEPT ![r] = edit]
    /\ UNCHANGED <<run, version, drafts, overlapped, careless, crossed>>

LoadEdit(r, v) ==
    /\ req[r] = Idle /\ version[v].status = "draft"
    /\ \E edit \in Edits(v) : req' = [req EXCEPT ![r] = edit]
    /\ UNCHANGED <<run, version, drafts, overlapped, careless, crossed>>

\* The others' validations of a version stand as long as nothing is added to it.
Unchecked(r, v) ==
    [s \in Request |->
        IF s = r THEN Idle
        ELSE IF Editing(s) /\ req[s].v = v THEN [req[s] EXCEPT !.checked = FALSE]
        ELSE req[s]]

DeleteRow(r) ==
    /\ req[r].kind = "delete"
    /\ version' = [version EXCEPT ![req[r].v].rows =
                     [id \in DOMAIN version[req[r].v].rows \ {req[r].id} |->
                         version[req[r].v].rows[id]]]
    /\ Finish(r)
    /\ UNCHANGED <<run, drafts, overlapped, careless, crossed>>

\* save(update_fields) fails on a row that is gone, and keeps its shipment; the
\* form's save() writes the whole row, and brings a deleted one back.
SaveRow(r) ==
    LET v == req[r].v
        rows == version[v].rows
        id == req[r].id
        saved == IF req[r].kind = "update" THEN [req[r].ref EXCEPT !.ship = rows[id].ship]
                 ELSE req[r].ref
    IN  /\ req[r].kind \in {"update", "form"}
        /\ req[r].kind = "update" => id \in DOMAIN rows
        /\ version' = [version EXCEPT ![v].rows =
                         [i \in DOMAIN rows \cup {id} |-> IF i = id THEN saved ELSE rows[i]]]
        /\ careless' = IF req[r].checked THEN careless ELSE careless \cup {v}
        /\ req' = Unchecked(r, v)
        /\ UNCHANGED <<run, drafts, overlapped, crossed>>

AssignRow(r) ==
    LET v == req[r].v
        id == version[v].last + 1
    IN  /\ req[r].kind = "assign" /\ id \in Row
        /\ version' = [version EXCEPT
                         ![v].last = id,
                         ![v].rows = [i \in DOMAIN version[v].rows \cup {id} |->
                                         IF i = id THEN req[r].ref ELSE version[v].rows[i]]]
        /\ careless' = IF req[r].checked THEN careless ELSE careless \cup {v}
        /\ req' = Unchecked(r, v)
        /\ UNCHANGED <<run, drafts, overlapped, crossed>>

----------------------------------------------------------------------------
\* generate_version_drafts: the old drafts go in one commit, the new ones come in
\* another. An empty plan may still have messages for those of its parent.
LoadGenerate(r, v) ==
    /\ req[r] = Idle /\ version[v].status = "published"
    /\ req' = [req EXCEPT ![r] = [kind |-> "generate", v |-> v, cleared |-> FALSE]]
    /\ UNCHANGED <<run, version, drafts, overlapped, careless, crossed>>

Generating(v) == {r \in Request : req[r].kind = "generate" /\ req[r].v = v /\ req[r].cleared}

\* Mutant: the old drafts stay.
ClearNothing(r) ==
    /\ req[r].kind = "generate" /\ ~ req[r].cleared
    /\ crossed' = IF Generating(req[r].v) = {} THEN crossed ELSE crossed \cup {req[r].v}
    /\ req' = [req EXCEPT ![r].cleared = TRUE]
    /\ UNCHANGED <<run, version, drafts, overlapped, careless>>

ClearDrafts(r) ==
    /\ req[r].kind = "generate" /\ ~ req[r].cleared
    /\ drafts' = [drafts EXCEPT ![req[r].v] = 0]
    /\ crossed' = IF Generating(req[r].v) = {} THEN crossed ELSE crossed \cup {req[r].v}
    /\ req' = [req EXCEPT ![r].cleared = TRUE]
    /\ UNCHANGED <<run, version, overlapped, careless>>

CreateDrafts(r) ==
    /\ req[r].kind = "generate" /\ req[r].cleared
    /\ \E some \in BOOLEAN :
         /\ version[req[r].v].rows # <<>> => some
         /\ drafts' = IF some THEN [drafts EXCEPT ![req[r].v] = IF @ < 2 THEN @ + 1 ELSE 2]
                      ELSE drafts
    /\ Finish(r)
    /\ UNCHANGED <<run, version, overlapped, careless, crossed>>

----------------------------------------------------------------------------
VersionsNext ==
    \/ \E r \in Request :
          \/ Abandon(r)
          \/ LoadSolve(r) \/ SolveRun(r) \/ \E valid \in BOOLEAN : Prepare(r, valid)
          \/ Supersede(r) \/ CommitPublish(r)
          \/ DeleteRow(r) \/ SaveRow(r) \/ AssignRow(r)
          \/ ClearDrafts(r) \/ CreateDrafts(r)
          \/ \E v \in Version : StartPublish(r, v) \/ LoadEdit(r, v) \/ LoadGenerate(r, v)
    \/ \E v \in Version : CloneVersion(v)

VersionsSpec == VersionsInit /\ [][VersionsNext]_versionVars

----------------------------------------------------------------------------
(***************************************************************************)
(* Properties.                                                             *)
(***************************************************************************)
VersionsTypeOK ==
    /\ run \in {"draft", "ready", "failed", "solved"}
    /\ version \in [Version -> VersionRow]
    /\ drafts \in [Version -> 0..2]
    /\ req \in [Request -> {Idle} \cup SolveReq \cup EditReq \cup PublishReq \cup GenerateReq]
    /\ overlapped \subseteq SUBSET Version
    /\ careless \subseteq Version
    /\ crossed \subseteq Version

\* A run has one published version; two only where both publications ran at the
\* same time, each without seeing the other.
CoPublishedOverlapped ==
    \A v, w \in Version :
        v # w /\ version[v].status = "published" /\ version[w].status = "published" =>
            {v, w} \in overlapped

\* Edits that were checked, and clones, keep what the solver gave: no flight
\* above its capacity, no volunteer in two places. Only the unchecked form and
\* checks that others overtook break it.
CarefulPlansHold ==
    \A v \in Version \ careless :
        LET rows == version[v].rows
        IN  /\ \A f \in Flights(RunWeek) :
                 Within(RowUnits(rows, OnFlight(rows, f, 0)), RunWeek.flight[f].capacity)
            /\ \A i, j \in DOMAIN rows :
                 rows[i].vol = rows[j].vol /\ rows[i].vol # None /\ HasAvailability(rows[i].vol) =>
                     ~ Clash(rows[i].flight, rows[j].flight)

\* The assignments of a published or superseded version change only by losing
\* their snapshots to a new preparation of the run, or by an edit that was under
\* way when the version was published.
PublishedRowsFrozen ==
    [][\A v \in Version :
          version[v].status \in {"published", "superseded"} /\ version'[v].rows # version[v].rows =>
              \/ version'[v].rows = [id \in DOMAIN version[v].rows |-> NullRef]
              \/ \E r \in Request :
                    Editing(r) /\ req[r].v = v /\ req[r].overtaken /\ req'[r] = Idle]_versionVars

\* Nobody gets the messages of a version twice, unless two operators generated
\* them at the same time.
DraftsOnce == \A v \in Version : drafts[v] > 1 => v \in crossed

\* "Une version publiee reste immuable"
\* (docs/plans/2026-03-11-planning-version-operator-parity-design.md:39).
PublishedFrozen ==
    [][\A v \in Version :
          version[v].status = "published" => version'[v].rows = version[v].rows]_versionVars
=============================================================================
