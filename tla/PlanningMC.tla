----------------------------- MODULE PlanningMC -----------------------------
(* Small weeks of the planning for TLC. A behaviour shows one desk at work:  *)
(* the solver on a week, or the versions of a run with their requests.       *)
EXTENDS PlanningSolver, PlanningVersions, TLC

VARIABLE desk   \* it never changes

\* Three shipments for A, of which one may be for B; two flights to A, the second
\* soon after the first or not, and the first one's second leg, to B.
Week(units, rank, dest, shipper, printed, second, load, frequency) ==
    [ship |-> [s \in {1, 2, 3} |->
        [dest |-> IF s = 3 THEN dest ELSE "A",
         units |-> IF s = 2 THEN units ELSE 1,
         cartons |-> 1,
         rank |-> IF s = 2 THEN rank ELSE 1, priority |-> 1,
         shipper |-> IF s = 3 THEN shipper ELSE "x",
         left |-> None, printed |-> IF s = 2 THEN printed ELSE None, packed |-> None]],
     flight |-> [f \in {1, 2, 3} |->
        [dest |-> IF f = 3 THEN "B" ELSE "A", day |-> 1,
         time |-> IF f = 2 THEN second ELSE 600,
         key |-> IF f = 2 THEN 2 ELSE 1, pos |-> IF f = 3 THEN 2 ELSE 1,
         capacity |-> IF f = 2 THEN None ELSE 2]],
     vol |-> [v \in {1, 2} |->
        [load |-> IF v = 1 THEN load ELSE None,
         slots |-> IF v = 1 THEN {[day |-> 1, from |-> 400, to |-> 1000]}
                   ELSE {[day |-> 1, from |-> 300, to |-> 800], [day |-> 1, from |-> 810, to |-> 1300]},
         off |-> {}]],
     rule |-> [d \in {"A", "B"} |->
        [days |-> {}, cartons |-> IF d = "A" THEN 2 ELSE None, frequency |-> frequency]]]

NoWeek == [ship |-> <<>>, flight |-> <<>>, vol |-> <<>>, rule |-> <<>>]

Weeks ==
    {NoWeek} \cup
    {Week(u, r, d, sh, pr, t, l, n) :
        u \in {1, 2}, r \in {1, 2}, d \in {"A", "B"}, sh \in {"x", "y"}, pr \in {None, 5},
        t \in {720, 900}, l \in {1, None}, n \in {None, 1}}
NoWeeks == {NoWeek}

\* The week of the run whose versions are edited: two flights for a shipment, too
\* close for one volunteer, and the second with room for one.
EditedWeek ==
    [ship |-> [s \in {1} |->
        [dest |-> "A", units |-> 1, cartons |-> 1, rank |-> 1, priority |-> 1,
         shipper |-> "x", left |-> None, printed |-> None, packed |-> None]],
     flight |-> [f \in {1, 2} |->
        [dest |-> "A", day |-> 1, time |-> 600 + 120 * f, key |-> f, pos |-> 1,
         capacity |-> IF f = 1 THEN 2 ELSE 1]],
     vol |-> [v \in {1} |->
        [load |-> None, slots |-> {[day |-> 1, from |-> 400, to |-> 1200]}, off |-> {}]],
     rule |-> [d \in {"A"} |-> [days |-> {}, cartons |-> None, frequency |-> None]]]

Symmetric == Permutations(Request)

Created == {v \in Version : version[v].status # "absent"}
Busy == {r \in Request : req[r] # Idle}

\* What each desk leaves out, to keep the instance small: two requests edit one
\* version and generate its messages; one request at a time revises two versions;
\* two requests publish three versions, with no edits and no messages.
Kept ==
    CASE desk = "edits" -> Cardinality(Created') <= 1
      [] desk = "revisions" -> Cardinality(Created') <= 2 /\ Cardinality(Busy') <= 1
      [] desk = "publications" ->
            \A r \in Request : req'[r].kind \in {"idle", "solve", "publish"}

PlanningInit ==
    /\ desk \in {"solver", "edits", "revisions", "publications"}
    /\ SolverInit /\ VersionsInit
    /\ desk # "solver" => payload = NoWeek

PlanningNext ==
    \/ desk = "solver" /\ SolverNext /\ UNCHANGED <<versionVars, desk>>
    \/ desk # "solver" /\ VersionsNext /\ Kept /\ UNCHANGED <<solverVars, desk>>

PlanningSpec == PlanningInit /\ [][PlanningNext]_<<solverVars, versionVars, desk>>

\* One type invariant for the two halves.
PlanningTypeOK == SolverTypeOK /\ VersionsTypeOK
=============================================================================
