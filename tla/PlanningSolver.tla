---------------------------- MODULE PlanningSolver ----------------------------
(***************************************************************************)
(* wms/planning/solver.py: OR-Tools returns a plan of the week, and three  *)
(* passes then trade shipments and volunteers in it: equal shipments are   *)
(* exchanged for those that go first, the volunteers of a flight share its *)
(* shipments anew, and each shipment alone on its flight gets the          *)
(* volunteer who has the most time. None of them asks the solver again.    *)
(*                                                                         *)
(* The solver is stopped by a time limit and may then return any plan that *)
(* meets its constraints; its objectives are not modelled.                 *)
(***************************************************************************)
EXTENDS PlanningRules

CONSTANT Payloads   \* the weeks a run may be asked to plan
ASSUME PayloadsAssumption == \A p \in Payloads : IsWeek(p)

VARIABLES
    payload,   \* the week
    solution,  \* what OR-Tools returned
    plan,      \* the plan so far
    stage,     \* the pass that comes next
    alone      \* the shipments alone on their flight, not yet looked at

solverVars == <<payload, solution, plan, stage, alone>>

SolverInit ==
    /\ payload \in Payloads
    /\ solution = <<>> /\ plan = <<>>
    /\ stage = "solve"
    /\ alone = {}

\* _solve_candidates, until the model is solved.
Solve ==
    /\ stage = "solve"
    /\ solution' \in FeasiblePlans(payload)
    /\ plan' = solution'
    /\ stage' = "canonicalize"
    /\ UNCHANGED <<payload, alone>>

----------------------------------------------------------------------------
Flag(b) == IF b THEN 1 ELSE 0
Ordinal(date) == IF date = None THEN -1 ELSE date

\* _shipment_legacy_tie_break_key, highest first; _shipment_legacy_assignment_key.
TieBreakKey(p, s) ==
    <<Flag(p.ship[s].left # None), Ordinal(p.ship[s].printed), Ordinal(p.ship[s].packed), -s>>
AssignmentKey(p, s) ==
    <<p.ship[s].priority, Flag(p.ship[s].left = None), Ordinal(p.ship[s].packed),
      Ordinal(p.ship[s].printed), s>>
HasTieBreak(p, s) == {p.ship[s].left, p.ship[s].printed, p.ship[s].packed} # {None}

Ahead(p, s, t) == Before(TieBreakKey(p, t), TieBreakKey(p, s))
\* The first n of a set of shipments.
Foremost(p, ships, n) ==
    {s \in ships : Cardinality({t \in ships : Ahead(p, t, s)}) < n}

\* Mutant: the foremost, whoever ships them.
PreferredAnyShipper(p, group, n) == Foremost(p, group, n)

\* _select_legacy_preferred_shipment_ids: one shipment per shipper first.
Preferred(p, group, n) ==
    LET heads == {s \in group : \A t \in group :
                    p.ship[t].shipper = p.ship[s].shipper => ~ Ahead(p, t, s)}
    IN  IF n <= Cardinality(heads) THEN Foremost(p, heads, n)
        ELSE heads \cup Foremost(p, group \ heads, n - Cardinality(heads))

\* The shipments that are as good as s for the solver.
GroupKey(p, s) ==
    <<p.ship[s].dest, p.ship[s].units, p.ship[s].cartons, p.ship[s].rank, Compatible(p, s)>>

Same(p, s) == {t \in Ships(p) : GroupKey(p, t) = GroupKey(p, s)}

\* The groups with shipments left out and legacy dates to choose by.
Contested(p, x) ==
    {g \in {Same(p, s) : s \in Ships(p)} :
        g \cap DOMAIN x # {} /\ ~ g \subseteq DOMAIN x /\ \E s \in g : HasTieBreak(p, s)}

\* The shipments of a group that take its slots.
Takers(p, x, g) == Preferred(p, g, Cardinality(g \cap DOMAIN x))

\* The plan's slots of a group, soonest first, go to the takers in their
\* order. A slot is named by the shipment that had it.
SlotKey(p, x, s) == <<Departure(p, FlightOf(x, s)), s>>
SlotsBefore(p, x, g, s) ==
    {t \in g \cap DOMAIN x : Before(SlotKey(p, x, t), SlotKey(p, x, s))}
TakersBefore(p, x, g, s) ==
    {t \in Takers(p, x, g) : Before(AssignmentKey(p, t), AssignmentKey(p, s))}
Slot(p, x, g, s) ==
    CHOOSE t \in g \cap DOMAIN x :
        Cardinality(SlotsBefore(p, x, g, t)) = Cardinality(TakersBefore(p, x, g, s))

\* _canonicalize_legacy_equal_weight_assignments.
Canonicalized(p, x) ==
    LET traded(s) == Same(p, s) \in Contested(p, x)
        in == {s \in Ships(p) :
                 IF traded(s) THEN s \in Takers(p, x, Same(p, s)) ELSE s \in DOMAIN x}
    IN  [s \in in |-> IF traded(s) THEN x[Slot(p, x, Same(p, s), s)] ELSE x[s]]

Canonicalize ==
    /\ stage = "canonicalize"
    /\ plan' = Canonicalized(payload, plan)
    /\ stage' = "rebalance"
    /\ UNCHANGED <<payload, solution, alone>>

----------------------------------------------------------------------------
\* The ways to share the shipments of a flight among its volunteers.
Shares(p, ships, vols) ==
    {share \in [ships -> vols] :
        \A v \in vols : Units(p, {s \in ships : share[s] = v}) <= Load(p, v)}

\* _solve_lexicographic_flight_distribution.
FirstShare(p, ships, vols) ==
    CHOOSE share \in Shares(p, ships, vols) :
        \A other \in Shares(p, ships, vols) \ {share} :
            \E s \in ships :
                share[s] < other[s] /\ \A t \in ships : t < s => share[t] = other[t]

\* _rebalance_assignments_by_flight, its first loop.
Crew(x, f) == {VolOf(x, s) : s \in Aboard(x, f)}
Rebalanced(p, x) ==
    LET shared == {f \in Used(x) : Cardinality(Aboard(x, f)) > 1 /\ Cardinality(Crew(x, f)) > 1}
        share == [f \in shared |-> FirstShare(p, Aboard(x, f), Crew(x, f))]
    IN  [s \in DOMAIN x |->
            IF FlightOf(x, s) \in shared THEN <<FlightOf(x, s), share[FlightOf(x, s)][s]>>
            ELSE x[s]]

Rebalance ==
    /\ stage = "rebalance"
    /\ plan' = Rebalanced(payload, plan)
    /\ alone' = {s \in DOMAIN plan : Aboard(plan, FlightOf(plan, s)) = {s}}
    /\ stage' = "singles"
    /\ UNCHANGED <<payload, solution>>

\* _volunteer_slot_bounds_for_flight.
SlotsThatDay(p, v, f) ==
    {slot \in p.vol[v].slots : slot.day = p.flight[f].day /\ slot.from < slot.to}
LongestSlot(p, v, f) ==
    CHOOSE slot \in SlotsThatDay(p, v, f) :
        \A other \in SlotsThatDay(p, v, f) \ {slot} : Before(<<-slot.to, slot.from>>,
                                                            <<-other.to, other.from>>)

\* Mutant: only the flight itself is looked at.
ConflictsOnFlight(p, x, v, s) ==
    \E t \in DOMAIN x \ {s} : VolOf(x, t) = v /\ FlightOf(x, t) = FlightOf(x, s)

\* _assignment_conflicts_for_volunteer, for a shipment alone on its flight.
Conflicts(p, x, v, s) ==
    \E t \in DOMAIN x \ {s} : VolOf(x, t) = v /\ ~ Apart(p, FlightOf(x, t), FlightOf(x, s))

\* _select_single_shipment_volunteer: the one whose slot ends last, then lasts
\* longest.
SingleVolunteer(p, x, s) ==
    LET f == FlightOf(x, s)
        free == {v \in Vols(p) : /\ <<f, v>> \in Compatible(p, s)
                             /\ ~ Conflicts(p, x, v, s)
                             /\ SlotsThatDay(p, v, f) # {}}
        key(v) == LET slot == LongestSlot(p, v, f) IN <<-slot.to, slot.from - slot.to, v>>
    IN  IF free = {} THEN VolOf(x, s)
        ELSE CHOOSE v \in free : \A w \in free \ {v} : Before(key(v), key(w))

\* The second loop, soonest flight first: each choice sees the ones before it.
Reassign(s) ==
    /\ stage = "singles" /\ s \in alone
    /\ \A t \in alone \ {s} : Before(SlotKey(payload, plan, s), SlotKey(payload, plan, t))
    /\ plan' = [plan EXCEPT ![s] = <<FlightOf(plan, s), SingleVolunteer(payload, plan, s)>>]
    /\ alone' = alone \ {s}
    /\ UNCHANGED <<payload, solution, stage>>

SolverNext == Solve \/ Canonicalize \/ Rebalance \/ \E s \in Ships(payload) : Reassign(s)

SolverSpec == SolverInit /\ [][SolverNext]_solverVars

----------------------------------------------------------------------------
(***************************************************************************)
(* Properties.                                                             *)
(***************************************************************************)
SolverTypeOK ==
    /\ solution \in Plans(payload)
    /\ plan \in Plans(payload)
    /\ stage \in {"solve", "canonicalize", "rebalance", "singles"}
    /\ alone \subseteq DOMAIN plan

Weight(p, s) == p.ship[s].units * (IF p.ship[s].rank < 10 THEN 10 - p.ship[s].rank ELSE 0)
Value(p, x) == SumFunction([s \in DOMAIN x |-> Weight(p, s)])

\* The plan is as good as the solver's: the same weight on the same flights, with
\* no more missions.
ObjectivesKept ==
    /\ Value(payload, plan) = Value(payload, solution)
    /\ Used(plan) = Used(solution)
    /\ Cardinality(Missions(plan)) <= Cardinality(Missions(solution))

\* Of equal shipments that compete, those served are of as many shippers as can be.
ShippersServed ==
    stage \in {"rebalance", "singles"} =>
        \A g \in Contested(payload, plan) :
            LET served == {payload.ship[s].shipper : s \in g \cap DOMAIN plan}
                shippers == {payload.ship[s].shipper : s \in g}
            IN  \/ served = shippers
                \/ Cardinality(served) = Cardinality(g \cap DOMAIN plan)

\* Whatever the passes trade, the plan still meets every constraint that was put
\* to the solver, capacities, loads, availability, missions three hours apart, and
\* is worth as much as what the solver found; and where equal shipments compete for
\* too few slots, as many shippers as possible are served.
PlanStaysAsGood == Feasible(payload, plan) /\ ObjectivesKept /\ ShippersServed
=============================================================================
