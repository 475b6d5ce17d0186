---------------------------- MODULE PlanningRules ----------------------------
(***************************************************************************)
(* The rules of wms/planning/: which flight a shipment may take, which     *)
(* volunteer may carry it, and which plans of a week the solver may        *)
(* return. A payload p is what compile_run_solver_payload builds from the  *)
(* snapshots of a run:                                                     *)
(*   p.ship[s]   dest, units, cartons, rank, priority, shipper, and the    *)
(*               legacy dates left, printed, packed (None when empty)      *)
(*   p.flight[f] dest, day, time (None when missing), key, pos, capacity   *)
(*   p.vol[v]    load (None: the default), slots, off                      *)
(*   p.rule[d]   days, cartons, frequency (None or {}: no limit)           *)
(* Ids are numbers in the order of references and labels; times are        *)
(* minutes.                                                                *)
(***************************************************************************)
EXTENDS Integers, FiniteSets, FiniteSetsExt

CONSTANT None   \* an empty field

DefaultLoad == 22     \* LEGACY_EQUIV_CAPACITY_PER_VOLUNTEER
MissionLead == 180    \* LEGACY_MISSION_LEAD_HOURS
FlightGap == 180      \* LEGACY_MIN_HOURS_BETWEEN_FLIGHTS
ShipsPerFlight == 5   \* LEGACY_MAX_BE_PER_FLIGHT
Day == 1440

Ships(p) == DOMAIN p.ship
Flights(p) == DOMAIN p.flight
Vols(p) == DOMAIN p.vol

\* What the fields of the snapshots can hold.
IsWeek(p) ==
    /\ IsFiniteSet(Ships(p)) /\ Ships(p) \subseteq Int
    /\ \A s \in Ships(p) :
         /\ p.ship[s].units \in Nat /\ p.ship[s].cartons \in Nat
         /\ p.ship[s].rank \in Int /\ p.ship[s].priority \in Int
         /\ p.ship[s].printed \in Int \cup {None} /\ p.ship[s].packed \in Int \cup {None}
    /\ \A f \in Flights(p) :
         /\ p.flight[f].day \in Int
         /\ p.flight[f].time \in Int \cup {None}
         /\ p.flight[f].capacity \in Nat \cup {None}
    /\ IsFiniteSet(Vols(p)) /\ Vols(p) \subseteq Int
    /\ \A v \in Vols(p) :
         /\ p.vol[v].load \in Nat \cup {None}
         /\ IsFiniteSet(p.vol[v].slots) /\ p.vol[v].slots \subseteq [day : Int, from : Int, to : Int]
    /\ \A d \in DOMAIN p.rule : p.rule[d].frequency \in Nat \cup {None}

Within(n, limit) == limit = None \/ n <= limit
Distance(a, b) == IF a < b THEN b - a ELSE a - b

\* Tuples of numbers, compared like Python's.
Before(a, b) ==
    \E i \in DOMAIN a : a[i] < b[i] /\ \A j \in 1..(i - 1) : a[j] = b[j]

----------------------------------------------------------------------------
\* _flight_datetime_key: a flight without a time leaves at midnight.
Departure(p, f) ==
    p.flight[f].day * Day + (IF p.flight[f].time = None THEN 0 ELSE p.flight[f].time)

\* volunteer_is_compatible_with_flight. The start that a slot needs is a time
\* of day: three hours before an early flight is late in the evening.
RequiredStart(time) == (time - MissionLead) % Day
SlotFits(slot, flight) ==
    /\ slot.day = flight.day
    /\ flight.time # None =>
         slot.from <= RequiredStart(flight.time) /\ flight.time <= slot.to
VolFits(p, v, f) ==
    /\ p.flight[f].day \notin p.vol[v].off
    /\ p.vol[v].slots = {} \/ \E slot \in p.vol[v].slots : SlotFits(slot, p.flight[f])

\* shipment_is_compatible_with_flight.
ShipFits(p, s, f) ==
    LET rule == p.rule[p.flight[f].dest]
    IN  /\ p.ship[s].dest = p.flight[f].dest
        /\ rule.days = {} \/ p.flight[f].day \in rule.days
        /\ Within(p.ship[s].cartons, rule.cartons)
        /\ Within(p.ship[s].units, p.flight[f].capacity)

Load(p, v) == IF p.vol[v].load = None THEN DefaultLoad ELSE p.vol[v].load

\* compute_compatibility.
Compatible(p, s) ==
    {c \in Flights(p) \X Vols(p) :
        /\ ShipFits(p, s, c[1])
        /\ p.ship[s].units <= Load(p, c[2])
        /\ VolFits(p, c[2], c[1])}

----------------------------------------------------------------------------
\* A plan maps the shipments it takes to a flight and a volunteer.
Plans(p) == UNION {[chosen -> Flights(p) \X Vols(p)] : chosen \in SUBSET Ships(p)}
FlightOf(plan, s) == plan[s][1]
VolOf(plan, s) == plan[s][2]

Aboard(plan, f) == {s \in DOMAIN plan : FlightOf(plan, s) = f}
Carried(plan, f, v) == {s \in Aboard(plan, f) : VolOf(plan, s) = v}
Used(plan) == {FlightOf(plan, s) : s \in DOMAIN plan}
Missions(plan) == {plan[s] : s \in DOMAIN plan}

Units(p, ships) == SumFunction([s \in ships |-> p.ship[s].units])
Cartons(p, ships) == SumFunction([s \in ships |-> p.ship[s].cartons])

\* Flights that one volunteer cannot serve both.
Apart(p, f, g) ==
    /\ p.flight[f].key # p.flight[g].key
    /\ Distance(Departure(p, f), Departure(p, g)) >= FlightGap

\* The flights that some shipment and some volunteer may take.
Open(p) == {f \in Flights(p) : \E s \in Ships(p) : \E c \in Compatible(p, s) : c[1] = f}
\* Of the legs of one physical flight, only the first that is open is used.
FirstLeg(p, f) ==
    \A g \in Open(p) : p.flight[g].key = p.flight[f].key => p.flight[f].pos <= p.flight[g].pos

\* The constraints of _solve_candidates.
Feasible(p, plan) ==
    /\ \A s \in DOMAIN plan : plan[s] \in Compatible(p, s)
    /\ \A f \in Used(plan) :
         /\ Cardinality(Aboard(plan, f)) <= ShipsPerFlight
         /\ Within(Units(p, Aboard(plan, f)), p.flight[f].capacity)
         /\ Within(Cartons(p, Aboard(plan, f)), p.rule[p.flight[f].dest].cartons)
         /\ FirstLeg(p, f)
         /\ \A g \in Used(plan) : f # g => p.flight[f].key # p.flight[g].key
         /\ \A v \in Vols(p) : Units(p, Carried(plan, f, v)) <= Load(p, v)
    /\ \A m, n \in Missions(plan) : m[2] = n[2] /\ m[1] # n[1] => Apart(p, m[1], n[1])
    /\ \A d \in DOMAIN p.rule :
         Within(Cardinality({f \in Used(plan) : p.flight[f].dest = d}), p.rule[d].frequency)

FeasiblePlans(p) == {plan \in Plans(p) : Feasible(p, plan)}
=============================================================================
