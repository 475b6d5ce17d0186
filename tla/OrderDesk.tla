------------------------------ MODULE OrderDesk ------------------------------
(***************************************************************************)
(* Orders, their shipments and the ready cartons put into them: the portal *)
(* (views_portal_orders.py, portal_order_handlers.py), the page that makes *)
(* an order (order_scan_handlers.py), the clerks' list of orders           *)
(* (order_view_handlers.py), the action of the administration (admin.py)   *)
(* and prepare_order with its ready cartons (domain/orders.py).            *)
(* Orders are for one product, and a ready carton holds one unit of it.    *)
(* What an order reserves is Stock's, what a shipment goes through is      *)
(* Shipping's: both may refuse a request, which then changes nothing.      *)
(***************************************************************************)
EXTENDS Integers, FiniteSets

CONSTANTS
    Order,
    Parcel,      \* the shipments that may be created
    ReadyCarton, \* cartons that were packed for no shipment
    Asker,       \* requests in progress
    MaxUnits,    \* the most units an order is for
    MaxMoved,    \* the most cartons a page takes out of, or puts into, an order's shipment
    Nothing

ASSUME NothingIsNone == Nothing \notin Order \cup Parcel
ASSUME CartonsAreFinite == IsFiniteSet(ReadyCarton)

VARIABLES
    order,    \* the orders, each with its line
    parcel,   \* the order each shipment was created for
    box,      \* the shipment each carton is in
    asker,    \* the requests, with what they loaded
    mixed,    \* a request wrote what it had decided before another changed it
    severed   \* a request died between two commits

deskVars == <<order, parcel, box, asker, mixed, severed>>

Reviews == {"pending_validation", "approved"}
NoOrder == [status |-> "absent", review |-> "pending_validation", shipment |-> Nothing,
            quantity |-> 0, prepared |-> 0, packed |-> 0, removed |-> 0]
\* A request keeps the shipment of the order it loaded and the units its line counted;
\* picks are its cartons, made is the shipment it created.
Waiting == [step |-> "idle", order |-> Nothing, had |-> Nothing, counted |-> 0, picks |-> {},
            units |-> 0, made |-> Nothing, behind |-> FALSE]

DeskInit ==
    /\ order = [o \in Order |-> NoOrder]
    /\ parcel = [s \in Parcel |-> Nothing]
    /\ box = [c \in ReadyCarton |-> Nothing]
    /\ asker = [r \in Asker |-> Waiting]
    /\ mixed = FALSE /\ severed = FALSE

----------------------------------------------------------------------------
Ready == {c \in ReadyCarton : box[c] = Nothing}
Unused == {s \in Parcel : parcel[s] = Nothing}
Lacking(o) == IF o.quantity > o.prepared THEN o.quantity - o.prepared ELSE 0

\* r is done, and the others that work on the order o or chose one of the cartons cs
\* are behind.
Done(r, o, cs) ==
    asker' = [x \in Asker |-> IF x = r THEN Waiting
                ELSE IF asker[x].order = o \/ asker[x].picks \cap cs # {}
                THEN [asker[x] EXCEPT !.behind = TRUE] ELSE asker[x]]
\* The requests that work on one of the orders os or chose one of the cartons cs are behind.
Beside(os, cs) ==
    asker' = [x \in Asker |-> IF asker[x].order \in os \/ asker[x].picks \cap cs # {}
                              THEN [asker[x] EXCEPT !.behind = TRUE] ELSE asker[x]]
Leaves(r) == asker' = [asker EXCEPT ![r] = Waiting]

\* A request that is refused, by Stock, by Shipping or by its own checks.
Refused(r) == asker[r].step \notin {"idle", "made"} /\ Leaves(r) /\ UNCHANGED <<order, parcel, box, mixed, severed>>
Dies(r) ==
    /\ asker[r].step \in {"made", "entered"}
    /\ Leaves(r) /\ severed' = TRUE
    /\ UNCHANGED <<order, parcel, box, mixed>>

----------------------------------------------------------------------------
(* The portal. *)

\* The form counts cartons of a kind; the first of them by their code are chosen,
\* outside of the transaction.
Choose(r, n, units) ==
    /\ asker[r].step = "idle" /\ n + units > 0
    /\ \E cs \in SUBSET Ready : Cardinality(cs) = n /\
         asker' = [asker EXCEPT ![r] = [Waiting EXCEPT !.step = "portal", !.picks = cs, !.units = units]]
    /\ UNCHANGED <<order, parcel, box, mixed, severed>>

\* _resolve_ready_cartons: each chosen carton again, under a lock.
StillReadyAnyway(cs) == cs \subseteq ReadyCarton
StillReady(cs) == cs \subseteq Ready

\* create_portal_order: the order with its shipment, what is reserved and the cartons
\* in one transaction; when every unit comes from a carton the order is ready.
PlaceOrder(r, o, s) ==
    LET a == asker[r]
        n == Cardinality(a.picks)
    IN  /\ a.step = "portal" /\ StillReady(a.picks)
        /\ order[o].status = "absent" /\ s \in Unused
        /\ order' = [order EXCEPT ![o] =
                        [NoOrder EXCEPT !.status = IF a.units = 0 THEN "ready" ELSE "reserved",
                                        !.shipment = s, !.quantity = n + a.units, !.prepared = n]]
        /\ parcel' = [parcel EXCEPT ![s] = o]
        /\ box' = [c \in ReadyCarton |-> IF c \in a.picks THEN s ELSE box[c]]
        /\ Done(r, o, a.picks)
        /\ UNCHANGED <<mixed, severed>>

----------------------------------------------------------------------------
(* The clerks. *)

\* create_order: the order is committed, and its shipment then created for it.
Enter(r, o) ==
    /\ asker[r].step = "idle" /\ order[o].status = "absent"
    /\ order' = [order EXCEPT ![o] = [NoOrder EXCEPT !.status = "draft"]]
    /\ asker' = [asker EXCEPT ![r] = [Waiting EXCEPT !.step = "entered", !.order = o]]
    /\ UNCHANGED <<parcel, box, mixed, severed>>

\* update_status writes nothing but the review.
Review(o, review) ==
    /\ order[o].status # "absent" /\ order[o].review # review
    /\ order' = [order EXCEPT ![o].review = review]
    /\ UNCHANGED <<parcel, box, asker, mixed, severed>>

\* What a page asks of the order it loads: the list makes shipments of approved orders,
\* the administration of any, both if it has none yet; prepare_order wants a reserved one.
Allowed(o, page) ==
    \/ page = "prepare" /\ order[o].status \in {"reserved", "preparing"}
    \/ page = "list" /\ order[o].review = "approved" /\ order[o].shipment = Nothing
    \/ page = "admin" /\ order[o].shipment = Nothing
LoadOrder(r, o, page) ==
    /\ asker[r].step = "idle" /\ order[o].status # "absent" /\ Allowed(o, page)
    /\ asker' = [asker EXCEPT ![r] =
                    [Waiting EXCEPT !.step = IF page = "prepare" THEN page ELSE "make",
                                    !.order = o, !.had = order[o].shipment]]
    /\ UNCHANGED <<order, parcel, box, mixed, severed>>

\* create_shipment_for_order, on a copy without a shipment: the shipment is one commit,
\* the order's reference to it the next.
MakeShipment(r, s) ==
    /\ asker[r].step \in {"entered", "make"} /\ s \in Unused
    /\ parcel' = [parcel EXCEPT ![s] = asker[r].order]
    /\ asker' = [asker EXCEPT ![r].step = "made", ![r].made = s]
    /\ UNCHANGED <<order, box, mixed, severed>>
LinkShipment(r) ==
    LET a == asker[r]
    IN  /\ a.step = "made"
        /\ order' = [order EXCEPT ![a.order].shipment = a.made]
        /\ mixed' = (mixed \/ a.behind)
        /\ Done(r, a.order, {})
        /\ UNCHANGED <<parcel, box, severed>>

\* add_line, unless the order is prepared.
AddUnit(o) ==
    /\ order[o].status \in {"draft", "reserved"} /\ order[o].quantity < MaxUnits
    /\ order' = [order EXCEPT ![o].quantity = @ + 1, ![o].status = "reserved"]
    /\ Beside({o}, {})
    /\ UNCHANGED <<parcel, box, mixed, severed>>

----------------------------------------------------------------------------
(* prepare_order, a transaction whose order was loaded before. *)

\* assign_ready_cartons_to_order reads the line and the cartons, without a lock, and
\* takes cartons as long as the line lacks them.
ReadReady(r) ==
    LET a == asker[r]
        now == order[a.order]
        lack == Lacking(now)
        n == IF lack < Cardinality(Ready) THEN lack ELSE Cardinality(Ready)
    IN  /\ a.step = "prepare"
        /\ \E cs \in SUBSET Ready : Cardinality(cs) = n /\
             asker' = [asker EXCEPT ![r].step = "txn", ![r].picks = cs, ![r].units = lack,
                                    ![r].counted = now.prepared]
        /\ UNCHANGED <<order, parcel, box, mixed, severed>>

\* They are saved over what they are by now. What the line still lacks is packed from
\* what is reserved for it, and the order's status follows its lines.
Prepare(r, s) ==
    LET a == asker[r]
        target == IF a.had = Nothing THEN s ELSE a.had
        line == [order[a.order] EXCEPT !.shipment = IF a.had = Nothing THEN s ELSE @,
                                       !.prepared = a.counted + a.units,
                                       !.packed = @ + a.units - Cardinality(a.picks)]
    IN  /\ a.step = "txn" /\ s \in Unused
        /\ order' = [order EXCEPT ![a.order] =
                        [line EXCEPT !.status = IF Lacking(line) = 0 THEN "ready" ELSE "preparing"]]
        /\ parcel' = IF a.had = Nothing THEN [parcel EXCEPT ![s] = a.order] ELSE parcel
        /\ box' = [c \in ReadyCarton |-> IF c \in a.picks THEN target ELSE box[c]]
        /\ mixed' = (mixed \/ a.behind)
        /\ Done(r, a.order, a.picks)
        /\ UNCHANGED severed

----------------------------------------------------------------------------
(* The page of a shipment. *)

MadeFor(o, s) == s # Nothing /\ parcel[s] = o

\* It takes a carton out, which is ready again, or puts a ready one in, of which the
\* lines of the shipment's order know nothing.
MoveCarton(c, s) ==
    /\ box[c] # s /\ Nothing \in {box[c], s} /\ s \in {Nothing} \cup (Parcel \ Unused)
    /\ box' = [box EXCEPT ![c] = s]
    /\ order' = [o \in Order |->
                    IF MadeFor(o, box[c]) THEN [order[o] EXCEPT !.removed = @ + 1]
                    ELSE IF MadeFor(o, s) THEN [order[o] EXCEPT !.removed = @ - 1]
                    ELSE order[o]]
    /\ \A o \in Order : order'[o].removed \in (-MaxMoved)..MaxMoved
    /\ Beside({}, {c})
    /\ UNCHANGED <<parcel, mixed, severed>>

\* It packs a unit that is reserved for the order of the shipment, of those its line lacks.
PackUnit(o) ==
    /\ order[o].shipment # Nothing /\ Lacking(order[o]) > 0
    /\ order[o].status \in {"reserved", "preparing"}
    /\ order' = [order EXCEPT ![o].prepared = @ + 1, ![o].packed = @ + 1]
    /\ Beside({o}, {})
    /\ UNCHANGED <<parcel, box, mixed, severed>>

DeskNext ==
    \/ \E r \in Asker :
         \/ Refused(r) \/ Dies(r) \/ LinkShipment(r) \/ ReadReady(r)
         \/ \E n, units \in 0..MaxUnits : n + units <= MaxUnits /\ Choose(r, n, units)
         \/ \E o \in Order : Enter(r, o) \/ \E page \in {"list", "admin", "prepare"} : LoadOrder(r, o, page)
         \/ \E s \in Parcel : MakeShipment(r, s) \/ Prepare(r, s) \/ \E o \in Order : PlaceOrder(r, o, s)
    \/ \E o \in Order : AddUnit(o) \/ PackUnit(o) \/ \E review \in Reviews : Review(o, review)
    \/ \E c \in ReadyCarton, s \in Parcel \cup {Nothing} : MoveCarton(c, s)

DeskSpec == DeskInit /\ [][DeskNext]_deskVars

----------------------------------------------------------------------------
(* Properties *)

DeskTypeOK ==
    /\ \A o \in Order :
         /\ order[o].status \in {"absent", "draft", "reserved", "preparing", "ready"}
         /\ order[o].review \in Reviews /\ order[o].shipment \in Parcel \cup {Nothing}
         /\ order[o].quantity \in Nat /\ order[o].prepared \in Nat
    /\ parcel \in [Parcel -> Order \cup {Nothing}]
    /\ box \in [ReadyCarton -> Parcel \cup {Nothing}]
    /\ mixed \in BOOLEAN /\ severed \in BOOLEAN

\* As long as no request wrote over what another had changed, and none died between two
\* commits, every shipment made for an order is the order's, and what an order counts
\* as prepared is in its shipment: ready cartons, but for those its page took
\* out or put in since, and what was packed for it. Portal orders may overlap: the lock alone
\* keeps one carton out of two of them.
OrdersAccounted == mixed \/ severed \/
    /\ \A s \in Parcel : parcel[s] # Nothing =>
         \/ order[parcel[s]].shipment = s
         \/ \E r \in Asker : asker[r].made = s
    /\ \A o \in Order : order[o].status # "absent" =>
         order[o].prepared = order[o].packed + order[o].removed
             + Cardinality({c \in ReadyCarton : MadeFor(o, box[c])})
    /\ \A o \in Order : order[o].status = "ready" => order[o].prepared = order[o].quantity
=============================================================================
