------------------------------ MODULE Shipping ------------------------------
(***************************************************************************)
(* Shipments, their cartons and their tracking: the handlers of the        *)
(* tracking page, of the shipment form, of the carton list and of the      *)
(* planning, and shipment_status.py, which derives a shipment's readiness  *)
(* from its cartons.                                                       *)
(*                                                                         *)
(* Connections commit each statement unless a handler opens a transaction, *)
(* so a request is a row loaded into memory, then one step per commit.     *)
(* Every guard reads the copy that was loaded, as the handlers do; a save  *)
(* writes only its update_fields.                                          *)
(***************************************************************************)
EXTENDS Naturals, FiniteSets

CONSTANTS Shipment, Carton, Request, None

ASSUME NoneIsNobody == None \notin Shipment \cup Carton

VARIABLES
    ship,     \* the shipment rows
    carton,   \* the carton rows
    seen,     \* the milestones a shipment has tracking events of
    last,     \* the status of its latest tracking event, or None
    req       \* the requests in progress

vars == <<ship, carton, seen, last, req>>

ShipmentStatus == {"draft", "picking", "packed", "planned", "shipped",
                   "received_correspondent", "delivered"}
LOCKED == {"planned", "shipped", "received_correspondent", "delivered"}
MUTATION_BLOCKED == {"shipped", "received_correspondent", "delivered"}
TrackingStatus == {"planning_ok", "planned", "moved_export", "boarding_ok",
                   "received_correspondent", "received_recipient"}
\* The events the tracking board has a column for and a case needs.
Milestone == {"planned", "boarding_ok", "received_correspondent", "received_recipient"}
\* "draft" stands for draft and picking; "absent" for no such carton.
CartonStatus == {"absent", "draft", "packed", "assigned", "labeled", "shipped"}
LABELED_CARTON == {"labeled", "shipped"}

TRACKING_TO_SHIPMENT_STATUS ==
    [t \in TrackingStatus |->
        CASE t = "planning_ok" -> "packed"
          [] t \in {"planned", "moved_export"} -> "planned"
          [] t = "boarding_ok" -> "shipped"
          [] t = "received_correspondent" -> "received_correspondent"
          [] t = "received_recipient" -> "delivered"]

Row == [status: ShipmentStatus \cup {"absent"}, disputed: BOOLEAN, ready: BOOLEAN, closed: BOOLEAN]
\* No row.
Blank == [status |-> "absent", disputed |-> FALSE, ready |-> FALSE, closed |-> FALSE]

Step == {"idle", "shipment", "carton", "valid", "recorded", "ship", "relabel", "sync"}
RequestState ==
    [pc: Step, ship: Shipment \cup {None}, copy: Row,
     carton: Carton \cup {None}, held: CartonStatus,
     event: TrackingStatus \cup {None}, todo: SUBSET (Carton \cup {None})]
AtRest == [pc |-> "idle", ship |-> None, copy |-> Blank, carton |-> None,
           held |-> "absent", event |-> None, todo |-> {}]

(***************************************************************************)
(* shipment_status.py.                                                     *)
(***************************************************************************)
CartonsOf(boxes, s) == {c \in Carton : boxes[c].shipment = s}

\* compute_shipment_progress.
Progress(boxes, s) ==
    IF CartonsOf(boxes, s) = {} THEN "draft"
    ELSE IF \E c \in CartonsOf(boxes, s) : boxes[c].status \notin LABELED_CARTON THEN "picking"
    ELSE "packed"

\* Mutants of Synced: ready_at is never cleared; the lock is not looked at.
SyncedReadyKept(row, copy, new) ==
    IF copy.status \in LOCKED THEN row
    ELSE [row EXCEPT !.status = new, !.ready = @ \/ new = "packed"]
SyncedUnlocked(row, copy, new) == [row EXCEPT !.status = new, !.ready = new = "packed"]

\* sync_shipment_ready_state of a copy whose progress is new: what the row
\* becomes, and, with the copy for row, what the copy becomes.
Synced(row, copy, new) ==
    IF copy.status \in LOCKED THEN row
    ELSE [row EXCEPT
            !.status = IF copy.status # new THEN new ELSE @,
            !.ready = IF new = "packed" /\ ~(copy.status = "packed" /\ copy.ready) THEN TRUE
                      ELSE IF new # "packed" /\ copy.ready THEN FALSE ELSE @]

----------------------------------------------------------------------------
Init ==
    /\ ship = [s \in Shipment |-> Blank]
    /\ carton = [c \in Carton |-> [status |-> "absent", shipment |-> None]]
    /\ seen = [s \in Shipment |-> {}]
    /\ last = [s \in Shipment |-> None]
    /\ req = [r \in Request |-> AtRest]

Done(r) == req' = [req EXCEPT ![r] = AtRest]

\* The cartons of some other place, put in shipment s with a status.
Put(boxes, set, s, status) ==
    [c \in Carton |-> IF c \in set THEN [status |-> status, shipment |-> s] ELSE boxes[c]]
Ready == {c \in Carton : carton[c].status = "packed" /\ carton[c].shipment = None}
Fresh == {c \in Carton : carton[c].status = "absent"}

\* The cartons become boxes and the shipment of request r is synchronized in
\* the same transaction.
CommitAndSync(r, boxes) ==
    LET s == req[r].ship
    IN  /\ carton' = boxes
        /\ ship' = [ship EXCEPT ![s] = Synced(@, req[r].copy, Progress(boxes, s))]
        /\ UNCHANGED <<seen, last>>

\* The cartons become boxes; r synchronizes in a commit of its own.
CommitThenSync(r, boxes) ==
    /\ carton' = boxes
    /\ req' = [req EXCEPT ![r].pc = "sync"]
    /\ UNCHANGED <<ship, seen, last>>

SyncReadyState(r) ==
    LET s == req[r].ship
    IN  /\ req[r].pc = "sync"
        /\ ship' = [ship EXCEPT ![s] = Synced(@, req[r].copy, Progress(carton, s))]
        /\ Done(r)
        /\ UNCHANGED <<carton, seen, last>>

(***************************************************************************)
(* A request loads its shipment, or its carton with its shipment.          *)
(***************************************************************************)
LoadShipment(r, s) ==
    /\ req[r].pc = "idle" /\ ship[s].status # "absent"
    /\ req' = [req EXCEPT ![r] = [AtRest EXCEPT !.pc = "shipment", !.ship = s, !.copy = ship[s]]]
    /\ UNCHANGED <<ship, carton, seen, last>>

LoadCarton(r, c) ==
    /\ req[r].pc = "idle" /\ carton[c].status # "absent"
    /\ LET s == carton[c].shipment
       IN  req' = [req EXCEPT ![r] =
                     [AtRest EXCEPT !.pc = "carton", !.carton = c, !.held = carton[c].status,
                                    !.ship = s, !.copy = IF s = None THEN Blank ELSE ship[s]]]
    /\ UNCHANGED <<ship, carton, seen, last>>

(***************************************************************************)
(* The shipment form, orders and packing.                                  *)
(***************************************************************************)
\* A carton packed for no shipment and declared ready.
PackUnassigned(c) ==
    /\ carton[c].status \in {"absent", "draft"} /\ carton[c].shipment = None
    /\ carton' = [carton EXCEPT ![c].status = "packed"]
    /\ UNCHANGED <<ship, seen, last, req>>

\* handle_shipment_create_post, the draft form and create_shipment_for_order:
\* packing a fresh carton synchronizes inside the transaction.
CreateShipment(r, s, add, fresh) ==
    LET boxes == Put(carton, add \cup fresh, s, "assigned")
        new == [Blank EXCEPT !.status = "draft"]
        row == IF fresh = {} THEN new ELSE Synced(new, new, Progress(boxes, s))
    IN  /\ req[r].pc = "idle" /\ ship[s] = Blank
        /\ add \subseteq Ready /\ fresh \subseteq Fresh
        /\ carton' = boxes
        /\ ship' = [ship EXCEPT ![s] = row]
        /\ req' = [req EXCEPT ![r] = [AtRest EXCEPT !.pc = "sync", !.ship = s, !.copy = row]]
        /\ UNCHANGED <<seen, last>>

\* handle_shipment_edit_post: cartons taken out, added, packed for the occasion.
EditShipment(r, out, add, fresh) ==
    LET s == req[r].ship
        copy == req[r].copy
        emptied == [c \in Carton |->
            IF c \in out
            THEN [status |-> IF carton[c].status \in {"assigned", "labeled"} THEN "packed"
                             ELSE carton[c].status,
                  shipment |-> None]
            ELSE IF carton[c].shipment = s /\ carton[c].status = "packed"
            THEN [carton[c] EXCEPT !.status = "assigned"] ELSE carton[c]]
        boxes == Put(emptied, add \cup fresh, s, "assigned")
        new == Progress(boxes, s)
    IN  /\ req[r].pc = "shipment"
        /\ copy.status \notin LOCKED /\ ~ copy.disputed
        /\ out \subseteq CartonsOf(carton, s) /\ \A c \in out : carton[c].status # "shipped"
        /\ add \subseteq Ready /\ fresh \subseteq Fresh
        /\ carton' = boxes
        /\ ship' = IF fresh = {} THEN ship ELSE [ship EXCEPT ![s] = Synced(@, copy, new)]
        /\ req' = [req EXCEPT ![r].pc = "sync",
                              ![r].copy = IF fresh = {} THEN @ ELSE Synced(@, @, new)]
        /\ UNCHANGED <<seen, last>>

\* prepare_order and _assign_ready_cartons_to_order, one transaction.
PrepareOrder(r, add, fresh) ==
    /\ req[r].pc = "shipment"
    /\ req[r].copy.status \notin LOCKED /\ ~ req[r].copy.disputed
    /\ add \subseteq Ready /\ fresh \subseteq Fresh
    /\ CommitAndSync(r, Put(carton, add \cup fresh, req[r].ship, "assigned"))
    /\ Done(r)

\* pack_carton for a shipment; a preparer's new carton ends up packed.
PackInto(r, c, status) ==
    /\ req[r].pc = "shipment"
    /\ req[r].copy.status \notin MUTATION_BLOCKED /\ ~ req[r].copy.disputed
    /\ carton[c].status # "shipped" /\ carton[c].shipment \in {None, req[r].ship}
    /\ status = "assigned" \/ (status = "packed" /\ c \in Fresh)
    /\ CommitAndSync(r, Put(carton, {c}, req[r].ship, status))
    /\ Done(r)

(***************************************************************************)
(* The carton list and the carton admin.                                   *)
(***************************************************************************)
Unlocked(r) == req[r].ship # None /\ req[r].copy.status \notin LOCKED /\ ~ req[r].copy.disputed
Mutable(r) ==
    /\ req[r].held # "shipped"
    /\ req[r].ship # None => req[r].copy.status \notin MUTATION_BLOCKED /\ ~ req[r].copy.disputed

\* update_carton_status: packed by hand, or back to preparation.
UpdateCartonStatus(r, status) ==
    /\ req[r].pc = "carton"
    /\ req[r].held \notin {"shipped", status} /\ req[r].ship = None
    /\ status \in {"draft", "packed"}
    /\ carton' = [carton EXCEPT ![req[r].carton].status = status]
    /\ Done(r)
    /\ UNCHANGED <<ship, seen, last>>

MarkCartonLabeled(r) ==
    /\ req[r].pc = "carton" /\ Unlocked(r)
    /\ req[r].held \in {"assigned", "packed"}
    /\ CommitThenSync(r, [carton EXCEPT ![req[r].carton].status = "labeled"])

MarkCartonAssigned(r) ==
    /\ req[r].pc = "carton" /\ Unlocked(r)
    /\ req[r].held = "labeled"
    /\ CommitThenSync(r, [carton EXCEPT ![req[r].carton].status = "assigned"])

\* The carton's row is gone: a request that holds it fails on its save, a loop
\* that is to save it when it comes to it (None among its todo).
Forget(r, c) ==
    [q \in Request |->
        IF q = r THEN req[q]
        ELSE IF req[q].pc = "carton" /\ req[q].carton = c THEN AtRest
        ELSE [req[q] EXCEPT !.todo = IF c \in @ THEN (@ \ {c}) \cup {None} ELSE @]]

\* delete_carton: unpacked, which synchronizes, deleted, synchronized again.
DeleteCarton(r) ==
    LET c == req[r].carton
        s == req[r].ship
        boxes == [carton EXCEPT ![c] = [status |-> "absent", shipment |-> None]]
    IN  /\ req[r].pc = "carton" /\ Mutable(r)
        /\ carton' = boxes
        /\ IF s = None
           THEN /\ ship' = ship
                /\ req' = [Forget(r, c) EXCEPT ![r] = AtRest]
           ELSE LET new == Progress(boxes, s)
                IN  /\ ship' = [ship EXCEPT ![s] = Synced(@, req[r].copy, new)]
                    /\ req' = [Forget(r, c) EXCEPT
                                 ![r].pc = "sync", ![r].copy = Synced(@, @, new)]
        /\ UNCHANGED <<seen, last>>

\* The admin's unpack_cartons (of a carton that is a draft already, neither
\* the status nor the shipment is saved), and the carton page, which packs it again for
\* the shipment it was in.
UnpackCarton(r) ==
    \E boxes \in {[carton EXCEPT ![req[r].carton] = [status |-> "draft", shipment |-> None]]}
                 \cup (IF req[r].held = "draft" THEN {carton} ELSE {}) :
        /\ req[r].pc = "carton" /\ Mutable(r)
        /\ IF req[r].ship = None
           THEN carton' = boxes /\ UNCHANGED <<ship, seen, last>>
           ELSE CommitAndSync(r, boxes)
        /\ Done(r)
RepackCarton(r) ==
    /\ req[r].pc = "carton" /\ Mutable(r) /\ req[r].ship # None
    /\ CommitAndSync(r, Put(carton, {req[r].carton}, req[r].ship, "assigned"))
    /\ Done(r)

(***************************************************************************)
(* The tracking page.                                                      *)
(***************************************************************************)
\* Mutant: boarding may be recorded without planning.
AllowedUnplanned(status, latest) ==
    CASE status = "packed" -> {"planning_ok", "planned", "boarding_ok"}
      [] status = "planned" -> {"moved_export", "boarding_ok"}
      [] status = "shipped" -> {"received_correspondent"}
      [] status = "received_correspondent" -> {"received_recipient"}
      [] OTHER -> {}

\* allowed_tracking_statuses_for_shipment.
Allowed(status, latest) ==
    CASE status = "delivered" -> {}
      [] status = "received_correspondent" -> {"received_recipient"}
      [] status = "shipped" -> {"received_correspondent"}
      [] status = "planned" /\ latest = "moved_export" -> {"boarding_ok"}
      [] status = "planned" /\ latest # "moved_export" -> {"moved_export", "boarding_ok"}
      [] status = "packed" /\ latest = "planning_ok" -> {"planned"}
      [] OTHER -> {"planning_ok"}

\* _validate_ready_for_planning.
ReadyForPlanning(s) ==
    /\ CartonsOf(carton, s) # {}
    /\ \A c \in CartonsOf(carton, s) : carton[c].status \in LABELED_CARTON

ValidateTracking(r, t) ==
    LET s == req[r].ship
    IN  /\ req[r].pc = "shipment" /\ ~ req[r].copy.disputed
        /\ t \in Allowed(req[r].copy.status, last[s])
        /\ t \in {"planning_ok", "planned", "moved_export", "boarding_ok"} => ReadyForPlanning(s)
        /\ req' = [req EXCEPT ![r].pc = "valid", ![r].event = t]
        /\ UNCHANGED <<ship, carton, seen, last>>

\* Mutant: the event is given the shipment's status.
RecordStatus(s, t) ==
    /\ seen' = [seen EXCEPT ![s] = @ \cup ({t} \cap Milestone)]
    /\ last' = [last EXCEPT ![s] = TRACKING_TO_SHIPMENT_STATUS[t]]

\* ShipmentTrackingEvent.objects.create.
Record(s, t) ==
    /\ seen' = [seen EXCEPT ![s] = @ \cup ({t} \cap Milestone)]
    /\ last' = [last EXCEPT ![s] = t]

RecordTracking(r) ==
    /\ req[r].pc = "valid"
    /\ Record(req[r].ship, req[r].event)
    /\ IF TRACKING_TO_SHIPMENT_STATUS[req[r].event] = req[r].copy.status
       THEN Done(r) ELSE req' = [req EXCEPT ![r].pc = "recorded"]
    /\ UNCHANGED <<ship, carton>>

\* The status the event stands for; boarding ships every carton, one by one.
SaveTrackedStatus(r) ==
    LET s == req[r].ship
        target == TRACKING_TO_SHIPMENT_STATUS[req[r].event]
    IN  /\ req[r].pc = "recorded"
        /\ ship' = [ship EXCEPT
                       ![s].status = target,
                       ![s].ready = IF target = "packed" /\ ~ req[r].copy.ready THEN TRUE ELSE @]
        /\ IF target # "shipped" THEN Done(r)
           ELSE req' = [req EXCEPT
                          ![r].pc = "ship",
                          ![r].todo = {c \in CartonsOf(carton, s) : carton[c].status # "shipped"}]
        /\ UNCHANGED <<carton, seen, last>>

ShipCarton(r, c) ==
    /\ req[r].pc = "ship" /\ c \in req[r].todo
    /\ carton' = [carton EXCEPT ![c].status = "shipped"]
    /\ req' = [req EXCEPT ![r].todo = @ \ {c}]
    /\ UNCHANGED <<ship, seen, last>>

\* _handle_dispute_action.
SetDisputed(r) ==
    /\ req[r].pc = "shipment" /\ ~ req[r].copy.disputed
    /\ ship' = [ship EXCEPT ![req[r].ship].disputed = TRUE]
    /\ Done(r)
    /\ UNCHANGED <<carton, seen, last>>

\* Mutant: the shipped cartons are not labeled again.
ResolveDisputeOnly(r) ==
    /\ req[r].pc = "shipment" /\ (req[r].copy.disputed \/ req[r].copy.status \in LOCKED)
    /\ ship' = [ship EXCEPT ![req[r].ship].disputed = FALSE,
                            ![req[r].ship].status = IF @ \in LOCKED THEN "packed" ELSE @,
                            ![req[r].ship].ready = @ \/ req[r].copy.status \in LOCKED]
    /\ Done(r)
    /\ UNCHANGED <<carton, seen, last>>

ResolveDispute(r) ==
    LET s == req[r].ship
        copy == req[r].copy
        reset == copy.status \in LOCKED
        Resolved(row) ==
            [row EXCEPT !.disputed = IF copy.disputed THEN FALSE ELSE @,
                        !.status = IF reset THEN "packed" ELSE @,
                        !.ready = IF reset THEN (IF copy.ready THEN @ ELSE TRUE) ELSE @]
    IN  /\ req[r].pc = "shipment" /\ (copy.disputed \/ reset)
        /\ ship' = [ship EXCEPT ![s] = Resolved(@)]
        /\ req' = [req EXCEPT
                     ![r].pc = "relabel", ![r].copy = Resolved(@),
                     ![r].todo = IF copy.status \in MUTATION_BLOCKED
                                 THEN {c \in CartonsOf(carton, s) : carton[c].status = "shipped"}
                                 ELSE {}]
        /\ UNCHANGED <<carton, seen, last>>

RelabelCarton(r, c) ==
    /\ req[r].pc = "relabel" /\ c \in req[r].todo
    /\ carton' = [carton EXCEPT ![c].status = "labeled"]
    /\ req' = [req EXCEPT ![r].todo = @ \ {c}]
    /\ UNCHANGED <<ship, seen, last>>

\* No carton is left: the page is rendered, or the shipment synchronized.
LoopDone(r) ==
    /\ req[r].pc \in {"ship", "relabel"} /\ req[r].todo = {}
    /\ req' = [req EXCEPT ![r] = IF @.pc = "ship" THEN AtRest ELSE [@ EXCEPT !.pc = "sync"]]
    /\ UNCHANGED <<ship, carton, seen, last>>

(***************************************************************************)
(* The tracking board and the planning.                                    *)
(***************************************************************************)
\* can_close of build_shipments_tracking_rows.
Closable(row, events) ==
    /\ row.status = "delivered" /\ ~ row.disputed /\ ~ row.closed
    /\ Milestone \subseteq events

CloseShipment(r) ==
    /\ req[r].pc = "shipment" /\ Closable(req[r].copy, seen[req[r].ship])
    /\ ship' = [ship EXCEPT ![req[r].ship].closed = TRUE]
    /\ Done(r)
    /\ UNCHANGED <<carton, seen, last>>

\* Mutant: no tracking event is created.
ApplyVersionStatus(r) ==
    /\ req[r].pc = "shipment" /\ req[r].copy.status \in {"packed", "planned"}
    /\ ship' = [ship EXCEPT ![req[r].ship].status = "planned"]
    /\ Done(r)
    /\ UNCHANGED <<carton, seen, last>>

\* apply_version_updates for one shipment of a published version.
ApplyVersionUpdate(r) ==
    LET s == req[r].ship
    IN  /\ req[r].pc = "shipment" /\ req[r].copy.status \in {"packed", "planned"}
        /\ ship' = IF req[r].copy.status = "planned" THEN ship
                   ELSE [ship EXCEPT ![s].status = "planned"]
        /\ IF "planned" \in seen[s] THEN UNCHANGED <<seen, last>> ELSE Record(s, "planned")
        /\ Done(r)
        /\ UNCHANGED carton

\* A request that ends without a commit: a guard refuses, the page is only
\* read, or a save fails.
Leave(r) ==
    /\ req[r].pc \in {"shipment", "carton", "valid"} \/ None \in req[r].todo
    /\ Done(r)
    /\ UNCHANGED <<ship, carton, seen, last>>

\* The worker dies between two commits.
Crash(r) ==
    /\ req[r].pc \in {"recorded", "ship", "relabel", "sync"}
    /\ Done(r)
    /\ UNCHANGED <<ship, carton, seen, last>>

----------------------------------------------------------------------------
ShipmentStep(r) ==
    \/ \E s \in Shipment : LoadShipment(r, s)
    \/ \E s \in Shipment, add, fresh \in SUBSET Carton : CreateShipment(r, s, add, fresh)
    \/ \E out, add, fresh \in SUBSET Carton : EditShipment(r, out, add, fresh)
    \/ \E add, fresh \in SUBSET Carton : PrepareOrder(r, add, fresh)
    \/ \E c \in Carton, status \in {"assigned", "packed"} : PackInto(r, c, status)
    \/ SyncReadyState(r)

CartonStep(r) ==
    \/ \E c \in Carton : LoadCarton(r, c)
    \/ \E status \in {"draft", "packed"} : UpdateCartonStatus(r, status)
    \/ MarkCartonLabeled(r) \/ MarkCartonAssigned(r)
    \/ DeleteCarton(r) \/ UnpackCarton(r) \/ RepackCarton(r)

TrackingStep(r) ==
    \/ \E t \in TrackingStatus : ValidateTracking(r, t)
    \/ RecordTracking(r) \/ SaveTrackedStatus(r)
    \/ SetDisputed(r) \/ ResolveDispute(r)
    \/ \E c \in Carton : ShipCarton(r, c) \/ RelabelCarton(r, c)
    \/ LoopDone(r)
    \/ CloseShipment(r) \/ ApplyVersionUpdate(r)

Handle(r) == ShipmentStep(r) \/ CartonStep(r) \/ TrackingStep(r) \/ Leave(r)

Next == (\E r \in Request : Handle(r)) \/ (\E c \in Carton : PackUnassigned(c))
Spec == Init /\ [][Next]_vars

\* With workers that die between two commits.
CrashSpec == Init /\ [][Next \/ \E r \in Request : Crash(r)]_vars

----------------------------------------------------------------------------
(***************************************************************************)
(* Properties.                                                             *)
(***************************************************************************)
\* The rows hold what their columns may hold.
TypeOK ==
    /\ ship \in [Shipment -> Row]
    /\ carton \in [Carton -> [status: CartonStatus, shipment: Shipment \cup {None}]]
    /\ seen \in [Shipment -> SUBSET Milestone]
    /\ last \in [Shipment -> TrackingStatus \cup {None}]
    /\ req \in [Request -> RequestState]

Settled == \A r \in Request : req[r].pc \in {"idle", "shipment", "carton", "valid"}

\* Readiness is derived: between requests, a shipment not yet planned is draft,
\* picking or packed as its cartons say, and has a ready_at when packed.
ReadinessMatchesCartons ==
    Settled => \A s \in Shipment :
        ship[s].status \notin LOCKED \cup {"absent"} =>
            /\ ship[s].status = Progress(carton, s)
            /\ ship[s].ready <=> ship[s].status = "packed"

\* Between requests, a carton is shipped exactly when its shipment has left.
ShippedTogether ==
    Settled => \A c \in Carton :
        carton[c].status = "shipped" <=>
            /\ carton[c].shipment # None
            /\ ship[carton[c].shipment].status \in MUTATION_BLOCKED

\* The events a status stands on.
Behind(status) ==
    CASE status = "planned" -> {"planned"}
      [] status = "shipped" -> {"planned", "boarding_ok"}
      [] status = "received_correspondent" -> {"planned", "boarding_ok", "received_correspondent"}
      [] status = "delivered" ->
            {"planned", "boarding_ok", "received_correspondent", "received_recipient"}
      [] OTHER -> {}

\* Whatever requests overlap or die, a status and a closed case have every
\* tracking event they stand on: a delivered case can always be closed.
MilestonesBehindStatus ==
    \A s \in Shipment :
        /\ Behind(ship[s].status) \subseteq seen[s]
        /\ ship[s].closed => Behind("delivered") \subseteq seen[s]

\* A planned or departed shipment returns to preparation by resolve_dispute, or
\* because a request saved a copy older than the row; never by a fresh copy.
LockLostToStaleCopiesOnly ==
    [][\A s \in Shipment :
          ship[s].status \in LOCKED /\ ship'[s].status \notin LOCKED =>
            \E r \in Request :
               /\ req[r].ship = s /\ req'[r] # req[r]
               /\ req[r].copy.status # ship[s].status \/ ResolveDispute(r)]_vars

\* docs/operations.md: "Once `planned`, carton modifications are locked."
PlannedLocksCartons ==
    [][\A s \in Shipment :
          ship[s].status \in LOCKED /\ ship'[s].status \in LOCKED =>
            CartonsOf(carton', s) = CartonsOf(carton, s)]_vars

\* The tracking board's promise to a case.
Case == INSTANCE CaseFile WITH
    reached <- seen,
    closed <- [s \in Shipment |-> ship[s].closed]
CaseSpec == Case!Spec
=============================================================================
