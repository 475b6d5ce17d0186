--------------------------- MODULE ShippingProofs ---------------------------
(***************************************************************************)
(* What overlapping and dying requests keep true of any set of shipments   *)
(* and cartons: a shipment's status, and every copy of it a request holds, *)
(* stands on the tracking events of its milestones, so that the shipments  *)
(* implement the case file of CaseFile.                                    *)
(***************************************************************************)
EXTENDS Shipping, TLAPS

\* A row, or a request's copy of it, and the milestones reached so far.
Stands(row, events) ==
    /\ row \in Row
    /\ Behind(row.status) \subseteq events
    /\ row.closed => Milestone \subseteq events

\* What a request x holds, when sn are the milestones reached.
Sound(x, sn) ==
    /\ x \in RequestState
    /\ x.pc \notin {"idle", "carton"} => x.ship \in Shipment
    /\ x.ship \in Shipment => Stands(x.copy, sn[x.ship])
    /\ x.pc \in {"valid", "recorded"} => x.event \in TrackingStatus
    /\ x.pc = "valid" =>
          Behind(TRACKING_TO_SHIPMENT_STATUS[x.event]) \ {x.event} \subseteq sn[x.ship]
    /\ x.pc = "recorded" =>
          Behind(TRACKING_TO_SHIPMENT_STATUS[x.event]) \subseteq sn[x.ship]

IInv ==
    /\ TypeOK
    /\ \A s \in Shipment : Stands(ship[s], seen[s])
    /\ \A r \in Request : Sound(req[r], seen)

\* What a step does to the case files: one of their steps, or nothing.
CaseStep == [Case!Next]_<<seen, [s \in Shipment |-> ship[s].closed]>>

(***************************************************************************)
(* The operators of shipment_status.py.                                    *)
(***************************************************************************)
\* A readiness stands on nothing.
LEMMA ProgressStands ==
    ASSUME NEW boxes, NEW s
    PROVE  /\ Progress(boxes, s) \in {"draft", "picking", "packed"}
           /\ Progress(boxes, s) \in ShipmentStatus 
           /\ Behind(Progress(boxes, s)) = {}
  BY DEF Progress, ShipmentStatus, Behind

\* Synchronizing keeps a row on its events and its case as it was.
LEMMA SyncedStands ==
    ASSUME NEW row, NEW copy, NEW events, NEW boxes, NEW s,
           Stands(row, events)
    PROVE  /\ Stands(Synced(row, copy, Progress(boxes, s)), events)
           /\ Synced(row, copy, Progress(boxes, s)).closed = row.closed
  <1> DEFINE new == Progress(boxes, s)
  <1>1. new \in ShipmentStatus /\ Behind(new) = {}
    BY ProgressStands
  <1> HIDE DEF new
  <1>2. Synced(row, copy, new) \in Row /\ Synced(row, copy, new).closed = row.closed
    BY <1>1 DEF Stands, Synced, Row
  <1>3. Synced(row, copy, new).status \in {row.status, new}
    BY <1>1 DEF Stands, Synced, Row
  <1>4. Stands(Synced(row, copy, new), events)
    BY <1>1, <1>2, <1>3 DEF Stands
  <1> QED
    BY <1>2, <1>4 DEF new

\* A request at rest holds nothing.
LEMMA RestIsSound ==
    ASSUME NEW sn
    PROVE  Sound(AtRest, sn)
  <1>1. AtRest \in RequestState
    BY DEF AtRest, RequestState, Step, Row, Blank, CartonStatus
  <1>2. AtRest.pc = "idle" /\ AtRest.ship = None
    BY DEF AtRest
  <1>3. None \notin Shipment
    BY NoneIsNobody
  <1> QED
    BY <1>1, <1>2, <1>3 DEF Sound

\* Events are only added, so what a request holds stays sound.
LEMMA EventsGrow ==
    ASSUME NEW x, NEW sn, NEW sm, Sound(x, sn),
           \A s \in Shipment : sn[s] \subseteq sm[s]
    PROVE  Sound(x, sm)
  BY DEF Sound, Stands

(***************************************************************************)
(* A step of one request: the other requests hold what they held.          *)
(***************************************************************************)
LEMMA OneRequest ==
    ASSUME IInv, TypeOK', NEW r \in Request,
           \A s \in Shipment : seen[s] \subseteq seen'[s],
           \A s \in Shipment : Stands(ship'[s], seen'[s]),
           Sound(req'[r], seen'),
           \A q \in Request \ {r} : Sound(req'[q], seen)
    PROVE  IInv'
  <1>1. \A q \in Request : Sound(req'[q], seen')
    BY EventsGrow
  <1> QED
    BY <1>1 DEF IInv

\* Nothing of a case changes.
LEMMA CaseUntouched ==
    ASSUME seen' = seen, \A s \in Shipment : ship'[s].closed = ship[s].closed
    PROVE  CaseStep
  <1>1. [s \in Shipment |-> ship[s].closed]' = [s \in Shipment |-> ship[s].closed]
    OBVIOUS
  <1> QED
    BY <1>1 DEF CaseStep

\* One row is saved, with the case as it was.
LEMMA OneRow ==
    ASSUME IInv, seen' = seen, NEW s \in Shipment, NEW row,
           Stands(row, seen[s]), row.closed = ship[s].closed,
           ship' = [ship EXCEPT ![s] = row]
    PROVE  /\ ship' \in [Shipment -> Row]
           /\ \A t \in Shipment : Stands(ship'[t], seen'[t])
           /\ CaseStep
  <1>1. ship \in [Shipment -> Row] /\ row \in Row
    BY DEF IInv, TypeOK, Stands
  <1>2. \A t \in Shipment : ship'[t] = IF t = s THEN row ELSE ship[t]
    BY <1>1
  <1>3. \A t \in Shipment : ship'[t].closed = ship[t].closed
    BY <1>2
  <1>4. \A t \in Shipment : Stands(ship'[t], seen'[t])
    BY <1>2 DEF IInv
  <1>5. ship' \in [Shipment -> Row]
    BY <1>1
  <1> QED
    BY <1>3, <1>4, <1>5, CaseUntouched

\* No row is saved.
LEMMA NoRow ==
    ASSUME IInv, UNCHANGED <<ship, seen, last>>
    PROVE  /\ ship' \in [Shipment -> Row] /\ last' \in [Shipment -> TrackingStatus \cup {None}]
           /\ seen' \in [Shipment -> SUBSET Milestone]
           /\ \A t \in Shipment : Stands(ship'[t], seen'[t])
           /\ CaseStep
  <1>1. CaseStep
    BY CaseUntouched
  <1> QED
    BY <1>1 DEF IInv, TypeOK

\* The request ends and nothing else of the requests changes.
LEMMA DoneIsSound ==
    ASSUME IInv, NEW r \in Request, Done(r)
    PROVE  /\ req' \in [Request -> RequestState]
           /\ Sound(req'[r], seen')
           /\ \A q \in Request \ {r} : Sound(req'[q], seen)
  <1>1. req \in [Request -> RequestState] /\ AtRest \in RequestState
    BY RestIsSound DEF IInv, TypeOK, Sound
  <1>2. req'[r] = AtRest /\ \A q \in Request \ {r} : req'[q] = req[q]
    BY <1>1 DEF Done
  <1> QED
    BY <1>1, <1>2, RestIsSound DEF Done, IInv

\* A step that gives one request a new state.
LEMMA RequestMoves ==
    ASSUME IInv, NEW r \in Request, NEW x, Sound(x, seen'), req' = [req EXCEPT ![r] = x]
    PROVE  /\ req' \in [Request -> RequestState]
           /\ Sound(req'[r], seen')
           /\ \A q \in Request \ {r} : Sound(req'[q], seen)
  <1>1. req \in [Request -> RequestState] /\ x \in RequestState
    BY DEF IInv, TypeOK, Sound
  <1>2. req'[r] = x /\ \A q \in Request \ {r} : req'[q] = req[q]
    BY <1>1
  <1> QED
    BY <1>1, <1>2 DEF IInv

Boxes == [Carton -> [status: CartonStatus, shipment: Shipment \cup {None}]]

\* A step of one request that leaves the rows of the shipments alone.
LEMMA CartonsOnly ==
    ASSUME IInv, NEW r \in Request, UNCHANGED <<ship, seen, last>>, carton' \in Boxes,
           req' \in [Request -> RequestState], Sound(req'[r], seen'),
           \A q \in Request \ {r} : Sound(req'[q], seen)
    PROVE  IInv' /\ CaseStep
  <1>1. TypeOK'
    BY NoRow DEF TypeOK, Boxes
  <1>2. IInv'
    BY <1>1, NoRow, OneRequest
  <1> QED
    BY <1>2, NoRow

\* A step of one request that saves one row and leaves the case alone.
LEMMA RowSaved ==
    ASSUME IInv, NEW r \in Request, UNCHANGED <<seen, last>>, carton' \in Boxes,
           NEW s \in Shipment, NEW row, Stands(row, seen[s]), row.closed = ship[s].closed,
           ship' = [ship EXCEPT ![s] = row],
           req' \in [Request -> RequestState], Sound(req'[r], seen'),
           \A q \in Request \ {r} : Sound(req'[q], seen)
    PROVE  IInv' /\ CaseStep
  <1>1. /\ ship' \in [Shipment -> Row] /\ CaseStep
        /\ \A t \in Shipment : Stands(ship'[t], seen'[t])
    BY OneRow
  <1>2. TypeOK'
    BY <1>1 DEF IInv, TypeOK, Boxes
  <1>3. IInv'
    BY <1>1, <1>2, OneRequest
  <1> QED
    BY <1>1, <1>3

(***************************************************************************)
(* The requests that touch only one shipment's readiness.                  *)
(***************************************************************************)
\* Cartons put somewhere are cartons.
LEMMA PutBoxes ==
    ASSUME NEW boxes \in Boxes, NEW set, NEW s \in Shipment \cup {None}, NEW status \in CartonStatus
    PROVE  Put(boxes, set, s, status) \in Boxes
  BY DEF Put, Boxes

\* A commit that synchronizes the shipment the request loaded.
LEMMA CommitSound ==
    ASSUME IInv, NEW r \in Request, NEW boxes \in Boxes, req[r].ship \in Shipment,
           CommitAndSync(r, boxes), Done(r)
    PROVE  IInv' /\ CaseStep
  <1> DEFINE s == req[r].ship
             row == Synced(ship[s], req[r].copy, Progress(boxes, s))
  <1>1. Stands(ship[s], seen[s])
    BY DEF IInv
  <1>2. Stands(row, seen[s]) /\ row.closed = ship[s].closed
    BY <1>1, SyncedStands
  <1>3. /\ carton' \in Boxes /\ UNCHANGED <<seen, last>>
        /\ ship' = [ship EXCEPT ![s] = row]
    BY DEF CommitAndSync
  <1> HIDE DEF row, s
  <1> QED
    BY <1>2, <1>3, DoneIsSound, RowSaved DEF s

LEMMA SyncSound ==
    ASSUME IInv, NEW r \in Request, SyncReadyState(r)
    PROVE  IInv' /\ CaseStep
  <1>1. req[r].ship \in Shipment
    BY DEF IInv, Sound, SyncReadyState
  <1>2. carton \in Boxes
    BY DEF IInv, TypeOK, Boxes
  <1>3. CommitAndSync(r, carton) /\ Done(r)
    BY DEF SyncReadyState, CommitAndSync
  <1> QED
    BY <1>1, <1>2, <1>3, CommitSound

LEMMA LoadShipmentSound ==
    ASSUME IInv, NEW r \in Request, NEW s \in Shipment, LoadShipment(r, s)
    PROVE  IInv' /\ CaseStep
  <1> DEFINE x == [AtRest EXCEPT !.pc = "shipment", !.ship = s, !.copy = ship[s]]
  <1>1. Stands(ship[s], seen[s]) /\ carton \in Boxes
    BY DEF IInv, TypeOK, Boxes
  <1>2. x \in RequestState /\ x.pc = "shipment" /\ x.ship = s /\ x.copy = ship[s]
    BY <1>1 DEF AtRest, RequestState, Step, CartonStatus, Stands
  <1>3. Sound(x, seen')
    BY <1>1, <1>2 DEF Sound, LoadShipment
  <1>4. /\ req' = [req EXCEPT ![r] = x] /\ UNCHANGED <<ship, seen, last>>
        /\ carton' \in Boxes
    BY <1>1 DEF LoadShipment
  <1> HIDE DEF x
  <1> QED
    BY <1>3, <1>4, RequestMoves, CartonsOnly

LEMMA LoadCartonSound ==
    ASSUME IInv, NEW r \in Request, NEW c \in Carton, LoadCarton(r, c)
    PROVE  IInv' /\ CaseStep
  <1> DEFINE s == carton[c].shipment
             copy == IF s = None THEN Blank ELSE ship[s]
             x == [AtRest EXCEPT !.pc = "carton", !.carton = c, !.held = carton[c].status,
                                 !.ship = s, !.copy = copy]
  <1>1. carton \in Boxes /\ s \in Shipment \cup {None} /\ carton[c].status \in CartonStatus
    BY DEF IInv, TypeOK, Boxes
  <1>2. s # None => Stands(ship[s], seen[s])
    BY <1>1 DEF IInv
  <1>3. copy \in Row
    BY <1>1, <1>2 DEF Stands, Blank, Row
  <1>4. x \in RequestState /\ x.pc = "carton" /\ x.ship = s /\ x.copy = copy
    BY <1>1, <1>3 DEF AtRest, RequestState, Step
  <1>5. Sound(x, seen')
    BY <1>1, <1>2, <1>4, NoneIsNobody DEF Sound, LoadCarton
  <1>6. /\ req' = [req EXCEPT ![r] = x] /\ UNCHANGED <<ship, seen, last>>
        /\ carton' \in Boxes
    BY <1>1 DEF LoadCarton
  <1> HIDE DEF x
  <1> QED
    BY <1>5, <1>6, RequestMoves, CartonsOnly

LEMMA CreateShipmentSound ==
    ASSUME IInv, NEW r \in Request, NEW s \in Shipment, NEW add, NEW fresh,
           CreateShipment(r, s, add, fresh)
    PROVE  IInv' /\ CaseStep
  <1> DEFINE boxes == Put(carton, add \cup fresh, s, "assigned")
             new == [Blank EXCEPT !.status = "draft"]
             row == IF fresh = {} THEN new ELSE Synced(new, new, Progress(boxes, s))
             x == [AtRest EXCEPT !.pc = "sync", !.ship = s, !.copy = row]
  <1>1. new \in Row /\ new.status = "draft" /\ new.closed = FALSE
    BY DEF Blank, Row, ShipmentStatus
  <1>2. Stands(new, seen[s])
    BY <1>1 DEF Stands, Behind
  <1> HIDE DEF new
  <1>3. Stands(row, seen[s]) /\ row.closed = FALSE
    <2> DEFINE sync == Synced(new, new, Progress(boxes, s))
    <2>1. Stands(sync, seen[s]) /\ sync.closed = new.closed
      BY <1>2, SyncedStands
    <2>2. row = new \/ row = sync
      OBVIOUS
    <2> QED
      BY <1>1, <1>2, <2>1, <2>2
  <1>4. carton \in Boxes
    BY DEF IInv, TypeOK, Boxes
  <1>5. boxes \in Boxes
    BY <1>4, PutBoxes DEF CartonStatus
  <1>6. /\ ship[s] = Blank /\ carton' = boxes /\ UNCHANGED <<seen, last>>
        /\ ship' = [ship EXCEPT ![s] = row] /\ req' = [req EXCEPT ![r] = x]
    BY DEF CreateShipment, new
  <1> HIDE DEF row, boxes
  <1>7. x \in RequestState /\ x.pc = "sync" /\ x.ship = s /\ x.copy = row
    BY <1>3 DEF AtRest, RequestState, Step, CartonStatus, Stands
  <1>8. Sound(x, seen')
    BY <1>3, <1>6, <1>7 DEF Sound
  <1> HIDE DEF x
  <1>9. ship[s].closed = FALSE
    BY <1>6 DEF Blank
  <1> QED
    BY <1>3, <1>5, <1>6, <1>8, <1>9, RequestMoves, RowSaved

\* The request goes on to synchronize, with a copy that stands.
LEMMA ToSync ==
    ASSUME IInv, NEW r \in Request, NEW copy, req[r].ship \in Shipment,
           Stands(copy, seen[req[r].ship]), UNCHANGED seen
    PROVE  Sound([req[r] EXCEPT !.pc = "sync", !.copy = copy], seen')
  <1> DEFINE x == [req[r] EXCEPT !.pc = "sync", !.copy = copy]
  <1>1. req[r] \in RequestState /\ copy \in Row
    BY DEF IInv, TypeOK, Stands
  <1>2. /\ x \in RequestState /\ x.pc = "sync"
        /\ x.ship = req[r].ship /\ x.copy = copy
    BY <1>1 DEF RequestState, Step
  <1> HIDE DEF x
  <1>3. Sound(x, seen')
    BY <1>2 DEF Sound
  <1> QED
    BY <1>3 DEF x

LEMMA EditShipmentSound ==
    ASSUME IInv, NEW r \in Request, NEW out, NEW add, NEW fresh,
           EditShipment(r, out, add, fresh)
    PROVE  IInv' /\ CaseStep
  <1> DEFINE s == req[r].ship
             copy == req[r].copy
             emptied == [c \in Carton |->
                IF c \in out
                THEN [status |-> IF carton[c].status \in {"assigned", "labeled"} THEN "packed"
                                 ELSE carton[c].status,
                      shipment |-> None]
                ELSE IF carton[c].shipment = s /\ carton[c].status = "packed"
                THEN [carton[c] EXCEPT !.status = "assigned"] ELSE carton[c]]
             boxes == Put(emptied, add \cup fresh, s, "assigned")
             row == IF fresh = {} THEN ship[s] ELSE Synced(ship[s], copy, Progress(boxes, s))
             held == IF fresh = {} THEN copy ELSE Synced(copy, copy, Progress(boxes, s))
             x == [req[r] EXCEPT !.pc = "sync", !.copy = held]
  <1>1. /\ s \in Shipment /\ Stands(ship[s], seen[s]) /\ Stands(copy, seen[s])
        /\ carton \in Boxes /\ req \in [Request -> RequestState]
        /\ ship \in [Shipment -> Row]
    BY DEF IInv, TypeOK, Boxes, Sound, EditShipment
  <1>2. emptied \in Boxes
    BY <1>1 DEF Boxes, CartonStatus
  <1>3. boxes \in Boxes
    <2> HIDE DEF emptied, s
    <2> QED
      BY <1>1, <1>2, PutBoxes DEF CartonStatus
  <1>4. /\ carton' = boxes /\ UNCHANGED <<seen, last>>
        /\ ship' = IF fresh = {} THEN ship
                   ELSE [ship EXCEPT ![s] = Synced(@, copy, Progress(boxes, s))]
        /\ req' = [req EXCEPT ![r].pc = "sync",
                     ![r].copy = IF fresh = {} THEN @ ELSE Synced(@, @, Progress(boxes, s))]
    BY DEF EditShipment
  <1> HIDE DEF boxes
  <1>5. ship' = [ship EXCEPT ![s] = row]
    BY <1>1, <1>4
  <1>6. req' = [req EXCEPT ![r] = x]
    BY <1>1, <1>4
  <1> HIDE DEF s, copy
  <1>7. Stands(row, seen[s]) /\ row.closed = ship[s].closed
    BY <1>1, SyncedStands
  <1>8. Stands(held, seen[s])
    BY <1>1, SyncedStands
  <1> HIDE DEF held, row
  <1>9. Sound(x, seen')
    BY <1>1, <1>4, <1>8, ToSync DEF s
  <1> HIDE DEF x
  <1>10. /\ req' \in [Request -> RequestState] /\ Sound(req'[r], seen')
         /\ \A q \in Request \ {r} : Sound(req'[q], seen)
    BY <1>6, <1>9, RequestMoves
  <1> QED
    BY <1>1, <1>3, <1>4, <1>5, <1>7, <1>10, RowSaved

LEMMA PrepareOrderSound ==
    ASSUME IInv, NEW r \in Request, NEW add, NEW fresh, PrepareOrder(r, add, fresh)
    PROVE  IInv' /\ CaseStep
  <1>1. req[r].ship \in Shipment /\ carton \in Boxes
    BY DEF IInv, TypeOK, Boxes, Sound, PrepareOrder
  <1>2. Put(carton, add \cup fresh, req[r].ship, "assigned") \in Boxes
    BY <1>1, PutBoxes DEF CartonStatus
  <1> QED
    BY <1>1, <1>2, CommitSound DEF PrepareOrder

LEMMA PackIntoSound ==
    ASSUME IInv, NEW r \in Request, NEW c \in Carton, NEW status \in {"assigned", "packed"},
           PackInto(r, c, status)
    PROVE  IInv' /\ CaseStep
  <1>1. req[r].ship \in Shipment /\ carton \in Boxes
    BY DEF IInv, TypeOK, Boxes, Sound, PackInto
  <1>2. Put(carton, {c}, req[r].ship, status) \in Boxes
    BY <1>1, PutBoxes DEF CartonStatus
  <1> QED
    BY <1>1, <1>2, CommitSound DEF PackInto

LEMMA PackUnassignedSound ==
    ASSUME IInv, NEW c \in Carton, PackUnassigned(c)
    PROVE  IInv' /\ CaseStep
  <1>1. carton \in Boxes
    BY DEF IInv, TypeOK, Boxes
  <1>2. carton' \in Boxes /\ UNCHANGED <<ship, seen, last, req>>
    BY <1>1 DEF PackUnassigned, Boxes, CartonStatus
  <1>3. TypeOK'
    BY <1>2 DEF IInv, TypeOK, Boxes
  <1>4. IInv'
    BY <1>2, <1>3 DEF IInv
  <1> QED
    BY <1>2, <1>4, CaseUntouched

(***************************************************************************)
(* The carton list and the carton admin.                                   *)
(***************************************************************************)
\* One carton of the list gets a status.
LEMMA StatusBoxes ==
    ASSUME IInv, NEW c, NEW status \in CartonStatus
    PROVE  [carton EXCEPT ![c].status = status] \in Boxes
  BY DEF IInv, TypeOK, Boxes

LEMMA UpdateCartonStatusSound ==
    ASSUME IInv, NEW r \in Request, NEW status \in {"draft", "packed"},
           UpdateCartonStatus(r, status)
    PROVE  IInv' /\ CaseStep
  <1>1. carton' \in Boxes /\ UNCHANGED <<ship, seen, last>> /\ Done(r)
    BY StatusBoxes DEF UpdateCartonStatus, CartonStatus
  <1> QED
    BY <1>1, DoneIsSound, CartonsOnly

LEMMA CommitThenSyncSound ==
    ASSUME IInv, NEW r \in Request, NEW boxes \in Boxes, req[r].ship \in Shipment,
           CommitThenSync(r, boxes)
    PROVE  IInv' /\ CaseStep
  <1> DEFINE x == [req[r] EXCEPT !.pc = "sync", !.copy = req[r].copy]
  <1>1. Stands(req[r].copy, seen[req[r].ship]) /\ req \in [Request -> RequestState]
    BY DEF IInv, TypeOK, Sound
  <1>2. carton' = boxes /\ UNCHANGED <<ship, seen, last>>
    BY DEF CommitThenSync
  <1>3. Sound(x, seen')
    BY <1>1, <1>2, ToSync
  <1>4. req' = [req EXCEPT ![r] = x]
    BY <1>1 DEF CommitThenSync, RequestState
  <1> HIDE DEF x
  <1> QED
    BY <1>2, <1>3, <1>4, RequestMoves, CartonsOnly

LEMMA LabelSound ==
    ASSUME IInv, NEW r \in Request, MarkCartonLabeled(r) \/ MarkCartonAssigned(r)
    PROVE  IInv' /\ CaseStep
  <1>1. req[r].ship \in Shipment
    BY DEF IInv, TypeOK, RequestState, MarkCartonLabeled, MarkCartonAssigned, Unlocked
  <1>2. \A status \in {"labeled", "assigned"} :
           [carton EXCEPT ![req[r].carton].status = status] \in Boxes
    BY StatusBoxes DEF CartonStatus
  <1> QED
    BY <1>1, <1>2, CommitThenSyncSound DEF MarkCartonLabeled, MarkCartonAssigned

\* The requests that held a deleted carton hold nothing unsound.
LEMMA ForgetSound ==
    ASSUME IInv, NEW r \in Request, NEW c
    PROVE  /\ Forget(r, c) \in [Request -> RequestState]
           /\ Forget(r, c)[r] = req[r]
           /\ \A q \in Request : Sound(Forget(r, c)[q], seen)
  <1> SUFFICES ASSUME NEW q \in Request
               PROVE  Sound(Forget(r, c)[q], seen) /\ (q = r => Forget(r, c)[q] = req[q])
    BY DEF Forget, Sound
  <1>1. Sound(req[q], seen)
    BY DEF IInv
  <1> DEFINE y == [req[q] EXCEPT !.todo = IF c \in @ THEN (@ \ {c}) \cup {None} ELSE @]
  <1>2. Forget(r, c)[q] \in {req[q], AtRest, y} /\ (q = r => Forget(r, c)[q] = req[q])
    BY DEF Forget
  <1>3. /\ y \in RequestState /\ y.pc = req[q].pc /\ y.ship = req[q].ship
        /\ y.copy = req[q].copy /\ y.event = req[q].event
    BY <1>1 DEF Sound, RequestState
  <1> HIDE DEF y
  <1>4. Sound(y, seen)
    BY <1>1, <1>3 DEF Sound
  <1> QED
    BY <1>1, <1>2, <1>4, RestIsSound

LEMMA DeleteCartonSound ==
    ASSUME IInv, NEW r \in Request, DeleteCarton(r)
    PROVE  IInv' /\ CaseStep
  <1> DEFINE c == req[r].carton
             s == req[r].ship
             boxes == [carton EXCEPT ![c] = [status |-> "absent", shipment |-> None]]
             f == Forget(r, c)
  <1>1. /\ carton \in Boxes /\ req[r] \in RequestState /\ ship \in [Shipment -> Row]
        /\ s \in Shipment \cup {None}
    BY DEF IInv, TypeOK, Boxes, RequestState
  <1>2. boxes \in Boxes
    BY <1>1 DEF Boxes, CartonStatus
  <1>3. /\ f \in [Request -> RequestState] /\ f[r] = req[r]
        /\ \A q \in Request : Sound(f[q], seen)
    BY ForgetSound
  <1>4. /\ req[r].pc = "carton" /\ carton' = boxes /\ UNCHANGED <<seen, last>>
        /\ s = None => ship' = ship /\ req' = [f EXCEPT ![r] = AtRest]
        /\ s # None =>
              /\ ship' = [ship EXCEPT ![s] = Synced(@, req[r].copy, Progress(boxes, s))]
              /\ req' = [f EXCEPT ![r].pc = "sync", ![r].copy = Synced(@, @, Progress(boxes, s))]
    BY DEF DeleteCarton
  <1> HIDE DEF boxes, f
  <1>5. CASE s = None
    <2>1. /\ req' \in [Request -> RequestState] /\ req'[r] = AtRest
          /\ \A q \in Request \ {r} : req'[q] = f[q]
      BY <1>3, <1>4, <1>5, RestIsSound DEF Sound
    <2> HIDE DEF s
    <2>2. Sound(req'[r], seen') /\ \A q \in Request \ {r} : Sound(req'[q], seen)
      BY <1>3, <2>1, RestIsSound
    <2> QED
      BY <1>2, <1>4, <1>5, <2>1, <2>2, CartonsOnly
  <1>6. CASE s # None
    <2> DEFINE copy == req[r].copy
               row == Synced(ship[s], copy, Progress(boxes, s))
               held == Synced(copy, copy, Progress(boxes, s))
               x == [req[r] EXCEPT !.pc = "sync", !.copy = held]
    <2>1. s \in Shipment
      BY <1>1, <1>6
    <2>2. Stands(ship[s], seen[s]) /\ Stands(copy, seen[s])
      BY <2>1 DEF IInv, Sound
    <2>3. ship' = [ship EXCEPT ![s] = row]
      BY <1>4, <1>6
    <2>4. req' = [f EXCEPT ![r] = x]
      BY <1>1, <1>3, <1>4, <1>6 DEF RequestState
    <2> HIDE DEF copy
    <2>5. Stands(row, seen[s]) /\ row.closed = ship[s].closed /\ Stands(held, seen[s])
      BY <2>2, SyncedStands
    <2> HIDE DEF row, held
    <2>6. Sound(x, seen')
      BY <1>4, <2>1, <2>5, ToSync
    <2> HIDE DEF x, s
    <2>7. /\ req' \in [Request -> RequestState] /\ Sound(req'[r], seen')
          /\ \A q \in Request \ {r} : Sound(req'[q], seen)
      BY <1>3, <2>4, <2>6 DEF Sound
    <2> QED
      BY <1>2, <1>4, <2>1, <2>3, <2>5, <2>7, RowSaved
  <1> QED
    BY <1>5, <1>6

LEMMA UnpackCartonSound ==
    ASSUME IInv, NEW r \in Request, UnpackCarton(r)
    PROVE  IInv' /\ CaseStep
  <1>1. carton \in Boxes /\ req[r].ship \in Shipment \cup {None}
    BY DEF IInv, TypeOK, Boxes, RequestState
  <1>2. [carton EXCEPT ![req[r].carton] = [status |-> "draft", shipment |-> None]] \in Boxes
    BY <1>1 DEF Boxes, CartonStatus
  <1>3. PICK boxes \in Boxes :
           /\ Done(r)
           /\ req[r].ship = None => carton' = boxes /\ UNCHANGED <<ship, seen, last>>
           /\ req[r].ship # None => CommitAndSync(r, boxes)
    BY <1>1, <1>2 DEF UnpackCarton
  <1>4. CASE req[r].ship = None
    BY <1>3, <1>4, DoneIsSound, CartonsOnly
  <1>5. CASE req[r].ship # None
    BY <1>1, <1>3, <1>5, CommitSound
  <1> QED
    BY <1>4, <1>5

LEMMA RepackCartonSound ==
    ASSUME IInv, NEW r \in Request, RepackCarton(r)
    PROVE  IInv' /\ CaseStep
  <1>1. carton \in Boxes /\ req[r].ship \in Shipment
    BY DEF IInv, TypeOK, Boxes, RequestState, RepackCarton
  <1>2. Put(carton, {req[r].carton}, req[r].ship, "assigned") \in Boxes
    BY <1>1, PutBoxes DEF CartonStatus
  <1> QED
    BY <1>1, <1>2, CommitSound DEF RepackCarton

(***************************************************************************)
(* The tracking page.                                                      *)
(***************************************************************************)
\* A transition the page allows from a status asks for one more event than
\* the status stands on.
LEMMA AllowedStands ==
    ASSUME NEW status, NEW latest, NEW t \in Allowed(status, latest)
    PROVE  /\ t \in TrackingStatus
           /\ Behind(TRACKING_TO_SHIPMENT_STATUS[t]) \ {t} \subseteq Behind(status)
  BY DEF Allowed, TrackingStatus, TRACKING_TO_SHIPMENT_STATUS, Behind

LEMMA ValidateTrackingSound ==
    ASSUME IInv, NEW r \in Request, NEW t \in TrackingStatus, ValidateTracking(r, t)
    PROVE  IInv' /\ CaseStep
  <1> DEFINE s == req[r].ship
             x == [req[r] EXCEPT !.pc = "valid", !.event = t]
  <1>1. /\ s \in Shipment /\ Stands(req[r].copy, seen[s]) /\ req[r] \in RequestState
        /\ t \in Allowed(req[r].copy.status, last[s])
    BY DEF IInv, TypeOK, Sound, ValidateTracking
  <1>2. Behind(TRACKING_TO_SHIPMENT_STATUS[t]) \ {t} \subseteq seen[s]
    BY <1>1, AllowedStands DEF Stands
  <1>3. /\ req' = [req EXCEPT ![r] = x] /\ UNCHANGED <<ship, seen, last>>
        /\ carton' \in Boxes
    BY <1>1 DEF ValidateTracking, RequestState, IInv, TypeOK, Boxes
  <1>4. /\ x \in RequestState /\ x.pc = "valid" /\ x.ship = s /\ x.copy = req[r].copy
        /\ x.event = t
    BY <1>1 DEF RequestState, Step
  <1> HIDE DEF x, s
  <1>5. Sound(x, seen')
    BY <1>1, <1>2, <1>3, <1>4 DEF Sound
  <1> QED
    BY <1>3, <1>5, RequestMoves, CartonsOnly

\* A tracking event of a shipment that has the events before it is a step of
\* its case file.
LEMMA RecordIsCaseStep ==
    ASSUME IInv, NEW s \in Shipment, NEW t \in TrackingStatus, Record(s, t),
           Behind(TRACKING_TO_SHIPMENT_STATUS[t]) \ {t} \subseteq seen[s],
           \A z \in Shipment : ship'[z].closed = ship[z].closed
    PROVE  /\ CaseStep
           /\ seen' \in [Shipment -> SUBSET Milestone]
           /\ last' \in [Shipment -> TrackingStatus \cup {None}]
           /\ \A z \in Shipment : seen[z] \subseteq seen'[z]
           /\ {t} \cap Milestone \subseteq seen'[s]
  <1>1. seen \in [Shipment -> SUBSET Milestone] /\ last \in [Shipment -> TrackingStatus \cup {None}]
    BY DEF IInv, TypeOK
  <1>2. /\ seen' = [seen EXCEPT ![s] = @ \cup ({t} \cap Milestone)]
        /\ last' = [last EXCEPT ![s] = t]
    BY DEF Record
  <1>3. CASE t \in Milestone
    <2>1. Case!Before(t) \subseteq seen[s]
      <3>1. Case!Before(t) \subseteq Behind(TRACKING_TO_SHIPMENT_STATUS[t]) \ {t}
        BY <1>3 DEF Case!Before, Case!Milestone, Case!Rank, Milestone, Behind,
                    TRACKING_TO_SHIPMENT_STATUS, TrackingStatus
      <3> QED
        BY <3>1
    <2>2. seen' = [seen EXCEPT ![s] = @ \cup {t}]
      BY <1>2, <1>3
    <2>3. [z \in Shipment |-> ship[z].closed]' = [z \in Shipment |-> ship[z].closed]
      OBVIOUS
    <2>4. Case!Reach(s, t)
      BY <2>1, <2>2, <2>3 DEF Case!Reach
    <2>5. t \in Case!Milestone
      BY <1>3 DEF Case!Milestone, Milestone
    <2> QED
      BY <1>1, <1>2, <2>4, <2>5 DEF CaseStep, Case!Next
  <1>4. CASE t \notin Milestone
    <2>1. seen' = seen
      BY <1>1, <1>2, <1>4
    <2> QED
      BY <1>1, <1>2, <1>4, <2>1, CaseUntouched
  <1> QED
    BY <1>3, <1>4

LEMMA RecordTrackingSound ==
    ASSUME IInv, NEW r \in Request, RecordTracking(r)
    PROVE  IInv' /\ CaseStep
  <1> DEFINE s == req[r].ship
             t == req[r].event
             x == IF TRACKING_TO_SHIPMENT_STATUS[t] = req[r].copy.status THEN AtRest
                  ELSE [req[r] EXCEPT !.pc = "recorded"]
  <1>1. /\ s \in Shipment /\ t \in TrackingStatus /\ Stands(req[r].copy, seen[s])
        /\ Behind(TRACKING_TO_SHIPMENT_STATUS[t]) \ {t} \subseteq seen[s]
        /\ req[r] \in RequestState
    BY DEF IInv, Sound, RecordTracking
  <1>2. Record(s, t) /\ UNCHANGED <<ship, carton>>
    BY DEF RecordTracking
  <1>3. /\ CaseStep
        /\ seen' \in [Shipment -> SUBSET Milestone]
        /\ last' \in [Shipment -> TrackingStatus \cup {None}]
        /\ \A z \in Shipment : seen[z] \subseteq seen'[z]
        /\ {t} \cap Milestone \subseteq seen'[s]
    <2> HIDE DEF s, t
    <2> QED
      BY <1>1, <1>2, RecordIsCaseStep
  <1>4. req' = [req EXCEPT ![r] = x]
    BY <1>1 DEF RecordTracking, Done, IInv, TypeOK, RequestState
  <1>5. Behind(TRACKING_TO_SHIPMENT_STATUS[t]) \subseteq Milestone
    BY DEF Behind, Milestone
  <1>6. Behind(TRACKING_TO_SHIPMENT_STATUS[t]) \subseteq seen'[s]
    BY <1>1, <1>3, <1>5
  <1>7. Sound(x, seen')
    <2>1. CASE x = AtRest
      BY <2>1, RestIsSound
    <2>2. CASE x = [req[r] EXCEPT !.pc = "recorded"]
      <3>1. /\ x \in RequestState /\ x.pc = "recorded" /\ x.ship = s /\ x.event = t
            /\ x.copy = req[r].copy
        BY <1>1, <2>2 DEF RequestState, Step
      <3>2. Stands(x.copy, seen'[s])
        BY <1>1, <1>3, <3>1 DEF Stands
      <3> HIDE DEF x, s, t
      <3> QED
        BY <1>1, <1>6, <3>1, <3>2 DEF Sound
    <2> QED
      BY <2>1, <2>2
  <1> HIDE DEF x
  <1>8. /\ req' \in [Request -> RequestState] /\ Sound(req'[r], seen')
        /\ \A q \in Request \ {r} : Sound(req'[q], seen)
    BY <1>4, <1>7, RequestMoves
  <1>9. \A z \in Shipment : Stands(ship'[z], seen'[z])
    BY <1>2, <1>3 DEF IInv, Stands
  <1>10. TypeOK'
    BY <1>2, <1>3, <1>8 DEF IInv, TypeOK
  <1>11. IInv'
    BY <1>3, <1>8, <1>9, <1>10, OneRequest
  <1> QED
    BY <1>3, <1>11

LEMMA SaveTrackedStatusSound ==
    ASSUME IInv, NEW r \in Request, SaveTrackedStatus(r)
    PROVE  IInv' /\ CaseStep
  <1> DEFINE s == req[r].ship
             target == TRACKING_TO_SHIPMENT_STATUS[req[r].event]
             row == [ship[s] EXCEPT
                       !.status = target,
                       !.ready = IF target = "packed" /\ ~ req[r].copy.ready THEN TRUE ELSE @]
             todo == {c \in CartonsOf(carton, s) : carton[c].status # "shipped"}
             x == IF target # "shipped" THEN AtRest
                  ELSE [req[r] EXCEPT !.pc = "ship", !.todo = todo]
  <1>1. /\ s \in Shipment /\ Stands(ship[s], seen[s]) /\ Stands(req[r].copy, seen[s])
        /\ Behind(target) \subseteq seen[s] /\ req[r] \in RequestState
        /\ req[r].event \in TrackingStatus /\ carton \in Boxes
        /\ ship \in [Shipment -> Row] /\ req \in [Request -> RequestState]
    BY DEF IInv, TypeOK, Boxes, Sound, SaveTrackedStatus
  <1>2. target \in ShipmentStatus /\ target # "absent"
    BY <1>1 DEF TRACKING_TO_SHIPMENT_STATUS, TrackingStatus, ShipmentStatus
  <1>3. /\ UNCHANGED <<carton, seen, last>>
        /\ ship' = [ship EXCEPT ![s].status = target,
                                ![s].ready = IF target = "packed" /\ ~ req[r].copy.ready
                                             THEN TRUE ELSE @]
        /\ req' = IF target # "shipped" THEN [req EXCEPT ![r] = AtRest]
                  ELSE [req EXCEPT ![r].pc = "ship", ![r].todo = todo]
    BY DEF SaveTrackedStatus, Done
  <1> HIDE DEF target
  <1>4. ship' = [ship EXCEPT ![s] = row]
    BY <1>1, <1>3 DEF Row
  <1>5. row \in Row /\ row.status = target /\ row.closed = ship[s].closed
    BY <1>1, <1>2 DEF Row
  <1> HIDE DEF row
  <1>6. Stands(row, seen[s])
    BY <1>1, <1>2, <1>5 DEF Stands
  <1>7. todo \subseteq Carton
    BY DEF CartonsOf
  <1> HIDE DEF todo
  <1>8. req' = [req EXCEPT ![r] = x]
    BY <1>1, <1>3
  <1>9. Sound(x, seen')
    <2>1. CASE target # "shipped"
      BY <2>1, RestIsSound
    <2>2. CASE target = "shipped"
      <3>1. /\ x \in RequestState /\ x.pc = "ship" /\ x.ship = s
            /\ x.copy = req[r].copy
        BY <1>1, <1>7, <2>2 DEF RequestState, Step
      <3> HIDE DEF x, s
      <3> QED
        BY <1>1, <1>3, <3>1 DEF Sound
    <2> QED
      BY <2>1, <2>2
  <1> HIDE DEF x, s
  <1>10. /\ req' \in [Request -> RequestState] /\ Sound(req'[r], seen')
         /\ \A q \in Request \ {r} : Sound(req'[q], seen)
    BY <1>8, <1>9, RequestMoves
  <1> QED
    BY <1>1, <1>3, <1>4, <1>5, <1>6, <1>10, RowSaved

\* One carton of a loop, and the loop's end.
LEMMA LoopSound ==
    ASSUME IInv, NEW r \in Request,
           LoopDone(r) \/ \E c \in Carton : ShipCarton(r, c) \/ RelabelCarton(r, c)
    PROVE  IInv' /\ CaseStep
  <1>1. Sound(req[r], seen) /\ req \in [Request -> RequestState] /\ carton \in Boxes
    BY DEF IInv, TypeOK, Boxes
  <1>2. ASSUME NEW c \in Carton, ShipCarton(r, c) \/ RelabelCarton(r, c)
        PROVE  IInv' /\ CaseStep
    <2> DEFINE x == [req[r] EXCEPT !.todo = @ \ {c}]
    <2>1. /\ req' = [req EXCEPT ![r] = x] /\ UNCHANGED <<ship, seen, last>>
          /\ \E status \in CartonStatus : carton' = [carton EXCEPT ![c].status = status]
      BY <1>1, <1>2 DEF ShipCarton, RelabelCarton, CartonStatus
    <2>2. /\ x \in RequestState /\ x.pc = req[r].pc /\ x.ship = req[r].ship
          /\ x.copy = req[r].copy /\ x.event = req[r].event
      BY <1>1 DEF Sound, RequestState
    <2> HIDE DEF x
    <2>3. Sound(x, seen')
      BY <1>1, <2>1, <2>2 DEF Sound
    <2>4. carton' \in Boxes
      <3>1. PICK status \in CartonStatus : carton' = [carton EXCEPT ![c].status = status]
        BY <2>1
      <3>2. [carton EXCEPT ![c].status = status] \in Boxes
        BY StatusBoxes
      <3> QED
        BY <3>1, <3>2
    <2> QED
      BY <2>1, <2>3, <2>4, RequestMoves, CartonsOnly
  <1>3. ASSUME LoopDone(r)
        PROVE  IInv' /\ CaseStep
    <2> DEFINE x == IF req[r].pc = "ship" THEN AtRest ELSE [req[r] EXCEPT !.pc = "sync"]
    <2>1. /\ req' = [req EXCEPT ![r] = x] /\ UNCHANGED <<ship, seen, last>>
          /\ carton' \in Boxes /\ req[r].pc \in {"ship", "relabel"}
      BY <1>1, <1>3 DEF LoopDone
    <2>2. CASE req[r].pc = "ship"
      BY <2>1, <2>2, RestIsSound, RequestMoves, CartonsOnly
    <2>3. CASE req[r].pc # "ship"
      <3>1. /\ x \in RequestState /\ x.pc = "sync" /\ x.ship = req[r].ship
            /\ x.copy = req[r].copy
        BY <1>1, <2>3 DEF Sound, RequestState, Step
      <3> HIDE DEF x
      <3>2. Sound(x, seen')
        BY <1>1, <2>1, <2>3, <3>1 DEF Sound
      <3> QED
        BY <2>1, <3>2, RequestMoves, CartonsOnly
    <2> QED
      BY <2>2, <2>3
  <1> QED
    BY <1>2, <1>3

LEMMA SetDisputedSound ==
    ASSUME IInv, NEW r \in Request, SetDisputed(r)
    PROVE  IInv' /\ CaseStep
  <1> DEFINE s == req[r].ship
             row == [ship[s] EXCEPT !.disputed = TRUE]
  <1>1. s \in Shipment /\ Stands(ship[s], seen[s]) /\ ship \in [Shipment -> Row]
    BY DEF IInv, TypeOK, Sound, SetDisputed
  <1>2. Stands(row, seen[s]) /\ row.closed = ship[s].closed
    BY <1>1 DEF Stands, Row
  <1>3. /\ ship' = [ship EXCEPT ![s] = row] /\ UNCHANGED <<seen, last>> /\ Done(r)
        /\ carton' \in Boxes
    BY <1>1 DEF SetDisputed, IInv, TypeOK, Boxes
  <1> HIDE DEF row, s
  <1> QED
    BY <1>1, <1>2, <1>3, DoneIsSound, RowSaved

LEMMA ResolveDisputeSound ==
    ASSUME IInv, NEW r \in Request, ResolveDispute(r)
    PROVE  IInv' /\ CaseStep
  <1> DEFINE s == req[r].ship
             copy == req[r].copy
             reset == copy.status \in LOCKED
             Resolved(row) ==
                [row EXCEPT !.disputed = IF copy.disputed THEN FALSE ELSE @,
                            !.status = IF reset THEN "packed" ELSE @,
                            !.ready = IF reset THEN (IF copy.ready THEN @ ELSE TRUE) ELSE @]
             todo == IF copy.status \in MUTATION_BLOCKED
                     THEN {c \in CartonsOf(carton, s) : carton[c].status = "shipped"} ELSE {}
             x == [req[r] EXCEPT !.pc = "relabel", !.copy = Resolved(copy), !.todo = todo]
  <1>1. /\ s \in Shipment /\ Stands(ship[s], seen[s]) /\ Stands(copy, seen[s])
        /\ req[r] \in RequestState /\ carton \in Boxes
        /\ ship \in [Shipment -> Row] /\ req \in [Request -> RequestState]
    BY DEF IInv, TypeOK, Boxes, Sound, ResolveDispute
  <1>2. \A row : Stands(row, seen[s]) =>
           Stands(Resolved(row), seen[s]) /\ Resolved(row).closed = row.closed
    <2> SUFFICES ASSUME NEW row, Stands(row, seen[s])
                 PROVE  Stands(Resolved(row), seen[s]) /\ Resolved(row).closed = row.closed
      OBVIOUS
    <2>1. /\ Resolved(row) \in Row /\ Resolved(row).closed = row.closed
          /\ Resolved(row).status \in {row.status, "packed"}
      BY DEF Stands, Row, ShipmentStatus
    <2>2. Behind("packed") = {}
      BY DEF Behind
    <2> QED
      BY <2>1, <2>2 DEF Stands
  <1>3. /\ ship' = [ship EXCEPT ![s] = Resolved(ship[s])]
        /\ UNCHANGED <<carton, seen, last>>
        /\ req' = [req EXCEPT ![r] = x]
    BY <1>1 DEF ResolveDispute
  <1>4. todo \subseteq Carton
    BY DEF CartonsOf
  <1> HIDE DEF todo, Resolved
  <1>5. Stands(Resolved(copy), seen[s]) /\ Resolved(copy) \in Row
    BY <1>1, <1>2 DEF Stands
  <1>6. /\ x \in RequestState /\ x.pc = "relabel" /\ x.ship = s /\ x.copy = Resolved(copy)
    BY <1>1, <1>4, <1>5 DEF RequestState, Step
  <1> HIDE DEF x
  <1>7. Sound(x, seen')
    BY <1>1, <1>3, <1>5, <1>6 DEF Sound
  <1>8. /\ req' \in [Request -> RequestState] /\ Sound(req'[r], seen')
        /\ \A q \in Request \ {r} : Sound(req'[q], seen)
    BY <1>3, <1>7, RequestMoves
  <1>9. Stands(Resolved(ship[s]), seen[s]) /\ Resolved(ship[s]).closed = ship[s].closed
    BY <1>1, <1>2
  <1> DEFINE saved == Resolved(ship[s])
  <1>10. /\ ship' = [ship EXCEPT ![s] = saved] /\ Stands(saved, seen[s])
         /\ saved.closed = ship[s].closed
    BY <1>3, <1>9
  <1> HIDE DEF saved, s
  <1> QED
    BY <1>1, <1>3, <1>8, <1>10, RowSaved

(***************************************************************************)
(* The tracking board and the planning.                                    *)
(***************************************************************************)
LEMMA CloseShipmentSound ==
    ASSUME IInv, NEW r \in Request, CloseShipment(r)
    PROVE  IInv' /\ CaseStep
  <1> PICK s \in Shipment : s = req[r].ship
    BY DEF IInv, Sound, CloseShipment
  <1> DEFINE row == [ship[s] EXCEPT !.closed = TRUE]
             closed == [z \in Shipment |-> ship[z].closed]
  <1>1. /\ Stands(ship[s], seen[s]) /\ ship \in [Shipment -> Row]
        /\ seen \in [Shipment -> SUBSET Milestone] /\ seen[s] = Milestone
    BY DEF IInv, TypeOK, Sound, CloseShipment, Closable
  <1>2. row \in Row /\ row.status = ship[s].status /\ row.closed = TRUE
    BY <1>1 DEF Row
  <1>3. /\ ship' = [ship EXCEPT ![s] = row] /\ UNCHANGED <<seen, last, carton>> /\ Done(r)
    BY <1>1 DEF CloseShipment
  <1> HIDE DEF row
  <1>4. Stands(row, seen[s])
    BY <1>1, <1>2 DEF Stands
  <1>5. \A z \in Shipment : ship'[z] = IF z = s THEN row ELSE ship[z]
    BY <1>1, <1>3
  <1>6. \A z \in Shipment : Stands(ship'[z], seen'[z])
    BY <1>3, <1>4, <1>5 DEF IInv
  <1>7. TypeOK'
    BY <1>1, <1>2, <1>3, DoneIsSound DEF IInv, TypeOK
  <1>8. IInv'
    BY <1>3, <1>6, <1>7, DoneIsSound, OneRequest
  <1>9. closed' = [closed EXCEPT ![s] = TRUE]
    BY <1>1, <1>2, <1>5
  <1>10. Case!Close(s)
    BY <1>1, <1>3, <1>9 DEF Case!Close, Case!Milestone, Milestone
  <1>11. Case!Next
    BY <1>10 DEF Case!Next
  <1>12. CaseStep
    BY <1>11 DEF CaseStep
  <1> QED
    BY <1>8, <1>12

LEMMA ApplyVersionUpdateSound ==
    ASSUME IInv, NEW r \in Request, ApplyVersionUpdate(r)
    PROVE  IInv' /\ CaseStep
  <1> DEFINE s == req[r].ship
             row == IF req[r].copy.status = "planned" THEN ship[s]
                    ELSE [ship[s] EXCEPT !.status = "planned"]
  <1>1. /\ s \in Shipment /\ Stands(ship[s], seen[s]) /\ Stands(req[r].copy, seen[s])
        /\ ship \in [Shipment -> Row] /\ seen \in [Shipment -> SUBSET Milestone]
        /\ carton \in Boxes /\ last \in [Shipment -> TrackingStatus \cup {None}]
    BY DEF IInv, TypeOK, Boxes, Sound, ApplyVersionUpdate
  <1>2. /\ ship' = [ship EXCEPT ![s] = row] /\ UNCHANGED carton /\ Done(r)
        /\ "planned" \in seen[s] => UNCHANGED <<seen, last>>
        /\ "planned" \notin seen[s] => Record(s, "planned")
    BY <1>1 DEF ApplyVersionUpdate
  <1>3. row \in Row /\ row.status \in {ship[s].status, "planned"} /\ row.closed = ship[s].closed
    BY <1>1 DEF Row, ShipmentStatus
  <1> HIDE DEF row
  <1>4. \A z \in Shipment : ship'[z] = IF z = s THEN row ELSE ship[z]
    BY <1>1, <1>2
  <1>5. \A z \in Shipment : ship'[z].closed = ship[z].closed
    BY <1>3, <1>4
  <1>6. Behind("planned") = {"planned"}
    BY DEF Behind
  <1>7. /\ CaseStep
        /\ seen' \in [Shipment -> SUBSET Milestone]
        /\ last' \in [Shipment -> TrackingStatus \cup {None}]
        /\ \A z \in Shipment : seen[z] \subseteq seen'[z]
        /\ "planned" \in seen'[s]
    <2>1. CASE "planned" \in seen[s]
      BY <1>1, <1>2, <1>5, <2>1, CaseUntouched
    <2>2. CASE "planned" \notin seen[s]
      <3>1. /\ "planned" \in TrackingStatus /\ "planned" \in Milestone
            /\ TRACKING_TO_SHIPMENT_STATUS["planned"] = "planned"
        BY DEF TrackingStatus, Milestone, TRACKING_TO_SHIPMENT_STATUS
      <3>2. Behind(TRACKING_TO_SHIPMENT_STATUS["planned"]) \ {"planned"} \subseteq seen[s]
        BY <1>6, <3>1
      <3> HIDE DEF s
      <3> QED
        BY <1>1, <1>2, <1>5, <2>2, <3>1, <3>2, RecordIsCaseStep
    <2> QED
      BY <2>1, <2>2
  <1> HIDE DEF s
  <1>8. Stands(row, seen'[s])
    BY <1>1, <1>3, <1>6, <1>7 DEF Stands
  <1>9. \A z \in Shipment : Stands(ship'[z], seen'[z])
    BY <1>4, <1>7, <1>8 DEF IInv, Stands
  <1>10. TypeOK'
    BY <1>1, <1>2, <1>3, <1>7, DoneIsSound DEF IInv, TypeOK
  <1>11. Sound(req'[r], seen') /\ \A q \in Request \ {r} : Sound(req'[q], seen)
    BY <1>2, DoneIsSound
  <1>12. IInv'
    BY <1>7, <1>9, <1>10, <1>11, OneRequest
  <1> QED
    BY <1>7, <1>12

LEMMA LeaveSound ==
    ASSUME IInv, NEW r \in Request, Leave(r) \/ Crash(r)
    PROVE  IInv' /\ CaseStep
  <1>1. UNCHANGED <<ship, carton, seen, last>> /\ Done(r)
    BY DEF Leave, Crash
  <1>2. carton' \in Boxes
    BY <1>1 DEF IInv, TypeOK, Boxes
  <1> QED
    BY <1>1, <1>2, DoneIsSound, CartonsOnly

(***************************************************************************)
(* Locks.                                                                  *)
(***************************************************************************)
\* A planning_ok event is validated on a copy that is not locked.
FirstEventOpen(x) ==
    x.pc \in {"valid", "recorded"} /\ x.event = "planning_ok" => x.copy.status \notin LOCKED
FirstEventsOpen == \A r \in Request : FirstEventOpen(req[r])

\* What LockLostToStaleCopiesOnly says of a step.
LockStep ==
    \A s \in Shipment :
        ship[s].status \in LOCKED /\ ship'[s].status \notin LOCKED =>
            \E r \in Request :
               /\ req[r].ship = s /\ req'[r] # req[r]
               /\ req[r].copy.status # ship[s].status \/ ResolveDispute(r)

\* A step saves one row, of the shipment of a request that moves on.
LEMMA RowLock ==
    ASSUME IInv, NEW r \in Request, NEW s \in Shipment, NEW row,
           ship' = [ship EXCEPT ![s] = row], req[r].ship = s, req'[r] # req[r],
           ship[s].status \in LOCKED /\ row.status \notin LOCKED =>
              req[r].copy.status # ship[s].status \/ ResolveDispute(r)
    PROVE  LockStep
  <1>1. /\ ship'[s] = row
        /\ \A t \in Shipment : t # s => ship'[t] = ship[t]
    BY DEF IInv, TypeOK
  <1> QED
    BY <1>1 DEF LockStep

\* A copy that is the row leaves a locked row as it is.
LEMMA SyncLock ==
    ASSUME NEW row, NEW copy, NEW new, copy.status = row.status, row.status \in LOCKED
    PROVE  Synced(row, copy, new).status \in LOCKED
  BY DEF Synced

LEMMA SyncRowLock ==
    ASSUME IInv, NEW r \in Request, NEW new, req[r].ship \in Shipment, req'[r] # req[r],
           ship' = [ship EXCEPT ![req[r].ship] = Synced(@, req[r].copy, new)]
    PROVE  LockStep
  <1>1. PICK s \in Shipment : s = req[r].ship
    OBVIOUS
  <1>2. PICK row : row = Synced(ship[s], req[r].copy, new)
    OBVIOUS
  <1>3. ship' = [ship EXCEPT ![s] = row]
    BY <1>1, <1>2
  <1>4. ship[s].status \in LOCKED /\ row.status \notin LOCKED =>
           req[r].copy.status # ship[s].status
    BY <1>2, SyncLock
  <1> QED
    BY <1>1, <1>3, <1>4, RowLock

\* A request that was not at rest moves on.
LEMMA DoneMoves ==
    ASSUME IInv, NEW r \in Request, Done(r), req[r].pc # "idle"
    PROVE  /\ req'[r] # req[r]
           /\ \A q \in Request : FirstEventOpen(req[q]) => FirstEventOpen(req'[q])
  <1>1. req'[r] = AtRest /\ \A q \in Request : q # r => req'[q] = req[q]
    BY DEF Done, IInv, TypeOK
  <1> QED
    BY <1>1 DEF AtRest, FirstEventOpen

LEMMA PcMoves ==
    ASSUME IInv, NEW r \in Request, NEW x, req' = [req EXCEPT ![r] = x], x.pc # req[r].pc,
           x.pc \notin {"valid", "recorded"}
    PROVE  /\ req'[r] # req[r]
           /\ \A q \in Request : FirstEventOpen(req[q]) => FirstEventOpen(req'[q])
  <1>1. req'[r] = x /\ \A q \in Request : q # r => req'[q] = req[q]
    BY DEF IInv, TypeOK
  <1> QED
    BY <1>1 DEF FirstEventOpen

\* Between two tracking events and their statuses, nothing of this changes.
OpenStep == \A q \in Request : FirstEventOpen(req[q]) => FirstEventOpen(req'[q])

LEMMA RowsKept ==
    ASSUME ship' = ship
    PROVE  LockStep
  BY DEF LockStep

LEMMA CommitAndSyncLock ==
    ASSUME IInv, NEW r \in Request, NEW boxes, CommitAndSync(r, boxes), Done(r),
           req[r].pc # "idle", req[r].ship \in Shipment
    PROVE  LockStep /\ OpenStep
  <1>1. req'[r] # req[r] /\ OpenStep
    BY DoneMoves DEF OpenStep
  <1>2. PICK new : new = Progress(boxes, req[r].ship)
    OBVIOUS
  <1>3. ship' = [ship EXCEPT ![req[r].ship] = Synced(@, req[r].copy, new)]
    BY <1>2 DEF CommitAndSync
  <1> QED
    BY <1>1, <1>3, SyncRowLock

LEMMA ShipmentStepLock ==
    ASSUME IInv, NEW r \in Request, ShipmentStep(r)
    PROVE  LockStep /\ OpenStep
  <1>0. /\ ship \in [Shipment -> Row] /\ req \in [Request -> RequestState]
        /\ req[r].pc \notin {"idle", "carton"} => req[r].ship \in Shipment
    BY DEF IInv, TypeOK, Sound
  <1>1. ASSUME NEW s \in Shipment, LoadShipment(r, s)
        PROVE  LockStep /\ OpenStep
    <2>1. PICK x : x = [AtRest EXCEPT !.pc = "shipment", !.ship = s, !.copy = ship[s]]
      OBVIOUS
    <2>2. req' = [req EXCEPT ![r] = x] /\ x.pc = "shipment" /\ req[r].pc = "idle"
      BY <1>1, <2>1 DEF LoadShipment, AtRest
    <2> QED
      BY <1>1, <2>2, PcMoves, RowsKept DEF LoadShipment, OpenStep
  <1>2. ASSUME NEW s \in Shipment, NEW add \in SUBSET Carton, NEW fresh \in SUBSET Carton,
               CreateShipment(r, s, add, fresh)
        PROVE  LockStep /\ OpenStep
    <2>1. PICK row : /\ ship' = [ship EXCEPT ![s] = row]
                     /\ req' = [req EXCEPT ![r] =
                                  [AtRest EXCEPT !.pc = "sync", !.ship = s, !.copy = row]]
      BY <1>2 DEF CreateShipment
    <2>2. PICK x : x = [AtRest EXCEPT !.pc = "sync", !.ship = s, !.copy = row]
      OBVIOUS
    <2>3. req' = [req EXCEPT ![r] = x] /\ x.pc = "sync" /\ req[r].pc = "idle"
      BY <1>2, <2>1, <2>2 DEF CreateShipment, AtRest
    <2>4. ship[s].status \notin LOCKED
      BY <1>2 DEF CreateShipment, Blank, LOCKED
    <2>5. LockStep
      BY <1>0, <2>1, <2>4 DEF LockStep
    <2> QED
      BY <2>3, <2>5, PcMoves DEF OpenStep
  <1>3. ASSUME NEW out \in SUBSET Carton, NEW add \in SUBSET Carton, NEW fresh \in SUBSET Carton,
               EditShipment(r, out, add, fresh)
        PROVE  LockStep /\ OpenStep
    <2>1. PICK new : /\ ship' = IF fresh = {} THEN ship
                                ELSE [ship EXCEPT ![req[r].ship] = Synced(@, req[r].copy, new)]
                     /\ req' = [req EXCEPT ![r].pc = "sync",
                                  ![r].copy = IF fresh = {} THEN @ ELSE Synced(@, @, new)]
      BY <1>3 DEF EditShipment
    <2>2. PICK x : x = [req[r] EXCEPT !.pc = "sync",
                           !.copy = IF fresh = {} THEN @ ELSE Synced(@, @, new)]
      OBVIOUS
    <2>3. x.pc = "sync" /\ req[r].pc = "shipment"
      BY <1>0, <1>3, <2>2 DEF EditShipment, RequestState
    <2>4. req' = [req EXCEPT ![r] = x]
      BY <2>1, <2>2
    <2>5. req'[r] # req[r] /\ OpenStep
      BY <2>3, <2>4, PcMoves DEF OpenStep
    <2>6. req[r].ship \in Shipment
      BY <1>0, <2>3
    <2> QED
      BY <2>1, <2>5, <2>6, RowsKept, SyncRowLock
  <1>4. ASSUME NEW add \in SUBSET Carton, NEW fresh \in SUBSET Carton, PrepareOrder(r, add, fresh)
        PROVE  LockStep /\ OpenStep
    BY <1>0, <1>4, CommitAndSyncLock DEF PrepareOrder
  <1>5. ASSUME NEW c \in Carton, NEW status, PackInto(r, c, status)
        PROVE  LockStep /\ OpenStep
    BY <1>0, <1>5, CommitAndSyncLock DEF PackInto
  <1>6. ASSUME SyncReadyState(r)
        PROVE  LockStep /\ OpenStep
    <2>1. req[r].pc = "sync" /\ Done(r)
      BY <1>6 DEF SyncReadyState
    <2>2. PICK new : new = Progress(carton, req[r].ship)
      OBVIOUS
    <2>3. ship' = [ship EXCEPT ![req[r].ship] = Synced(@, req[r].copy, new)]
      BY <1>6, <2>2 DEF SyncReadyState
    <2> QED
      BY <1>0, <2>1, <2>3, DoneMoves, SyncRowLock DEF OpenStep
  <1> QED
    BY <1>1, <1>2, <1>3, <1>4, <1>5, <1>6 DEF ShipmentStep

LEMMA CartonStepLock ==
    ASSUME IInv, NEW r \in Request, CartonStep(r)
    PROVE  LockStep /\ OpenStep
  <1>0. /\ ship \in [Shipment -> Row] /\ req \in [Request -> RequestState]
        /\ req[r].ship \in Shipment \cup {None}
    BY DEF IInv, TypeOK, RequestState
  <1>1. ASSUME NEW c \in Carton, LoadCarton(r, c)
        PROVE  LockStep /\ OpenStep
    <2>1. PICK x : /\ x.pc = "carton" /\ req' = [req EXCEPT ![r] = x]
      <3>1. PICK x : x = [AtRest EXCEPT !.pc = "carton", !.carton = c, !.held = carton[c].status,
                             !.ship = carton[c].shipment,
                             !.copy = IF carton[c].shipment = None THEN Blank
                                      ELSE ship[carton[c].shipment]]
        OBVIOUS
      <3>2. x.pc = "carton"
        BY <3>1 DEF AtRest
      <3>3. req' = [req EXCEPT ![r] = x]
        BY <1>1, <3>1 DEF LoadCarton
      <3> QED
        BY <3>2, <3>3
    <2> QED
      BY <1>1, <2>1, PcMoves, RowsKept DEF LoadCarton, OpenStep
  <1>2. ASSUME NEW status, UpdateCartonStatus(r, status)
        PROVE  LockStep /\ OpenStep
    BY <1>2, DoneMoves, RowsKept DEF UpdateCartonStatus, OpenStep
  <1>3. ASSUME NEW boxes, CommitThenSync(r, boxes), req[r].pc = "carton"
        PROVE  LockStep /\ OpenStep
    <2>1. PICK x : x = [req[r] EXCEPT !.pc = "sync"]
      OBVIOUS
    <2>2. x.pc = "sync" /\ req' = [req EXCEPT ![r] = x]
      BY <1>0, <1>3, <2>1 DEF CommitThenSync, RequestState
    <2> QED
      BY <1>3, <2>2, PcMoves, RowsKept DEF CommitThenSync, OpenStep
  <1>4. ASSUME DeleteCarton(r)
        PROVE  LockStep /\ OpenStep
    <2>1. PICK forgotten : forgotten = Forget(r, req[r].carton)
      OBVIOUS
    <2>2. /\ forgotten \in [Request -> RequestState]
          /\ \A q \in Request : FirstEventOpen(req[q]) => FirstEventOpen(forgotten[q])
      <3>1. \A q \in Request :
               /\ forgotten[q] \in RequestState
               /\ FirstEventOpen(req[q]) => FirstEventOpen(forgotten[q])
        <4> SUFFICES ASSUME NEW q \in Request
                     PROVE  /\ forgotten[q] \in RequestState
                            /\ FirstEventOpen(req[q]) => FirstEventOpen(forgotten[q])
          OBVIOUS
        <4>1. req[q] \in RequestState /\ AtRest \in RequestState
          BY <1>0, RestIsSound DEF Sound
        <4>2. CASE q = r \/ (req[q].pc = "carton" /\ req[q].carton = req[r].carton)
          BY <2>1, <4>1, <4>2 DEF Forget, AtRest, FirstEventOpen
        <4>3. CASE ~ (q = r \/ (req[q].pc = "carton" /\ req[q].carton = req[r].carton))
          <5>1. PICK todo \in SUBSET (Carton \cup {None}) :
                   forgotten[q] = [req[q] EXCEPT !.todo = todo]
            <6>1. req[q].todo \in SUBSET (Carton \cup {None})
              BY <4>1 DEF RequestState
            <6>2. PICK todo : todo = IF req[r].carton \in req[q].todo
                                     THEN (req[q].todo \ {req[r].carton}) \cup {None}
                                     ELSE req[q].todo
              OBVIOUS
            <6>3. forgotten[q] = [req[q] EXCEPT !.todo = todo]
              BY <2>1, <4>3, <6>2 DEF Forget
            <6> QED
              BY <6>1, <6>2, <6>3
          <5> QED
            BY <4>1, <5>1 DEF RequestState, FirstEventOpen
        <4> QED
          BY <4>2, <4>3
      <3>2. forgotten = [q \in Request |-> forgotten[q]]
        BY <2>1 DEF Forget
      <3> QED
        BY <3>1, <3>2
    <2>3. req[r].pc = "carton" /\ forgotten[r] = req[r]
      BY <1>4, <2>1 DEF DeleteCarton, Forget
    <2>4. CASE req[r].ship = None
      <3>1. ship' = ship /\ req' = [forgotten EXCEPT ![r] = AtRest]
        BY <1>4, <2>1, <2>4 DEF DeleteCarton
      <3>2. req'[r] = AtRest /\ \A q \in Request : q # r => req'[q] = forgotten[q]
        BY <2>2, <3>1
      <3>3. OpenStep
        BY <2>2, <3>2 DEF OpenStep, FirstEventOpen, AtRest
      <3> QED
        BY <3>1, <3>3, RowsKept
    <2>5. CASE req[r].ship # None
      <3>1. PICK new : /\ ship' = [ship EXCEPT ![req[r].ship] = Synced(@, req[r].copy, new)]
                       /\ req' = [forgotten EXCEPT ![r].pc = "sync",
                                                   ![r].copy = Synced(@, @, new)]
        BY <1>4, <2>1, <2>5 DEF DeleteCarton
      <3>2. PICK x : x = [req[r] EXCEPT !.pc = "sync", !.copy = Synced(@, @, new)]
        OBVIOUS
      <3>3. req' = [forgotten EXCEPT ![r] = x]
        BY <2>3, <3>1, <3>2
      <3>4. x.pc = "sync"
        BY <1>0, <3>2 DEF RequestState
      <3>5. req'[r] = x /\ \A q \in Request : q # r => req'[q] = forgotten[q]
        BY <2>2, <3>3
      <3>6. req'[r] # req[r] /\ OpenStep
        BY <2>2, <2>3, <3>4, <3>5 DEF OpenStep, FirstEventOpen
      <3> QED
        BY <1>0, <2>5, <3>1, <3>6, SyncRowLock
    <2> QED
      BY <2>4, <2>5
  <1>5. ASSUME UnpackCarton(r)
        PROVE  LockStep /\ OpenStep
    <2>1. CASE req[r].ship = None
      BY <1>5, <2>1, DoneMoves, RowsKept DEF UnpackCarton, OpenStep
    <2>2. CASE req[r].ship # None
      <3>1. req[r].pc = "carton" /\ Done(r) /\ \E boxes : CommitAndSync(r, boxes)
        BY <1>5, <2>2 DEF UnpackCarton
      <3> QED
        BY <1>0, <2>2, <3>1, CommitAndSyncLock
    <2> QED
      BY <2>1, <2>2
  <1>6. ASSUME RepackCarton(r)
        PROVE  LockStep /\ OpenStep
    BY <1>0, <1>6, CommitAndSyncLock DEF RepackCarton
  <1> QED
    BY <1>1, <1>2, <1>3, <1>4, <1>5, <1>6 DEF CartonStep, MarkCartonLabeled, MarkCartonAssigned

LEMMA TrackingStepLock ==
    ASSUME IInv, FirstEventsOpen, NEW r \in Request, TrackingStep(r)
    PROVE  LockStep /\ OpenStep
  <1>0. /\ ship \in [Shipment -> Row] /\ req \in [Request -> RequestState]
        /\ req[r].pc \notin {"idle", "carton"} => req[r].ship \in Shipment
        /\ req[r].pc \in {"valid", "recorded"} => req[r].event \in TrackingStatus
    BY DEF IInv, TypeOK, Sound
  <1>1. ASSUME NEW t \in TrackingStatus, ValidateTracking(r, t)
        PROVE  LockStep /\ OpenStep
    <2>1. t = "planning_ok" => req[r].copy.status \notin LOCKED
      BY <1>1 DEF ValidateTracking, Allowed, LOCKED
    <2>2. PICK x : x = [req[r] EXCEPT !.pc = "valid", !.event = t]
      OBVIOUS
    <2>3. x.event = t /\ x.copy = req[r].copy /\ req' = [req EXCEPT ![r] = x]
      BY <1>0, <1>1, <2>2 DEF ValidateTracking, RequestState
    <2>4. req'[r] = x /\ \A q \in Request : q # r => req'[q] = req[q]
      BY <1>0, <2>3
    <2> QED
      BY <1>1, <2>1, <2>3, <2>4, RowsKept DEF ValidateTracking, OpenStep, FirstEventOpen
  <1>2. ASSUME RecordTracking(r)
        PROVE  LockStep /\ OpenStep
    <2>1. CASE Done(r)
      BY <1>2, <2>1, DoneMoves, RowsKept DEF RecordTracking, OpenStep
    <2>2. CASE req' = [req EXCEPT ![r].pc = "recorded"]
      <3>1. /\ req'[r] = [req[r] EXCEPT !.pc = "recorded"]
            /\ \A q \in Request : q # r => req'[q] = req[q]
        BY <1>0, <2>2
      <3>2. req'[r].event = req[r].event /\ req'[r].copy = req[r].copy /\ req[r].pc = "valid"
        BY <1>0, <1>2, <3>1 DEF RecordTracking, RequestState
      <3> QED
        BY <1>2, <3>1, <3>2, RowsKept DEF RecordTracking, OpenStep, FirstEventOpen
    <2> QED
      BY <1>2, <2>1, <2>2 DEF RecordTracking
  <1>3. ASSUME SaveTrackedStatus(r)
        PROVE  LockStep /\ OpenStep
    <2>1. PICK s \in Shipment : s = req[r].ship
      BY <1>0, <1>3 DEF SaveTrackedStatus
    <2>2. PICK target : target = TRACKING_TO_SHIPMENT_STATUS[req[r].event]
      OBVIOUS
    <2>3. req[r].pc = "recorded" /\ req[r].event \in TrackingStatus
      BY <1>0, <1>3 DEF SaveTrackedStatus
    <2>4. target \notin LOCKED => req[r].event = "planning_ok"
      BY <2>2, <2>3 DEF TRACKING_TO_SHIPMENT_STATUS, TrackingStatus, LOCKED
    <2>5. PICK row : /\ row.status = target
                     /\ ship' = [ship EXCEPT ![s] = row]
      <3>1. PICK row : row = [ship[s] EXCEPT
                         !.status = target,
                         !.ready = IF target = "packed" /\ ~ req[r].copy.ready THEN TRUE ELSE @]
        OBVIOUS
      <3>2. ship' = [ship EXCEPT ![s] = row]
        BY <1>3, <2>1, <2>2, <3>1 DEF SaveTrackedStatus
      <3>3. row.status = target
        BY <1>0, <3>1 DEF Row
      <3> QED
        BY <3>2, <3>3
    <2>6. ship[s].status \in LOCKED /\ row.status \notin LOCKED =>
             req[r].copy.status # ship[s].status
      BY <2>3, <2>4, <2>5 DEF FirstEventsOpen, FirstEventOpen
    <2>7. req'[r] # req[r] /\ OpenStep
      <3>1. CASE target # "shipped"
        BY <1>3, <2>2, <2>3, <3>1, DoneMoves DEF SaveTrackedStatus, OpenStep
      <3>2. CASE target = "shipped"
        <4>1. PICK x : x = [req[r] EXCEPT !.pc = "ship",
                              !.todo = {c \in CartonsOf(carton, s) : carton[c].status # "shipped"}]
          OBVIOUS
        <4>2. x.pc = "ship"
          BY <1>0, <4>1 DEF RequestState
        <4>3. req' = [req EXCEPT ![r] = x]
          BY <1>3, <2>1, <2>2, <3>2, <4>1 DEF SaveTrackedStatus
        <4> QED
          BY <2>3, <4>2, <4>3, PcMoves DEF OpenStep
      <3> QED
        BY <3>1, <3>2
    <2> QED
      BY <2>1, <2>5, <2>6, <2>7, RowLock
  <1>4. ASSUME SetDisputed(r) \/ CloseShipment(r)
        PROVE  LockStep /\ OpenStep
    <2>1. req[r].pc = "shipment" /\ Done(r)
      BY <1>4 DEF SetDisputed, CloseShipment
    <2>2. \A s \in Shipment : ship'[s].status = ship[s].status
      BY <1>0, <1>4 DEF SetDisputed, CloseShipment, Row
    <2> QED
      BY <2>1, <2>2, DoneMoves DEF LockStep, OpenStep
  <1>5. ASSUME ResolveDispute(r)
        PROVE  LockStep /\ OpenStep
    <2>1. PICK s \in Shipment : s = req[r].ship
      BY <1>0, <1>5 DEF ResolveDispute
    <2>2. PICK row : ship' = [ship EXCEPT ![s] = row]
      BY <1>5, <2>1 DEF ResolveDispute
    <2>3. PICK x : x.pc = "relabel" /\ req' = [req EXCEPT ![r] = x]
      <3> DEFINE reset == req[r].copy.status \in LOCKED
                 Resolved(old) ==
                    [old EXCEPT !.disputed = IF req[r].copy.disputed THEN FALSE ELSE @,
                                !.status = IF reset THEN "packed" ELSE @,
                                !.ready = IF reset THEN (IF req[r].copy.ready THEN @ ELSE TRUE)
                                          ELSE @]
                 todo == IF req[r].copy.status \in MUTATION_BLOCKED
                         THEN {c \in CartonsOf(carton, req[r].ship) : carton[c].status = "shipped"}
                         ELSE {}
      <3>1. req' = [req EXCEPT ![r].pc = "relabel", ![r].copy = Resolved(@), ![r].todo = todo]
        BY <1>5 DEF ResolveDispute
      <3>2. PICK copy : copy = Resolved(req[r].copy)
        OBVIOUS
      <3>3. PICK x : x = [req[r] EXCEPT !.pc = "relabel", !.copy = copy, !.todo = todo]
        OBVIOUS
      <3>4. req' = [req EXCEPT ![r] = x]
        BY <3>1, <3>2, <3>3
      <3>5. x.pc = "relabel"
        BY <1>0, <3>3 DEF RequestState
      <3> QED
        BY <3>4, <3>5
    <2>4. req[r].pc = "shipment"
      BY <1>5 DEF ResolveDispute
    <2>5. req'[r] # req[r] /\ OpenStep
      BY <2>3, <2>4, PcMoves DEF OpenStep
    <2> QED
      BY <1>5, <2>1, <2>2, <2>5, RowLock
  <1>6. ASSUME NEW c \in Carton, ShipCarton(r, c) \/ RelabelCarton(r, c)
        PROVE  LockStep /\ OpenStep
    <2>1. PICK x : x = [req[r] EXCEPT !.todo = req[r].todo \ {c}]
      OBVIOUS
    <2>2. x.pc = req[r].pc /\ req[r].pc \notin {"valid", "recorded"}
      BY <1>0, <1>6, <2>1 DEF RequestState, ShipCarton, RelabelCarton
    <2>3. req' = [req EXCEPT ![r] = x] /\ ship' = ship
      BY <1>6, <2>1 DEF ShipCarton, RelabelCarton
    <2>4. req'[r] = x /\ \A q \in Request : q # r => req'[q] = req[q]
      BY <1>0, <2>3
    <2> QED
      BY <2>2, <2>3, <2>4, RowsKept DEF OpenStep, FirstEventOpen
  <1>7. ASSUME LoopDone(r)
        PROVE  LockStep /\ OpenStep
    <2>1. PICK x : x = IF req[r].pc = "ship" THEN AtRest ELSE [req[r] EXCEPT !.pc = "sync"]
      OBVIOUS
    <2>2. req' = [req EXCEPT ![r] = x] /\ ship' = ship /\ req[r].pc \in {"ship", "relabel"}
      BY <1>7, <2>1 DEF LoopDone
    <2>3. x.pc \in {"idle", "sync"}
      BY <1>0, <2>1 DEF AtRest, RequestState
    <2>4. x.pc # req[r].pc /\ x.pc \notin {"valid", "recorded"}
      BY <2>2, <2>3
    <2> QED
      BY <2>2, <2>4, PcMoves, RowsKept DEF OpenStep
  <1>8. ASSUME ApplyVersionUpdate(r)
        PROVE  LockStep /\ OpenStep
    <2>1. req[r].pc = "shipment" /\ Done(r)
      BY <1>8 DEF ApplyVersionUpdate
    <2>2. \A s \in Shipment : ship'[s].status = ship[s].status \/ ship'[s].status = "planned"
      BY <1>0, <1>8 DEF ApplyVersionUpdate, Row
    <2> QED
      BY <2>1, <2>2, DoneMoves DEF LockStep, OpenStep, LOCKED
  <1> QED
    BY <1>1, <1>2, <1>3, <1>4, <1>5, <1>6, <1>7, <1>8 DEF TrackingStep

LEMMA StepLock ==
    ASSUME IInv, FirstEventsOpen, [Next \/ \E r \in Request : Crash(r)]_vars
    PROVE  [LockStep]_vars /\ FirstEventsOpen'
  <1>1. ASSUME NEW r \in Request, Handle(r) \/ Crash(r)
        PROVE  LockStep /\ OpenStep
    <2>1. CASE Leave(r) \/ Crash(r)
      <3>1. /\ ship' = ship /\ req \in [Request -> RequestState]
            /\ req' = [req EXCEPT ![r] = AtRest]
        BY <2>1 DEF Leave, Crash, Done, IInv, TypeOK
      <3>2. \A q \in Request : req'[q] = AtRest \/ req'[q] = req[q]
        BY <3>1
      <3> QED
        BY <3>1, <3>2, RowsKept DEF OpenStep, FirstEventOpen, AtRest
    <2> QED
      BY <1>1, <2>1, ShipmentStepLock, CartonStepLock, TrackingStepLock DEF Handle
  <1>2. ASSUME NEW c \in Carton, PackUnassigned(c)
        PROVE  LockStep /\ OpenStep
    BY <1>2, RowsKept DEF PackUnassigned, OpenStep
  <1>3. CASE UNCHANGED vars
    BY <1>3 DEF vars, FirstEventsOpen, FirstEventOpen
  <1>4. CASE ~ UNCHANGED vars
    BY <1>1, <1>2, <1>4 DEF Next, OpenStep, FirstEventsOpen
  <1> QED
    BY <1>3, <1>4

(***************************************************************************)
(* The theorems.                                                           *)
(***************************************************************************)
LEMMA InitSound == Init => IInv /\ Case!Init
  <1> SUFFICES ASSUME Init PROVE IInv /\ Case!Init
    OBVIOUS
  <1>1. AtRest \in RequestState /\ \A sn : Sound(AtRest, sn)
    BY RestIsSound DEF Sound
  <1>2. Blank \in Row /\ Blank.status = "absent" /\ Blank.closed = FALSE
    BY DEF Blank, Row
  <1>3. Behind("absent") = {}
    BY DEF Behind
  <1>4. TypeOK
    BY <1>1, <1>2 DEF Init, TypeOK, CartonStatus
  <1>5. \A s \in Shipment : Stands(ship[s], seen[s])
    BY <1>2, <1>3 DEF Init, Stands
  <1>6. \A r \in Request : Sound(req[r], seen)
    BY <1>1 DEF Init
  <1>7. Case!Init
    BY <1>2 DEF Init, Case!Init
  <1> QED
    BY <1>4, <1>5, <1>6, <1>7 DEF IInv

LEMMA StepSound ==
    ASSUME IInv, [Next \/ \E r \in Request : Crash(r)]_vars
    PROVE  IInv' /\ CaseStep
  <1>1. ASSUME NEW r \in Request, ShipmentStep(r)
        PROVE  IInv' /\ CaseStep
    BY <1>1, LoadShipmentSound, CreateShipmentSound, EditShipmentSound, PrepareOrderSound,
       PackIntoSound, SyncSound DEF ShipmentStep
  <1>2. ASSUME NEW r \in Request, CartonStep(r)
        PROVE  IInv' /\ CaseStep
    BY <1>2, LoadCartonSound, UpdateCartonStatusSound, LabelSound, DeleteCartonSound,
       UnpackCartonSound, RepackCartonSound DEF CartonStep
  <1>3. ASSUME NEW r \in Request, TrackingStep(r)
        PROVE  IInv' /\ CaseStep
    BY <1>3, ValidateTrackingSound, RecordTrackingSound, SaveTrackedStatusSound,
       SetDisputedSound, ResolveDisputeSound, LoopSound, CloseShipmentSound,
       ApplyVersionUpdateSound DEF TrackingStep
  <1>4. ASSUME UNCHANGED vars
        PROVE  IInv' /\ CaseStep
    <2>1. IInv'
      BY <1>4 DEF vars, IInv, TypeOK, Sound, Stands
    <2> QED
      BY <1>4, <2>1, CaseUntouched DEF vars
  <1> QED
    BY <1>1, <1>2, <1>3, <1>4, LeaveSound, PackUnassignedSound DEF Next, Handle

\* The inductive invariant: in every state of overlapping and dying requests
\* the tables are typed and every row and loaded copy stands on its events.
THEOREM CopiesStand == CrashSpec => []IInv
  <1>1. Init => IInv
    BY InitSound
  <1>2. IInv /\ [Next \/ \E r \in Request : Crash(r)]_vars => IInv'
    BY StepSound
  <1> QED
    BY <1>1, <1>2, PTL DEF CrashSpec

\* The shipment, carton and event tables hold what their columns may hold,
\* whatever requests overlap or die.
THEOREM ShippingTypeCorrect == CrashSpec => []TypeOK
  <1>1. IInv => TypeOK
    BY DEF IInv
  <1> QED
    BY <1>1, CopiesStand, PTL

\* A status and a closed case have every tracking event they stand on: the
\* event is committed before the status, and a request that saves a status it
\* computed from an old copy saves one whose events exist.
THEOREM MilestonesStandBehind == CrashSpec => []MilestonesBehindStatus
  <1>1. Behind("delivered") = Milestone
    BY DEF Behind, Milestone
  <1>2. IInv => MilestonesBehindStatus
    BY <1>1 DEF IInv, MilestonesBehindStatus, Stands
  <1> QED
    BY <1>2, CopiesStand, PTL

\* The shipment handlers implement the case file: milestones are reached in
\* order and kept, and a case closes once it has them all.
THEOREM ShipmentsImplementCases == CrashSpec => CaseSpec
  <1>1. Init => Case!Init
    BY InitSound
  <1>2. IInv /\ [Next \/ \E r \in Request : Crash(r)]_vars => CaseStep
    BY StepSound
  <1> QED
    BY <1>1, <1>2, CopiesStand, PTL DEF CrashSpec, CaseSpec, Case!Spec, CaseStep

\* A planned or departed shipment goes back to preparation by resolve_dispute, or
\* when a request saves a copy that is older than the row: a request whose copy
\* is the row never takes the lock away.
THEOREM LocksLostToStaleCopies == CrashSpec => LockLostToStaleCopiesOnly
  <1>1. Init => FirstEventsOpen
    BY DEF Init, AtRest, FirstEventsOpen, FirstEventOpen
  <1>2. /\ IInv /\ FirstEventsOpen /\ [Next \/ \E r \in Request : Crash(r)]_vars
        => FirstEventsOpen'
    BY StepLock
  <1>3. IInv /\ FirstEventsOpen /\ [Next \/ \E r \in Request : Crash(r)]_vars => [LockStep]_vars
    BY StepLock
  <1> QED
    BY <1>1, <1>2, <1>3, CopiesStand, PTL DEF CrashSpec, LockLostToStaleCopiesOnly, LockStep

\* Requests that run one at a time and to their end are among those.
THEOREM SerialIsCrashFree == Spec => CrashSpec
  <1>1. [Next]_vars => [Next \/ \E r \in Request : Crash(r)]_vars
    OBVIOUS
  <1> QED
    BY <1>1, PTL DEF Spec, CrashSpec

-----------------------------------------------------------------------------
(***************************************************************************)
(* Requests that come one at a time: a shipment fits its cartons but while *)
(* the request that works on it is between two commits.                    *)
(***************************************************************************)
\* A shipment's row fits its cartons: its readiness is what they say, and they are
\* shipped when it has left.
Fits(row, boxes, s) ==
    /\ row.status \notin LOCKED \cup {"absent"} =>
          /\ row.status = Progress(boxes, s)
          /\ row.ready <=> row.status = "packed"
    /\ \A c \in CartonsOf(boxes, s) : boxes[c].status = "shipped" <=> row.status \in MUTATION_BLOCKED

\* Where each carton may be.
Placed(rows, boxes) ==
    \A c \in Carton :
        /\ boxes[c].status = "absent" => boxes[c].shipment = None
        /\ boxes[c].status = "shipped" => boxes[c].shipment # None
        /\ boxes[c].shipment # None => rows[boxes[c].shipment].status # "absent"

\* The steps of a request between two commits.
Busy == {"ship", "relabel", "sync"}

\* What the only request knows: its copy is the row, and what it has begun is half done.
Knows(x, rows, boxes) ==
    /\ None \notin x.todo
    /\ x.pc \notin {"idle", "carton", "ship"} => x.copy = rows[x.ship]
    /\ x.pc \notin {"idle", "carton"} => rows[x.ship].status # "absent"
    /\ x.pc = "carton" =>
          /\ x.carton \in Carton /\ boxes[x.carton].status # "absent"
          /\ boxes[x.carton].shipment = x.ship
          /\ x.ship # None => x.copy = rows[x.ship] /\ x.held = boxes[x.carton].status
    /\ x.pc \in {"valid", "recorded"} =>
          LET target == TRACKING_TO_SHIPMENT_STATUS[x.event]
          IN  /\ target = "packed" => Progress(boxes, x.ship) = "packed"
              /\ target \in {"packed", "planned", "shipped"} => x.copy.status \notin MUTATION_BLOCKED
              /\ target \in {"received_correspondent", "delivered"} => x.copy.status \in MUTATION_BLOCKED
    /\ x.pc = "ship" =>
          /\ rows[x.ship].status = "shipped"
          /\ x.todo = {c \in CartonsOf(boxes, x.ship) : boxes[c].status # "shipped"}
    /\ x.pc \in {"relabel", "sync"} => rows[x.ship].status \notin MUTATION_BLOCKED
    /\ x.pc = "relabel" =>
          x.todo = {c \in CartonsOf(boxes, x.ship) : boxes[c].status = "shipped"}
    /\ x.pc = "sync" => \A c \in CartonsOf(boxes, x.ship) : boxes[c].status # "shipped"

SerialInv ==
    /\ IInv
    /\ Placed(ship, carton)
    /\ \A s \in Shipment :
          \/ Fits(ship[s], carton, s)
          \/ \E r \in Request : req[r].ship = s /\ req[r].pc \in Busy
    /\ \A r \in Request : Knows(req[r], ship, carton)

Alone == \A q, r \in Request : q = r

LEMMA SerialImplied == SerialInv => ReadinessMatchesCartons /\ ShippedTogether
  <1> SUFFICES ASSUME SerialInv, Settled PROVE ReadinessMatchesCartons /\ ShippedTogether
    BY DEF ReadinessMatchesCartons, ShippedTogether
  <1>1. \A s \in Shipment : Fits(ship[s], carton, s)
    BY DEF SerialInv, Settled, Busy
  <1>2. carton \in Boxes
    BY DEF SerialInv, IInv, TypeOK, Boxes
  <1>3. ASSUME NEW c \in Carton
        PROVE  carton[c].status = "shipped" <=>
                  /\ carton[c].shipment # None
                  /\ ship[carton[c].shipment].status \in MUTATION_BLOCKED
    <2>1. CASE carton[c].shipment = None
      BY <2>1 DEF SerialInv, Placed
    <2>2. CASE carton[c].shipment # None
      <3>1. carton[c].shipment \in Shipment /\ c \in CartonsOf(carton, carton[c].shipment)
        BY <1>2, <2>2 DEF Boxes, CartonsOf
      <3> QED
        BY <1>1, <2>2, <3>1 DEF Fits
    <2> QED
      BY <2>1, <2>2
  <1> QED
    BY <1>1, <1>3 DEF Fits, ReadinessMatchesCartons, ShippedTogether

(***************************************************************************)
(* What the operators of shipment_status.py say of the cartons.            *)
(***************************************************************************)
\* The cartons of a shipment that no step touches say what they said.
LEMMA SameCartons ==
    ASSUME NEW boxes, NEW after, NEW s,
           \A c \in Carton : \/ after[c] = boxes[c]
                             \/ boxes[c].shipment # s /\ after[c].shipment # s
    PROVE  /\ CartonsOf(after, s) = CartonsOf(boxes, s)
           /\ \A c \in CartonsOf(boxes, s) : after[c] = boxes[c]
           /\ Progress(after, s) = Progress(boxes, s)
           /\ \A row : Fits(row, after, s) <=> Fits(row, boxes, s)
  <1>1. CartonsOf(after, s) = CartonsOf(boxes, s)
    BY DEF CartonsOf
  <1>2. \A c \in CartonsOf(boxes, s) : after[c] = boxes[c]
    BY DEF CartonsOf
  <1>3. Progress(after, s) = Progress(boxes, s)
    BY <1>1, <1>2 DEF Progress
  <1> QED
    BY <1>1, <1>2, <1>3 DEF Fits

\* A row synchronized from a copy that is the row fits its cartons.
LEMMA SyncedFits ==
    ASSUME NEW row \in Row, NEW boxes, NEW s, row.status # "absent",
           row.status \notin MUTATION_BLOCKED,
           \A c \in CartonsOf(boxes, s) : boxes[c].status # "shipped"
    PROVE  LET new == Synced(row, row, Progress(boxes, s))
           IN  /\ Fits(new, boxes, s) /\ new \in Row
               /\ new.status # "absent" /\ new.status \notin MUTATION_BLOCKED
  <1> DEFINE p == Progress(boxes, s)
             new == Synced(row, row, p)
  <1>1. p \in {"draft", "picking", "packed"}
    BY ProgressStands
  <1>2. CASE row.status \in LOCKED
    BY <1>2 DEF Synced, Fits
  <1>3. CASE row.status \notin LOCKED
    <2> HIDE DEF p
    <2>1. new = [row EXCEPT
            !.status = IF row.status # p THEN p ELSE @,
            !.ready = IF p = "packed" /\ ~(row.status = "packed" /\ row.ready) THEN TRUE
                      ELSE IF p # "packed" /\ row.ready THEN FALSE ELSE @]
      BY <1>3 DEF Synced
    <2>2. new.status = p /\ (new.ready <=> p = "packed") /\ new \in Row
      BY <1>1, <2>1 DEF Row, ShipmentStatus
    <2> HIDE DEF new
    <2>3. Fits(new, boxes, s)
      BY <1>1, <2>2 DEF Fits, p, MUTATION_BLOCKED
    <2> QED
      BY <1>1, <2>2, <2>3 DEF MUTATION_BLOCKED, p, new
  <1> QED
    BY <1>2, <1>3

(***************************************************************************)
(* A step of the only request: it works on one shipment, on cartons that   *)
(* are in it or nowhere.                                                   *)
(***************************************************************************)
\* The cartons that change are in shipment s or nowhere, before and after.
Within(boxes, s) ==
    \A c \in Carton :
        \/ boxes[c] = carton[c]
        \/ /\ carton[c].shipment \in {None, s} /\ boxes[c].shipment \in {None, s}
           /\ boxes[c].status = "absent" => boxes[c].shipment = None
           /\ boxes[c].status = "shipped" => boxes[c].shipment # None

LEMMA OneShipment ==
    ASSUME Alone, SerialInv, IInv', NEW r \in Request, NEW s \in Shipment, NEW row, NEW boxes,
           req[r].pc \in Busy => req[r].ship = s,
           ship' = [ship EXCEPT ![s] = row], row.status # "absent",
           carton' = boxes,
           Within(boxes, s),
           \/ Fits(row, boxes, s)
           \/ req'[r].ship = s /\ req'[r].pc \in Busy,
           Knows(req'[r], ship', boxes)
    PROVE  SerialInv'
  <1>1. ship \in [Shipment -> Row] /\ \A t \in Shipment : ship'[t] = IF t = s THEN row ELSE ship[t]
    BY DEF SerialInv, IInv, TypeOK
  <1>2. None \notin Shipment
    BY NoneIsNobody
  <1>3. carton \in Boxes /\ carton' \in Boxes
    BY DEF SerialInv, IInv, TypeOK, Boxes
  <1>4. Placed(ship', boxes)
    BY <1>1, <1>2, <1>3 DEF SerialInv, Placed, Boxes, Within
  <1>5. ASSUME NEW t \in Shipment, t # s
        PROVE  \/ Fits(ship'[t], boxes, t)
               \/ \E q \in Request : req'[q].ship = t /\ req'[q].pc \in Busy
    <2>1. \A c \in Carton : \/ boxes[c] = carton[c]
                            \/ carton[c].shipment # t /\ boxes[c].shipment # t
      BY <1>2, <1>5 DEF Within
    <2>2. Fits(ship[t], carton, t)
      BY <1>5 DEF SerialInv, Alone
    <2>3. Fits(ship[t], boxes, t) <=> Fits(ship[t], carton, t)
      BY <2>1, SameCartons
    <2> QED
      BY <1>1, <1>5, <2>2, <2>3
  <1>6. \A t \in Shipment : \/ Fits(ship'[t], boxes, t)
                            \/ \E q \in Request : req'[q].ship = t /\ req'[q].pc \in Busy
    BY <1>1, <1>5
  <1>7. \A q \in Request : Knows(req'[q], ship', boxes)
    BY DEF Alone
  <1> QED
    BY ZenonT(30), <1>4, <1>6, <1>7 DEF SerialInv

\* A step that only reads.
LEMMA OnlyReads ==
    ASSUME Alone, SerialInv, IInv', NEW r \in Request,
           req[r].pc \notin Busy, ship' = ship, carton' = carton,
           Knows(req'[r], ship, carton)
    PROVE  SerialInv'
  <1>1. \A q \in Request : Knows(req'[q], ship, carton)
    BY DEF Alone
  <1>2. \A s \in Shipment : Fits(ship[s], carton, s)
    BY DEF SerialInv, Alone
  <1> QED
    BY <1>1, <1>2 DEF SerialInv

\* A step that moves cartons that are in no shipment, and leaves them there.
LEMMA OutsideShipments ==
    ASSUME Alone, SerialInv, IInv', ship' = ship,
           \A c \in Carton : \/ carton'[c] = carton[c]
                             \/ /\ carton[c].shipment = None /\ carton'[c].shipment = None
                                /\ carton'[c].status # "shipped",
           \A r \in Request : \/ Knows(req'[r], ship, carton')
                              \/ req'[r].pc # "carton" /\ Knows(req'[r], ship, carton),
           \A r \in Request : req'[r].pc \in Busy \/ req[r].pc \in Busy => req'[r] = req[r]
    PROVE  SerialInv'
  <1> DEFINE after == carton'
  <1>1. \A r \in Request : Knows(req'[r], ship, after)
    <2> SUFFICES ASSUME NEW r \in Request, req'[r].pc # "carton", Knows(req'[r], ship, carton)
                 PROVE  Knows(req'[r], ship, after)
      OBVIOUS
    <2> DEFINE x == req'[r]
               s == x.ship
    <2>1. CASE x.pc = "idle"
      BY <2>1 DEF Knows
    <2>2. CASE x.pc # "idle"
      <3>1. Sound(x, seen')
        BY DEF IInv
      <3>2. s \in Shipment /\ s # None
        BY <2>2, <3>1, NoneIsNobody DEF Sound
      <3> HIDE DEF after, s, x
      <3>3. \A c \in Carton : after[c] = carton[c] \/ (carton[c].shipment # s /\ after[c].shipment # s)
        BY <3>2 DEF after
      <3>4. /\ CartonsOf(after, s) = CartonsOf(carton, s)
            /\ \A c \in CartonsOf(carton, s) : after[c] = carton[c]
            /\ Progress(after, s) = Progress(carton, s)
        BY <3>3, SameCartons
      <3>5. /\ {c \in CartonsOf(after, s) : after[c].status # "shipped"}
                  = {c \in CartonsOf(carton, s) : carton[c].status # "shipped"}
            /\ {c \in CartonsOf(after, s) : after[c].status = "shipped"}
                  = {c \in CartonsOf(carton, s) : carton[c].status = "shipped"}
        BY <3>4
      <3>6. Knows(x, ship, carton) /\ x.pc # "carton"
        BY DEF x
      <3> QED
        BY <3>4, <3>5, <3>6 DEF Knows, s, x
    <2> QED
      BY <2>1, <2>2
  <1>2. ASSUME NEW s \in Shipment
        PROVE  \/ Fits(ship[s], after, s)
               \/ \E r \in Request : req'[r].ship = s /\ req'[r].pc \in Busy
    <2>1. s # None
      BY NoneIsNobody
    <2> HIDE DEF after
    <2>2. \A c \in Carton : after[c] = carton[c] \/ (carton[c].shipment # s /\ after[c].shipment # s)
      BY <2>1 DEF after
    <2>3. Fits(ship[s], after, s) <=> Fits(ship[s], carton, s)
      BY <2>2, SameCartons
    <2> QED
      BY <2>3 DEF SerialInv
  <1>3. Placed(ship, after)
    BY DEF SerialInv, Placed
  <1> QED
    BY <1>1, <1>2, <1>3 DEF SerialInv

LEMMA RestKnows ==
    ASSUME NEW rows, NEW boxes
    PROVE  Knows(AtRest, rows, boxes)
  BY DEF Knows, AtRest

LEMMA RequestFacts ==
    ASSUME SerialInv, NEW r \in Request
    PROVE  /\ req[r] \in RequestState /\ req[r].todo \subseteq Carton
           /\ Knows(req[r], ship, carton)
           /\ req[r].pc \notin {"idle", "carton"} => req[r].ship \in Shipment
           /\ req[r].ship # None => req[r].ship \in Shipment
  <1>1. req[r] \in RequestState /\ Sound(req[r], seen) /\ Knows(req[r], ship, carton)
    BY DEF SerialInv, IInv, TypeOK
  <1>2. None \notin req[r].todo
    BY <1>1 DEF Knows
  <1> QED
    BY <1>1, <1>2 DEF Sound, RequestState

\* When the only request is not between two commits every shipment fits its cartons.
LEMMA AllFit ==
    ASSUME Alone, SerialInv, NEW r \in Request, req[r].pc \notin Busy
    PROVE  \A s \in Shipment : Fits(ship[s], carton, s)
  BY DEF Alone, SerialInv

LEMMA LoadsFit ==
    ASSUME Alone, SerialInv, IInv', NEW r \in Request,
           (\E s \in Shipment : LoadShipment(r, s)) \/ (\E c \in Carton : LoadCarton(r, c))
    PROVE  SerialInv'
  <1>1. req \in [Request -> RequestState] /\ carton \in Boxes
    BY DEF SerialInv, IInv, TypeOK, Boxes
  <1>2. ASSUME NEW s \in Shipment, LoadShipment(r, s) PROVE SerialInv'
    <2>1. /\ req'[r] = [AtRest EXCEPT !.pc = "shipment", !.ship = s, !.copy = ship[s]]
          /\ ship' = ship /\ carton' = carton /\ req[r].pc = "idle" /\ ship[s].status # "absent"
      BY <1>1, <1>2 DEF LoadShipment
    <2>2. Knows(req'[r], ship, carton)
      BY <2>1 DEF Knows, AtRest
    <2> QED
      BY <2>1, <2>2, OnlyReads DEF Busy
  <1>3. ASSUME NEW c \in Carton, LoadCarton(r, c) PROVE SerialInv'
    <2> DEFINE s == carton[c].shipment
               copy == IF s = None THEN Blank ELSE ship[s]
    <2>1. /\ req'[r] = [AtRest EXCEPT !.pc = "carton", !.carton = c, !.held = carton[c].status,
                                      !.ship = s, !.copy = copy]
          /\ ship' = ship /\ carton' = carton /\ req[r].pc = "idle" /\ carton[c].status # "absent"
      BY <1>1, <1>3 DEF LoadCarton
    <2>2. /\ req'[r].pc = "carton" /\ req'[r].carton = c /\ req'[r].held = carton[c].status
          /\ req'[r].ship = s /\ req'[r].copy = copy /\ req'[r].todo = {}
      BY <2>1 DEF AtRest
    <2>3. Knows(req'[r], ship, carton)
      BY <2>1, <2>2 DEF Knows
    <2> QED
      BY <2>1, <2>3, OnlyReads DEF Busy
  <1> QED
    BY <1>2, <1>3

\* A shipment that is ready for the planning, and fits, is packed.
LEMMA ReadyIsPacked ==
    ASSUME NEW s, ReadyForPlanning(s)
    PROVE  Progress(carton, s) = "packed"
  BY DEF ReadyForPlanning, Progress

LEMMA AllowedFrom ==
    ASSUME NEW t \in TrackingStatus, NEW status, NEW latest, t \in Allowed(status, latest)
    PROVE  LET target == TRACKING_TO_SHIPMENT_STATUS[t]
           IN  /\ target = "packed" => t = "planning_ok"
               /\ target \in {"packed", "planned", "shipped"} => status \notin MUTATION_BLOCKED
               /\ target \in {"received_correspondent", "delivered"} => status \in MUTATION_BLOCKED
  BY DEF TrackingStatus, Allowed, TRACKING_TO_SHIPMENT_STATUS, MUTATION_BLOCKED

LEMMA ValidateTrackingFits ==
    ASSUME Alone, SerialInv, IInv', NEW r \in Request, NEW t \in TrackingStatus,
           ValidateTracking(r, t)
    PROVE  SerialInv'
  <1> DEFINE old == req[r]
             target == TRACKING_TO_SHIPMENT_STATUS[t]
  <1>1. /\ old \in RequestState /\ Knows(old, ship, carton) /\ old.ship \in Shipment
        /\ old.pc = "shipment"
    BY RequestFacts DEF ValidateTracking
  <1>2. /\ req'[r] = [old EXCEPT !.pc = "valid", !.event = t]
        /\ ship' = ship /\ carton' = carton
    BY DEF ValidateTracking, SerialInv, IInv, TypeOK
  <1>3. /\ target = "packed" => t = "planning_ok"
        /\ target \in {"packed", "planned", "shipped"} => old.copy.status \notin MUTATION_BLOCKED
        /\ target \in {"received_correspondent", "delivered"} => old.copy.status \in MUTATION_BLOCKED
    BY AllowedFrom DEF ValidateTracking
  <1>4. target = "packed" => Progress(carton, old.ship) = "packed"
    BY <1>3, ReadyIsPacked DEF ValidateTracking
  <1>5. /\ req'[r].pc = "valid" /\ req'[r].event = t /\ req'[r].ship = old.ship
        /\ req'[r].copy = old.copy /\ req'[r].todo = old.todo
    BY <1>1, <1>2 DEF RequestState
  <1>6. /\ None \notin old.todo /\ old.copy = ship[old.ship] /\ ship[old.ship].status # "absent"
    BY <1>1 DEF Knows
  <1> HIDE DEF old, target
  <1>7. Knows(req'[r], ship, carton)
    BY <1>3, <1>4, <1>5, <1>6 DEF Knows, target
  <1> QED
    BY <1>1, <1>2, <1>7, OnlyReads DEF Busy, old

LEMMA RecordTrackingFits ==
    ASSUME Alone, SerialInv, IInv', NEW r \in Request, RecordTracking(r)
    PROVE  SerialInv'
  <1> DEFINE old == req[r]
  <1>1. /\ old \in RequestState /\ Knows(old, ship, carton) /\ old.ship \in Shipment
        /\ old.pc = "valid" /\ ship' = ship /\ carton' = carton
    BY RequestFacts DEF RecordTracking
  <1>2. req'[r] = AtRest \/ req'[r] = [old EXCEPT !.pc = "recorded"]
    BY DEF RecordTracking, Done, SerialInv, IInv, TypeOK
  <1>3. Knows([old EXCEPT !.pc = "recorded"], ship, carton)
    BY <1>1 DEF Knows, RequestState
  <1> HIDE DEF old
  <1> QED
    BY <1>1, <1>2, <1>3, RestKnows, OnlyReads DEF Busy, old

LEMMA LeaveFits ==
    ASSUME Alone, SerialInv, IInv', NEW r \in Request, Leave(r)
    PROVE  SerialInv'
  <1>1. req[r].pc \in {"shipment", "carton", "valid"} /\ ship' = ship /\ carton' = carton
    BY RequestFacts, NoneIsNobody DEF Leave
  <1>2. req'[r] = AtRest
    BY DEF Leave, Done, SerialInv, IInv, TypeOK
  <1> QED
    BY <1>1, <1>2, RestKnows, OnlyReads DEF Busy

LEMMA PackUnassignedFits ==
    ASSUME Alone, SerialInv, IInv', NEW d \in Carton, PackUnassigned(d)
    PROVE  SerialInv'
  <1>1. /\ carton \in Boxes /\ carton[d].shipment = None /\ carton[d].status \in {"absent", "draft"}
        /\ carton' = [carton EXCEPT ![d].status = "packed"] /\ ship' = ship /\ req' = req
    BY DEF PackUnassigned, SerialInv, IInv, TypeOK, Boxes
  <1>2. /\ carton'[d].status = "packed" /\ carton'[d].shipment = None
        /\ \A c \in Carton \ {d} : carton'[c] = carton[c]
    BY <1>1 DEF Boxes
  <1>3. ASSUME NEW r \in Request
        PROVE  \/ Knows(req'[r], ship, carton')
               \/ req'[r].pc # "carton" /\ Knows(req'[r], ship, carton)
    <2>1. Knows(req[r], ship, carton)
      BY RequestFacts
    <2>2. CASE req[r].pc = "carton"
      <3>1. Knows(req[r], ship, carton')
        BY <1>2, <2>1, <2>2, <1>1 DEF Knows
      <3> QED
        BY <1>1, <3>1
    <2> QED
      BY <1>1, <2>1, <2>2
  <1> QED
    BY <1>1, <1>2, <1>3, OutsideShipments

(***************************************************************************)
(* The requests that move cartons.                                         *)
(***************************************************************************)
\* Cartons move between shipment s and nowhere, and none is shipped by it.
Moves(boxes, s) ==
    \A c \in Carton :
        \/ boxes[c] = carton[c]
        \/ /\ carton[c].shipment \in {None, s} /\ boxes[c].shipment \in {None, s}
           /\ boxes[c].status = "absent" => boxes[c].shipment = None
           /\ boxes[c].status # "shipped"

LEMMA MovesWithin ==
    ASSUME NEW boxes, NEW s \in Shipment, Moves(boxes, s)
    PROVE  Within(boxes, s)
  BY DEF Moves, Within

LEMMA NoneShipped ==
    ASSUME NEW boxes, NEW s, Fits(ship[s], carton, s), ship[s].status \notin MUTATION_BLOCKED,
           Moves(boxes, s)
    PROVE  \A c \in CartonsOf(boxes, s) : boxes[c].status # "shipped"
  BY DEF Moves, Fits, CartonsOf

LEMMA PutMoves ==
    ASSUME NEW set, NEW s, NEW status, status \notin {"absent", "shipped"},
           \A c \in set \cap Carton : carton[c].shipment \in {None, s}
    PROVE  Moves(Put(carton, set, s, status), s)
  BY DEF Put, Moves

\* Cartons that are ready, or new, are in no shipment.
LEMMA ReadyNowhere ==
    ASSUME SerialInv, NEW add, NEW fresh, add \subseteq Ready, fresh \subseteq Fresh
    PROVE  \A c \in add \cup fresh : c \in Carton /\ carton[c].shipment = None
  BY DEF SerialInv, Placed, Ready, Fresh

\* A commit that synchronizes the shipment the request loaded.
LEMMA CommitFits ==
    ASSUME Alone, SerialInv, IInv', NEW r \in Request, NEW boxes,
           req[r].pc \in {"shipment", "carton"}, req[r].ship # None,
           req[r].copy.status \notin MUTATION_BLOCKED, Moves(boxes, req[r].ship),
           CommitAndSync(r, boxes), Done(r)
    PROVE  SerialInv'
  <1> DEFINE s == req[r].ship
             row == Synced(ship[s], ship[s], Progress(boxes, s))
  <1>1. s \in Shipment /\ Knows(req[r], ship, carton)
    BY RequestFacts
  <1>2. req[r].copy = ship[s] /\ ship[s].status # "absent"
    <2>1. CASE req[r].pc = "shipment"
      BY <1>1, <2>1 DEF Knows
    <2>2. CASE req[r].pc = "carton"
      <3>1. req[r].carton \in Carton /\ carton[req[r].carton].shipment = s /\ req[r].copy = ship[s]
        BY <1>1, <2>2 DEF Knows
      <3> QED
        BY <3>1 DEF SerialInv, Placed
    <2> QED
      BY <2>1, <2>2
  <1>3. ship' = [ship EXCEPT ![s] = row] /\ carton' = boxes /\ req'[r] = AtRest
    BY <1>2 DEF CommitAndSync, Done, SerialInv, IInv, TypeOK
  <1>4. Fits(ship[s], carton, s) /\ ship[s] \in Row
    BY <1>1, AllFit DEF Busy, SerialInv, IInv, TypeOK
  <1> HIDE DEF s
  <1>5. \A c \in CartonsOf(boxes, s) : boxes[c].status # "shipped"
    BY <1>2, <1>4, NoneShipped DEF s
  <1>6. Fits(row, boxes, s) /\ row.status # "absent"
    BY <1>2, <1>4, <1>5, SyncedFits DEF s
  <1> HIDE DEF row
  <1>7. Moves(boxes, s)
    BY DEF s
  <1>8. Within(boxes, s)
    BY <1>1, <1>7, MovesWithin
  <1>9. Knows(req'[r], ship', boxes)
    BY <1>3, RestKnows
  <1>10. req[r].pc \notin Busy
    BY DEF Busy
  <1> QED
    BY <1>1, <1>3, <1>6, <1>8, <1>9, <1>10, OneShipment

\* A commit after which the request synchronizes in another.
LEMMA ToSyncFits ==
    ASSUME Alone, SerialInv, IInv', NEW r \in Request, NEW s \in Shipment, NEW row, NEW boxes,
           req[r].pc \notin Busy, ship[s].status \notin MUTATION_BLOCKED,
           row.status \notin MUTATION_BLOCKED, row.status # "absent",
           ship' = [ship EXCEPT ![s] = row], carton' = boxes, Moves(boxes, s),
           req'[r].pc = "sync", req'[r].ship = s, req'[r].copy = row, req'[r].todo \subseteq Carton
    PROVE  SerialInv'
  <1>1. Fits(ship[s], carton, s) /\ ship'[s] = row
    BY AllFit DEF SerialInv, IInv, TypeOK
  <1>2. \A c \in CartonsOf(boxes, s) : boxes[c].status # "shipped"
    BY <1>1, NoneShipped
  <1>3. Knows(req'[r], ship', boxes)
    BY <1>1, <1>2, NoneIsNobody DEF Knows
  <1>4. Within(boxes, s)
    BY MovesWithin
  <1>5. req'[r].pc \in Busy
    BY DEF Busy
  <1> QED
    BY <1>3, <1>4, <1>5, OneShipment

LEMMA CreateShipmentFits ==
    ASSUME Alone, SerialInv, IInv', NEW r \in Request, NEW s \in Shipment, NEW add, NEW fresh,
           CreateShipment(r, s, add, fresh)
    PROVE  SerialInv'
  <1> DEFINE boxes == Put(carton, add \cup fresh, s, "assigned")
             new == [Blank EXCEPT !.status = "draft"]
             row == IF fresh = {} THEN new ELSE Synced(new, new, Progress(boxes, s))
  <1>1. new \in Row /\ new.status = "draft"
    BY DEF Blank, Row, ShipmentStatus
  <1>2. /\ ship[s] = Blank /\ req[r].pc = "idle"
        /\ ship' = [ship EXCEPT ![s] = row] /\ carton' = boxes
        /\ req'[r] = [AtRest EXCEPT !.pc = "sync", !.ship = s, !.copy = row]
    BY DEF CreateShipment, SerialInv, IInv, TypeOK
  <1>3. Moves(boxes, s)
    <2>1. \A c \in (add \cup fresh) \cap Carton : carton[c].shipment \in {None, s}
      BY ReadyNowhere DEF CreateShipment
    <2> QED
      BY <2>1, PutMoves
  <1>4. ship[s].status \notin MUTATION_BLOCKED /\ Fits(ship[s], carton, s) /\ req[r].pc \notin Busy
    BY <1>2, AllFit DEF Blank, MUTATION_BLOCKED, Busy
  <1> HIDE DEF new, boxes
  <1>5. \A c \in CartonsOf(boxes, s) : boxes[c].status # "shipped"
    BY <1>3, <1>4, NoneShipped
  <1>6. row.status \notin MUTATION_BLOCKED /\ row.status # "absent"
    BY <1>1, <1>5, SyncedFits DEF MUTATION_BLOCKED
  <1>7. /\ req'[r].pc = "sync" /\ req'[r].ship = s /\ req'[r].copy = row
        /\ req'[r].todo \subseteq Carton
    BY <1>2 DEF AtRest
  <1> HIDE DEF row
  <1> QED
    BY <1>2, <1>3, <1>4, <1>6, <1>7, ToSyncFits

LEMMA EditShipmentFits ==
    ASSUME Alone, SerialInv, IInv', NEW r \in Request, NEW out, NEW add, NEW fresh,
           EditShipment(r, out, add, fresh)
    PROVE  SerialInv'
  <1> DEFINE old == req[r]
             s == old.ship
             emptied == [c \in Carton |->
                IF c \in out
                THEN [status |-> IF carton[c].status \in {"assigned", "labeled"} THEN "packed"
                                 ELSE carton[c].status,
                      shipment |-> None]
                ELSE IF carton[c].shipment = s /\ carton[c].status = "packed"
                THEN [carton[c] EXCEPT !.status = "assigned"] ELSE carton[c]]
             boxes == Put(emptied, add \cup fresh, s, "assigned")
             new == Progress(boxes, s)
             row == IF fresh = {} THEN ship[s] ELSE Synced(ship[s], ship[s], new)
  <1>1. /\ old \in RequestState /\ old.todo \subseteq Carton /\ s \in Shipment
        /\ old.copy = ship[s] /\ ship[s].status # "absent" /\ old.pc = "shipment"
        /\ ship \in [Shipment -> Row] /\ carton \in Boxes
    BY RequestFacts DEF EditShipment, Knows, SerialInv, IInv, TypeOK, Boxes
  <1>2. ship[s].status \notin MUTATION_BLOCKED
    BY <1>1 DEF EditShipment, LOCKED, MUTATION_BLOCKED
  <1>3. /\ \A c \in out : carton[c].shipment = s /\ carton[c].status # "shipped"
        /\ add \subseteq Ready /\ fresh \subseteq Fresh
    BY DEF EditShipment, CartonsOf
  <1>4. carton' = boxes
    BY DEF EditShipment
  <1>5. ship' = [ship EXCEPT ![s] = row]
    BY <1>1 DEF EditShipment
  <1>6. req' = [req EXCEPT ![r] = [old EXCEPT !.pc = "sync", !.copy = row]]
    BY <1>1 DEF EditShipment, SerialInv, IInv, TypeOK
  <1>7. \A c \in add \cup fresh : c \in Carton /\ carton[c].shipment = None
    BY <1>3, ReadyNowhere
  <1>8. ASSUME NEW c \in Carton
        PROVE  \/ boxes[c] = carton[c]
               \/ /\ carton[c].shipment \in {None, s} /\ boxes[c].shipment \in {None, s}
                  /\ boxes[c].status = "absent" => boxes[c].shipment = None
                  /\ boxes[c].status # "shipped"
    <2>1. CASE c \in add \cup fresh
      BY <1>7, <2>1 DEF Put
    <2>2. CASE c \notin add \cup fresh
      <3>1. boxes[c] = emptied[c]
        BY <2>2 DEF Put
      <3> HIDE DEF boxes
      <3> QED
        BY <1>1, <1>3, <3>1 DEF Boxes
    <2> QED
      BY <2>1, <2>2
  <1> HIDE DEF emptied, boxes
  <1>9. Moves(boxes, s)
    BY <1>8 DEF Moves
  <1>10. Fits(ship[s], carton, s) /\ req[r].pc \notin Busy
    BY <1>1, AllFit DEF Busy
  <1>11. \A c \in CartonsOf(boxes, s) : boxes[c].status # "shipped"
    BY <1>2, <1>9, <1>10, NoneShipped
  <1>12. row.status \notin MUTATION_BLOCKED /\ row.status # "absent" /\ row \in Row
    BY <1>1, <1>2, <1>11, SyncedFits
  <1> HIDE DEF row
  <1>13. /\ req'[r].pc = "sync" /\ req'[r].ship = s /\ req'[r].copy = row
         /\ req'[r].todo \subseteq Carton
    BY <1>1, <1>6, <1>12 DEF RequestState, SerialInv, IInv, TypeOK
  <1> HIDE DEF s, old
  <1> QED
    BY <1>1, <1>2, <1>4, <1>5, <1>9, <1>10, <1>12, <1>13, ToSyncFits

LEMMA PrepareOrderFits ==
    ASSUME Alone, SerialInv, IInv', NEW r \in Request, NEW add, NEW fresh, PrepareOrder(r, add, fresh)
    PROVE  SerialInv'
  <1> DEFINE boxes == Put(carton, add \cup fresh, req[r].ship, "assigned")
  <1>1. /\ req[r].pc = "shipment" /\ req[r].copy.status \notin MUTATION_BLOCKED
        /\ CommitAndSync(r, boxes) /\ Done(r)
    BY DEF PrepareOrder, LOCKED, MUTATION_BLOCKED
  <1>2. Moves(boxes, req[r].ship)
    BY ReadyNowhere, PutMoves DEF PrepareOrder
  <1>3. req[r].ship # None
    BY <1>1, RequestFacts, NoneIsNobody
  <1> HIDE DEF boxes
  <1> QED
    BY <1>1, <1>2, <1>3, CommitFits

LEMMA PackIntoFits ==
    ASSUME Alone, SerialInv, IInv', NEW r \in Request, NEW c \in Carton,
           NEW status \in {"assigned", "packed"}, PackInto(r, c, status)
    PROVE  SerialInv'
  <1> DEFINE boxes == Put(carton, {c}, req[r].ship, status)
  <1>1. /\ req[r].pc = "shipment" /\ req[r].copy.status \notin MUTATION_BLOCKED
        /\ CommitAndSync(r, boxes) /\ Done(r) /\ carton[c].shipment \in {None, req[r].ship}
    BY DEF PackInto
  <1>2. Moves(boxes, req[r].ship)
    BY <1>1, PutMoves
  <1>3. req[r].ship # None
    BY <1>1, RequestFacts, NoneIsNobody
  <1> HIDE DEF boxes
  <1> QED
    BY <1>1, <1>2, <1>3, CommitFits

\* A request that loaded a carton holds it as it is.
LEMMA CartonLoaded ==
    ASSUME SerialInv, NEW r \in Request, req[r].pc = "carton"
    PROVE  LET c == req[r].carton
               s == req[r].ship
           IN  /\ c \in Carton /\ carton[c].shipment = s /\ carton[c].status # "absent"
               /\ s = None => carton[c].status # "shipped"
               /\ s # None => /\ s \in Shipment /\ req[r].copy = ship[s] /\ ship[s].status # "absent"
                              /\ req[r].held = carton[c].status
  <1>1. Knows(req[r], ship, carton) /\ (req[r].ship # None => req[r].ship \in Shipment)
    BY RequestFacts
  <1> QED
    BY <1>1 DEF Knows, SerialInv, Placed

LEMMA UnpackCartonFits ==
    ASSUME Alone, SerialInv, IInv', NEW r \in Request, UnpackCarton(r)
    PROVE  SerialInv'
  <1> DEFINE d == req[r].carton
             s == req[r].ship
  <1>1. req[r].pc = "carton" /\ Mutable(r) /\ Done(r)
    BY DEF UnpackCarton
  <1>2. /\ d \in Carton /\ carton[d].shipment = s /\ carton \in Boxes
        /\ req'[r] = AtRest
    BY <1>1, CartonLoaded DEF Done, SerialInv, IInv, TypeOK, Boxes
  <1>3. PICK boxes \in {[carton EXCEPT ![d] = [status |-> "draft", shipment |-> None]], carton} :
           IF s = None THEN carton' = boxes /\ UNCHANGED <<ship, seen, last>>
           ELSE CommitAndSync(r, boxes)
    BY DEF UnpackCarton
  <1>4. \A c \in Carton : \/ boxes[c] = carton[c]
                          \/ c = d /\ boxes[c].status = "draft" /\ boxes[c].shipment = None
    BY <1>2 DEF Boxes
  <1> HIDE DEF d, s
  <1>5. CASE s = None
    <2>1. ship' = ship /\ carton' = boxes
      BY <1>3, <1>5
    <2>2. \A c \in Carton : \/ carton'[c] = carton[c]
                            \/ /\ carton[c].shipment = None /\ carton'[c].shipment = None
                               /\ carton'[c].status # "shipped"
      BY <1>2, <1>4, <1>5, <2>1
    <2>3. \A q \in Request : \/ Knows(req'[q], ship, carton')
                             \/ req'[q].pc # "carton" /\ Knows(req'[q], ship, carton)
      BY <1>2, RestKnows DEF Alone
    <2>4. \A q \in Request : req'[q].pc \in Busy \/ req[q].pc \in Busy => req'[q] = req[q]
      BY <1>1, <1>2 DEF Alone, Busy, AtRest
    <2> QED
      BY <2>1, <2>2, <2>3, <2>4, OutsideShipments
  <1>6. CASE s # None
    <2>1. Moves(boxes, s)
      BY <1>2, <1>4 DEF Moves
    <2>2. req[r].copy.status \notin MUTATION_BLOCKED
      BY <1>1, <1>6 DEF Mutable, s
    <2> QED
      BY <1>1, <1>3, <1>6, <2>1, <2>2, CommitFits DEF s
  <1> QED
    BY <1>5, <1>6

LEMMA RepackCartonFits ==
    ASSUME Alone, SerialInv, IInv', NEW r \in Request, RepackCarton(r)
    PROVE  SerialInv'
  <1> DEFINE boxes == Put(carton, {req[r].carton}, req[r].ship, "assigned")
  <1>1. /\ req[r].pc = "carton" /\ req[r].ship # None /\ CommitAndSync(r, boxes) /\ Done(r)
        /\ req[r].copy.status \notin MUTATION_BLOCKED
    BY DEF RepackCarton, Mutable
  <1>2. carton[req[r].carton].shipment = req[r].ship
    BY <1>1, CartonLoaded
  <1>3. Moves(boxes, req[r].ship)
    BY <1>2, PutMoves
  <1> HIDE DEF boxes
  <1> QED
    BY <1>1, <1>3, CommitFits

LEMMA UpdateCartonStatusFits ==
    ASSUME Alone, SerialInv, IInv', NEW r \in Request, NEW status \in {"draft", "packed"},
           UpdateCartonStatus(r, status)
    PROVE  SerialInv'
  <1> DEFINE d == req[r].carton
  <1>1. /\ req[r].pc = "carton" /\ req[r].ship = None /\ ship' = ship /\ req'[r] = AtRest
        /\ carton' = [carton EXCEPT ![d].status = status] /\ carton \in Boxes
    BY DEF UpdateCartonStatus, Done, SerialInv, IInv, TypeOK, Boxes
  <1>2. d \in Carton /\ carton[d].shipment = None
    BY <1>1, CartonLoaded
  <1> HIDE DEF d
  <1>3. \A c \in Carton : \/ carton'[c] = carton[c]
                          \/ /\ carton[c].shipment = None /\ carton'[c].shipment = None
                             /\ carton'[c].status # "shipped"
    BY <1>1, <1>2 DEF Boxes
  <1>4. \A q \in Request : \/ Knows(req'[q], ship, carton')
                           \/ req'[q].pc # "carton" /\ Knows(req'[q], ship, carton)
    BY <1>1, RestKnows DEF Alone
  <1>5. \A q \in Request : req'[q].pc \in Busy \/ req[q].pc \in Busy => req'[q] = req[q]
    BY <1>1 DEF Alone, Busy, AtRest
  <1> QED
    BY <1>1, <1>3, <1>4, <1>5, OutsideShipments

LEMMA LabelFits ==
    ASSUME Alone, SerialInv, IInv', NEW r \in Request, MarkCartonLabeled(r) \/ MarkCartonAssigned(r)
    PROVE  SerialInv'
  <1> DEFINE old == req[r]
             d == old.carton
             s == old.ship
  <1>1. PICK status \in {"labeled", "assigned"} :
           CommitThenSync(r, [carton EXCEPT ![d].status = status])
    BY DEF MarkCartonLabeled, MarkCartonAssigned
  <1>2. old.pc = "carton" /\ Unlocked(r)
    BY DEF MarkCartonLabeled, MarkCartonAssigned
  <1>3. /\ s \in Shipment /\ d \in Carton /\ carton[d].shipment = s /\ old.copy = ship[s]
        /\ ship[s].status # "absent" /\ ship[s].status \notin MUTATION_BLOCKED
        /\ old.pc \notin Busy
    BY <1>2, CartonLoaded DEF Unlocked, LOCKED, MUTATION_BLOCKED, Busy
  <1>4. /\ old \in RequestState /\ old.todo \subseteq Carton /\ carton \in Boxes
        /\ ship \in [Shipment -> Row] /\ req \in [Request -> RequestState]
    BY RequestFacts DEF SerialInv, IInv, TypeOK, Boxes
  <1> DEFINE boxes == [carton EXCEPT ![d].status = status]
  <1>5. /\ carton' = boxes /\ req'[r] = [old EXCEPT !.pc = "sync"]
        /\ ship' = [ship EXCEPT ![s] = ship[s]]
    BY <1>1, <1>4 DEF CommitThenSync
  <1>6. \A c \in Carton : boxes[c] = carton[c] \/ (c = d /\ boxes[c].status = status /\ boxes[c].shipment = s)
    BY <1>3, <1>4 DEF Boxes
  <1> HIDE DEF boxes, s, d
  <1>7. Moves(boxes, s)
    BY <1>3, <1>6 DEF Moves
  <1>8. /\ req'[r].pc = "sync" /\ req'[r].ship = s /\ req'[r].copy = ship[s]
        /\ req'[r].todo \subseteq Carton
    BY <1>3, <1>4, <1>5 DEF RequestState, s
  <1> HIDE DEF old
  <1> QED
    BY <1>3, <1>5, <1>7, <1>8, ToSyncFits DEF old

LEMMA DeleteCartonFits ==
    ASSUME Alone, SerialInv, IInv', NEW r \in Request, DeleteCarton(r)
    PROVE  SerialInv'
  <1> DEFINE old == req[r]
             d == old.carton
             s == old.ship
             boxes == [carton EXCEPT ![d] = [status |-> "absent", shipment |-> None]]
  <1>1. old.pc = "carton" /\ Mutable(r) /\ carton' = boxes
    BY DEF DeleteCarton
  <1>2. /\ d \in Carton /\ carton[d].shipment = s
        /\ old \in RequestState /\ old.todo \subseteq Carton /\ carton \in Boxes
        /\ ship \in [Shipment -> Row] /\ req \in [Request -> RequestState]
    BY <1>1, RequestFacts, CartonLoaded DEF SerialInv, IInv, TypeOK, Boxes
  <1>3. \A c \in Carton : \/ boxes[c] = carton[c]
                          \/ c = d /\ boxes[c].status = "absent" /\ boxes[c].shipment = None
    BY <1>2 DEF Boxes
  <1>4. r \in DOMAIN Forget(r, d) /\ Forget(r, d)[r] = old
    BY DEF Forget
  <1>5. CASE s = None
    <2>1. ship' = ship /\ req'[r] = AtRest
      BY <1>4, <1>5 DEF DeleteCarton
    <2> HIDE DEF boxes, s, d
    <2>2. \A c \in Carton : \/ carton'[c] = carton[c]
                            \/ /\ carton[c].shipment = None /\ carton'[c].shipment = None
                               /\ carton'[c].status # "shipped"
      BY <1>1, <1>2, <1>3, <1>5
    <2>3. \A q \in Request : \/ Knows(req'[q], ship, carton')
                             \/ req'[q].pc # "carton" /\ Knows(req'[q], ship, carton)
      BY <2>1, RestKnows DEF Alone
    <2>4. \A q \in Request : req'[q].pc \in Busy \/ req[q].pc \in Busy => req'[q] = req[q]
      BY <1>1, <2>1 DEF Alone, Busy, AtRest
    <2> QED
      BY <2>1, <2>2, <2>3, <2>4, OutsideShipments
  <1>6. CASE s # None
    <2> DEFINE row == Synced(ship[s], ship[s], Progress(boxes, s))
    <2>1. /\ s \in Shipment /\ old.copy = ship[s] /\ ship[s].status # "absent"
          /\ ship[s].status \notin MUTATION_BLOCKED /\ old.pc \notin Busy
      BY <1>1, <1>6, CartonLoaded DEF Mutable, Busy
    <2>2. /\ ship' = [ship EXCEPT ![s] = row]
          /\ req'[r] = [old EXCEPT !.pc = "sync", !.copy = row]
      <3> DEFINE all == Forget(r, d)
                 x == [old EXCEPT !.pc = "sync", !.copy = row]
      <3>1. /\ ship' = [ship EXCEPT ![s] = row]
            /\ req' = [all EXCEPT ![r].pc = "sync", ![r].copy = row]
        BY <1>6, <2>1, <1>4 DEF DeleteCarton
      <3> HIDE DEF all, row
      <3>2. r \in DOMAIN all /\ all[r] = old
        BY <1>4 DEF all
      <3> QED
        BY <1>2, <3>1, <3>2
    <2> HIDE DEF boxes, s, d
    <2>3. Moves(boxes, s)
      BY <1>2, <1>3 DEF Moves
    <2>4. Fits(ship[s], carton, s)
      BY <2>1, AllFit
    <2>5. \A c \in CartonsOf(boxes, s) : boxes[c].status # "shipped"
      BY <2>1, <2>3, <2>4, NoneShipped
    <2>6. row.status \notin MUTATION_BLOCKED /\ row.status # "absent"
      BY <1>2, <2>1, <2>5, SyncedFits
    <2> HIDE DEF row
    <2>7. /\ req'[r].pc = "sync" /\ req'[r].ship = s /\ req'[r].copy = row
          /\ req'[r].todo \subseteq Carton
      BY <1>2, <2>2 DEF RequestState, s
    <2> HIDE DEF old
    <2> QED
      BY <1>1, <2>1, <2>2, <2>3, <2>6, <2>7, ToSyncFits DEF old
  <1> QED
    BY <1>5, <1>6

LEMMA SyncFits ==
    ASSUME Alone, SerialInv, IInv', NEW r \in Request, SyncReadyState(r)
    PROVE  SerialInv'
  <1> DEFINE s == req[r].ship
             row == Synced(ship[s], ship[s], Progress(carton, s))
  <1>1. /\ s \in Shipment /\ req[r].copy = ship[s] /\ ship[s].status # "absent"
        /\ ship[s].status \notin MUTATION_BLOCKED
        /\ \A c \in CartonsOf(carton, s) : carton[c].status # "shipped"
    BY RequestFacts DEF SyncReadyState, Knows
  <1>2. /\ ship' = [ship EXCEPT ![s] = row] /\ carton' = carton /\ req'[r] = AtRest
        /\ ship[s] \in Row
    BY <1>1 DEF SyncReadyState, Done, SerialInv, IInv, TypeOK
  <1> HIDE DEF s
  <1>3. Fits(row, carton, s) /\ row.status # "absent"
    BY <1>1, <1>2, SyncedFits
  <1>4. Within(carton, s) /\ Knows(req'[r], ship', carton)
    BY <1>2, RestKnows DEF Within
  <1> HIDE DEF row
  <1> QED
    BY <1>1, <1>2, <1>3, <1>4, OneShipment DEF s

(***************************************************************************)
(* The tracking page.                                                      *)
(***************************************************************************)
\* A step that saves the row of a shipment and leaves its cartons where they are.
LEMMA RowSavedFits ==
    ASSUME Alone, SerialInv, IInv', NEW r \in Request, NEW row,
           req[r].pc \notin {"idle", "carton"}, row.status # "absent",
           ship' = [ship EXCEPT ![req[r].ship] = row], carton' = carton,
           \/ Fits(row, carton, req[r].ship) /\ req'[r] = AtRest
           \/ /\ req'[r].ship = req[r].ship /\ req'[r].pc \in Busy
              /\ Knows(req'[r], ship', carton)
    PROVE  SerialInv'
  <1>1. req[r].ship \in Shipment /\ Within(carton, req[r].ship)
    BY RequestFacts DEF Within
  <1> DEFINE s == req[r].ship
  <1>2. /\ s \in Shipment /\ Within(carton, s) /\ ship' = [ship EXCEPT ![s] = row]
        /\ Fits(row, carton, s) \/ (req'[r].ship = s /\ req'[r].pc \in Busy)
        /\ req[r].pc \in Busy => req[r].ship = s
    BY <1>1
  <1> HIDE DEF s
  <1>3. Knows(req'[r], ship', carton)
    BY RestKnows
  <1> QED
    BY <1>2, <1>3, OneShipment

\* A request that loaded a shipment holds it as it is, and it fits its cartons.
LEMMA ShipmentLoaded ==
    ASSUME Alone, SerialInv, NEW r \in Request, req[r].pc \in {"shipment", "valid", "recorded"}
    PROVE  LET s == req[r].ship
           IN  /\ s \in Shipment /\ req[r].copy = ship[s] /\ ship[s] \in Row
               /\ ship[s].status # "absent" /\ Fits(ship[s], carton, s)
  <1>1. req[r].ship \in Shipment /\ Knows(req[r], ship, carton)
    BY RequestFacts
  <1>2. Fits(ship[req[r].ship], carton, req[r].ship)
    BY <1>1, AllFit DEF Busy
  <1> QED
    BY <1>1, <1>2 DEF Knows, SerialInv, IInv, TypeOK

\* What is saved of a row besides its status and ready_at does not matter to its cartons.
LEMMA SameStatusFits ==
    ASSUME NEW row, NEW new, NEW s, Fits(row, carton, s), 
           new.status = row.status, new.ready = row.ready
    PROVE  Fits(new, carton, s)
  BY DEF Fits

LEMMA SetDisputedFits ==
    ASSUME Alone, SerialInv, IInv', NEW r \in Request, SetDisputed(r)
    PROVE  SerialInv'
  <1> DEFINE s == req[r].ship
             row == [ship[s] EXCEPT !.disputed = TRUE]
  <1>1. /\ s \in Shipment /\ ship[s] \in Row /\ ship[s].status # "absent"
        /\ Fits(ship[s], carton, s) /\ req[r].pc = "shipment"
    BY ShipmentLoaded DEF SetDisputed
  <1>2. /\ ship' = [ship EXCEPT ![s] = row] /\ carton' = carton /\ req'[r] = AtRest
    BY <1>1 DEF SetDisputed, Done, SerialInv, IInv, TypeOK
  <1>3. row.status = ship[s].status /\ row.ready = ship[s].ready
    BY <1>1 DEF Row
  <1> HIDE DEF row
  <1>4. Fits(row, carton, s)
    BY <1>1, <1>3, SameStatusFits
  <1> QED
    BY <1>1, <1>2, <1>3, <1>4, RowSavedFits

LEMMA CloseShipmentFits ==
    ASSUME Alone, SerialInv, IInv', NEW r \in Request, CloseShipment(r)
    PROVE  SerialInv'
  <1> DEFINE s == req[r].ship
             row == [ship[s] EXCEPT !.closed = TRUE]
  <1>1. /\ s \in Shipment /\ ship[s] \in Row /\ ship[s].status # "absent"
        /\ Fits(ship[s], carton, s) /\ req[r].pc = "shipment"
    BY ShipmentLoaded DEF CloseShipment
  <1>2. /\ ship' = [ship EXCEPT ![s] = row] /\ carton' = carton /\ req'[r] = AtRest
    BY <1>1 DEF CloseShipment, Done, SerialInv, IInv, TypeOK
  <1>3. row.status = ship[s].status /\ row.ready = ship[s].ready
    BY <1>1 DEF Row
  <1> HIDE DEF row
  <1>4. Fits(row, carton, s)
    BY <1>1, <1>3, SameStatusFits
  <1> QED
    BY <1>1, <1>2, <1>3, <1>4, RowSavedFits

LEMMA ApplyVersionUpdateFits ==
    ASSUME Alone, SerialInv, IInv', NEW r \in Request, ApplyVersionUpdate(r)
    PROVE  SerialInv'
  <1> DEFINE s == req[r].ship
             row == [ship[s] EXCEPT !.status = "planned"]
  <1>1. /\ s \in Shipment /\ ship[s] \in Row /\ ship[s].status \in {"packed", "planned"}
        /\ Fits(ship[s], carton, s) /\ req[r].pc = "shipment" /\ req[r].copy = ship[s]
    BY ShipmentLoaded DEF ApplyVersionUpdate
  <1>2. row.status = "planned" /\ (ship[s].status = "planned" => row = ship[s])
    BY <1>1 DEF Row
  <1>3. carton' = carton /\ req'[r] = AtRest /\ ship \in [Shipment -> Row]
    BY DEF ApplyVersionUpdate, Done, SerialInv, IInv, TypeOK
  <1>4. ship' = [ship EXCEPT ![s] = row]
    BY <1>1, <1>2, <1>3 DEF ApplyVersionUpdate
  <1> HIDE DEF row
  <1>5. Fits(row, carton, s)
    BY <1>1, <1>2 DEF Fits, LOCKED, MUTATION_BLOCKED
  <1> QED
    BY <1>1, <1>2, <1>3, <1>4, <1>5, RowSavedFits

LEMMA SaveTrackedStatusFits ==
    ASSUME Alone, SerialInv, IInv', NEW r \in Request, SaveTrackedStatus(r)
    PROVE  SerialInv'
  <1> DEFINE old == req[r]
             s == old.ship
             target == TRACKING_TO_SHIPMENT_STATUS[old.event]
             row == [ship[s] EXCEPT
                       !.status = target,
                       !.ready = IF target = "packed" /\ ~ old.copy.ready THEN TRUE ELSE @]
             left == {c \in CartonsOf(carton, s) : carton[c].status # "shipped"}
  <1>1. /\ s \in Shipment /\ old.copy = ship[s] /\ ship[s] \in Row
        /\ ship[s].status # "absent" /\ Fits(ship[s], carton, s) /\ old.pc = "recorded"
    BY ShipmentLoaded DEF SaveTrackedStatus
  <1>2. /\ old \in RequestState /\ Knows(old, ship, carton) /\ Sound(old, seen)
    BY RequestFacts DEF SerialInv, IInv
  <1>3. target \in {"packed", "planned", "shipped", "received_correspondent", "delivered"}
    BY <1>1, <1>2 DEF Sound, TrackingStatus, TRACKING_TO_SHIPMENT_STATUS
  <1>4. /\ target = "packed" => Progress(carton, s) = "packed"
        /\ target \in {"packed", "planned", "shipped"} => ship[s].status \notin MUTATION_BLOCKED
        /\ target \in {"received_correspondent", "delivered"} => ship[s].status \in MUTATION_BLOCKED
    BY <1>1, <1>2 DEF Knows
  <1>5. /\ carton' = carton
        /\ ship' = [ship EXCEPT ![s].status = target,
                                ![s].ready = IF target = "packed" /\ ~ old.copy.ready
                                             THEN TRUE ELSE @]
        /\ req' = IF target # "shipped" THEN [req EXCEPT ![r] = AtRest]
                  ELSE [req EXCEPT ![r].pc = "ship", ![r].todo = left]
    BY DEF SaveTrackedStatus, Done
  <1>6. ship \in [Shipment -> Row] /\ req \in [Request -> RequestState]
    BY DEF SerialInv, IInv, TypeOK
  <1> HIDE DEF target
  <1>7. /\ ship' = [ship EXCEPT ![s] = row]
        /\ row.status = target /\ row.ready = (IF target = "packed" THEN TRUE ELSE ship[s].ready)
    BY <1>1, <1>5, <1>6 DEF Row
  <1> HIDE DEF row
  <1>8. row.status # "absent"
    BY <1>3, <1>7
  <1>9. CASE target # "shipped"
    <2>1. Fits(row, carton, s)
      BY <1>1, <1>3, <1>4, <1>7, <1>9 DEF Fits, LOCKED, MUTATION_BLOCKED
    <2> QED
      BY <1>1, <1>5, <1>6, <1>7, <1>8, <1>9, <2>1, RowSavedFits
  <1>10. CASE target = "shipped"
    <2>1. ship'[s].status = "shipped"
      BY <1>1, <1>6, <1>7, <1>10
    <2>2. left \subseteq Carton
      BY DEF CartonsOf
    <2>3. /\ req'[r].pc = "ship" /\ req'[r].ship = s /\ req'[r].todo = left
      BY <1>2, <1>5, <1>6, <1>10 DEF RequestState
    <2>4. Knows(req'[r], ship', carton)
      BY <2>1, <2>2, <2>3, NoneIsNobody DEF Knows
    <2>5. req'[r].pc \in Busy
      BY <2>3 DEF Busy
    <2> HIDE DEF left
    <2> QED
      BY <1>1, <1>5, <1>7, <1>8, <2>3, <2>4, <2>5, RowSavedFits
  <1> QED
    BY <1>9, <1>10

LEMMA LoopFits ==
    ASSUME Alone, SerialInv, IInv', NEW r \in Request, NEW d \in Carton,
           ShipCarton(r, d) \/ RelabelCarton(r, d)
    PROVE  SerialInv'
  <1> DEFINE old == req[r]
             s == old.ship
  <1>1. PICK status \in {"shipped", "labeled"} :
           /\ old.pc = IF status = "shipped" THEN "ship" ELSE "relabel"
           /\ d \in old.todo /\ ship' = ship
           /\ carton' = [carton EXCEPT ![d].status = status]
           /\ req' = [req EXCEPT ![r].todo = @ \ {d}]
    BY DEF ShipCarton, RelabelCarton
  <1>2. /\ old \in RequestState /\ Knows(old, ship, carton) /\ s \in Shipment
        /\ ship \in [Shipment -> Row] /\ carton \in Boxes /\ req \in [Request -> RequestState]
    BY <1>1, RequestFacts DEF SerialInv, IInv, TypeOK, Boxes
  <1>3. d \in CartonsOf(carton, s) /\ carton[d].shipment = s /\ s # None
    BY <1>1, <1>2, NoneIsNobody DEF Knows, CartonsOf
  <1> DEFINE boxes == [carton EXCEPT ![d].status = status]
             x == [old EXCEPT !.todo = @ \ {d}]
  <1>4. /\ boxes[d].status = status /\ boxes[d].shipment = s
        /\ \A c \in Carton \ {d} : boxes[c] = carton[c]
    BY <1>2, <1>3 DEF Boxes
  <1>5. carton' = boxes /\ req'[r] = x /\ ship' = [ship EXCEPT ![s] = ship[s]]
    BY <1>1, <1>2
  <1> HIDE DEF boxes
  <1>6. Within(boxes, s) /\ CartonsOf(boxes, s) = CartonsOf(carton, s)
    BY <1>3, <1>4 DEF Within, CartonsOf
  <1>7. /\ x.pc = old.pc /\ x.ship = s /\ x.copy = old.copy /\ x.todo = old.todo \ {d}
    BY <1>2 DEF RequestState
  <1> HIDE DEF x, s
  <1>8. status = "shipped" =>
           x.todo = {c \in CartonsOf(boxes, s) : boxes[c].status # "shipped"}
    BY <1>1, <1>2, <1>3, <1>4, <1>6, <1>7 DEF Knows, s, CartonsOf
  <1>9. status = "labeled" =>
           x.todo = {c \in CartonsOf(boxes, s) : boxes[c].status = "shipped"}
    BY <1>1, <1>2, <1>3, <1>4, <1>6, <1>7 DEF Knows, s, CartonsOf
  <1>10. Knows(x, ship, boxes)
    BY <1>1, <1>2, <1>7, <1>8, <1>9 DEF Knows, s
  <1>11. x.pc \in Busy /\ ship[s].status # "absent"
    BY <1>1, <1>2, <1>7 DEF Busy, Knows, s
  <1>12. req[r].ship = s
    BY DEF s
  <1>13. /\ Knows(req'[r], ship', boxes) /\ req'[r].ship = s /\ req'[r].pc \in Busy
         /\ s \in Shipment
    BY <1>1, <1>2, <1>5, <1>7, <1>10, <1>11
  <1> HIDE DEF old
  <1> QED
    BY <1>5, <1>6, <1>11, <1>12, <1>13, OneShipment

LEMMA LoopDoneFits ==
    ASSUME Alone, SerialInv, IInv', NEW r \in Request, LoopDone(r)
    PROVE  SerialInv'
  <1> DEFINE old == req[r]
             s == old.ship
  <1>1. /\ old.pc \in {"ship", "relabel"} /\ old.todo = {} /\ ship' = ship /\ carton' = carton
        /\ old \in RequestState /\ Knows(old, ship, carton) /\ s \in Shipment
        /\ ship \in [Shipment -> Row] /\ req \in [Request -> RequestState]
    BY RequestFacts DEF LoopDone, SerialInv, IInv, TypeOK
  <1>2. ship' = [ship EXCEPT ![s] = ship[s]] /\ ship[s].status # "absent"
    BY <1>1 DEF Knows
  <1>3. CASE old.pc = "ship"
    <2>1. req'[r] = AtRest
      BY <1>1, <1>3 DEF LoopDone
    <2>2. Fits(ship[s], carton, s)
      BY <1>1, <1>3 DEF Knows, Fits, LOCKED, MUTATION_BLOCKED
    <2> QED
      BY <1>1, <1>2, <1>3, <2>1, <2>2, RowSavedFits
  <1>4. CASE old.pc = "relabel"
    <2>1. req'[r] = [old EXCEPT !.pc = "sync"]
      BY <1>1, <1>4 DEF LoopDone
    <2>2. /\ req'[r].pc = "sync" /\ req'[r].ship = s /\ req'[r].copy = old.copy
          /\ req'[r].todo = {}
      BY <1>1, <2>1 DEF RequestState
    <2>3. \A c \in CartonsOf(carton, s) : carton[c].status # "shipped"
      BY <1>1, <1>4 DEF Knows
    <2>4. Knows(req'[r], ship', carton)
      BY <1>1, <1>4, <2>2, <2>3 DEF Knows
    <2>5. req'[r].pc \in Busy
      BY <2>2 DEF Busy
    <2> QED
      BY <1>1, <1>2, <1>4, <2>2, <2>4, <2>5, RowSavedFits
  <1> QED
    BY <1>1, <1>3, <1>4

LEMMA ResolveDisputeFits ==
    ASSUME Alone, SerialInv, IInv', NEW r \in Request, ResolveDispute(r)
    PROVE  SerialInv'
  <1> DEFINE old == req[r]
             s == old.ship
             copy == old.copy
             reset == copy.status \in LOCKED
             Resolved(row) ==
                [row EXCEPT !.disputed = IF copy.disputed THEN FALSE ELSE @,
                            !.status = IF reset THEN "packed" ELSE @,
                            !.ready = IF reset THEN (IF copy.ready THEN @ ELSE TRUE) ELSE @]
             row == Resolved(ship[s])
             left == IF copy.status \in MUTATION_BLOCKED
                     THEN {c \in CartonsOf(carton, s) : carton[c].status = "shipped"} ELSE {}
  <1>1. /\ s \in Shipment /\ copy = ship[s] /\ ship[s] \in Row
        /\ ship[s].status # "absent" /\ Fits(ship[s], carton, s) /\ old.pc = "shipment"
    BY ShipmentLoaded DEF ResolveDispute
  <1>2. /\ old \in RequestState /\ req \in [Request -> RequestState]
        /\ ship \in [Shipment -> Row] /\ left \subseteq Carton
    BY RequestFacts DEF SerialInv, IInv, TypeOK, CartonsOf
  <1>3. /\ carton' = carton /\ ship' = [ship EXCEPT ![s] = row]
        /\ req' = [req EXCEPT ![r].pc = "relabel", ![r].copy = Resolved(@), ![r].todo = left]
    BY DEF ResolveDispute
  <1>4. req'[r].pc = "relabel" /\ req'[r].ship = s /\ req'[r].copy = row /\ req'[r].todo = left
    BY <1>1, <1>2, <1>3 DEF RequestState
  <1>5. row.status = IF reset THEN "packed" ELSE ship[s].status
    BY <1>1 DEF Row
  <1> HIDE DEF row, Resolved
  <1>6. row.status # "absent" /\ row.status \notin MUTATION_BLOCKED
    BY <1>1, <1>5 DEF LOCKED, MUTATION_BLOCKED
  <1>7. left = {c \in CartonsOf(carton, s) : carton[c].status = "shipped"}
    BY <1>1 DEF Fits
  <1>8. ship'[s] = row
    BY <1>1, <1>2, <1>3
  <1> HIDE DEF left
  <1>9. Knows(req'[r], ship', carton)
    BY <1>2, <1>4, <1>6, <1>7, <1>8, NoneIsNobody DEF Knows
  <1>10. req'[r].pc \in Busy
    BY <1>4 DEF Busy
  <1> QED
    BY <1>1, <1>3, <1>4, <1>6, <1>9, <1>10, RowSavedFits

LEMMA SerialInit == Init => SerialInv
  <1> SUFFICES ASSUME Init PROVE SerialInv
    OBVIOUS
  <1>1. IInv
    BY InitSound
  <1>2. \A r \in Request : Knows(req[r], ship, carton)
    BY RestKnows DEF Init
  <1>3. Placed(ship, carton)
    BY DEF Init, Placed
  <1>4. \A s \in Shipment : Fits(ship[s], carton, s)
    BY NoneIsNobody DEF Init, Fits, Blank, CartonsOf
  <1> QED
    BY <1>1, <1>2, <1>3, <1>4 DEF SerialInv

LEMMA SerialStep ==
    ASSUME Alone
    PROVE  SerialInv /\ [Next]_vars => SerialInv'
  <1> SUFFICES ASSUME SerialInv, [Next]_vars PROVE SerialInv'
    OBVIOUS
  <1>1. IInv'
    BY StepSound DEF SerialInv
  <1>2. ASSUME NEW r \in Request, ShipmentStep(r) PROVE SerialInv'
    BY <1>1, <1>2, LoadsFit, CreateShipmentFits, EditShipmentFits, PrepareOrderFits, PackIntoFits, SyncFits
    DEF ShipmentStep
  <1>3. ASSUME NEW r \in Request, CartonStep(r) PROVE SerialInv'
    BY <1>1, <1>3, LoadsFit, UpdateCartonStatusFits, LabelFits, DeleteCartonFits, UnpackCartonFits,
       RepackCartonFits DEF CartonStep
  <1>4. ASSUME NEW r \in Request, TrackingStep(r) PROVE SerialInv'
    BY <1>1, <1>4, ValidateTrackingFits, RecordTrackingFits, SaveTrackedStatusFits, SetDisputedFits,
       ResolveDisputeFits, LoopFits, LoopDoneFits, CloseShipmentFits, ApplyVersionUpdateFits
    DEF TrackingStep
  <1>5. CASE UNCHANGED vars
    BY <1>1, <1>5 DEF vars, SerialInv
  <1> QED
    BY <1>1, <1>2, <1>3, <1>4, <1>5, LeaveFits, PackUnassignedFits DEF Next, Handle

\* Of requests that come one after another, with packing beside them, none leaves a
\* shipment whose readiness is not what its cartons say: every handler synchronizes
\* what it changed before it ends, or changes nothing that readiness depends on.
THEOREM ReadinessFollowsCartons ==
    ASSUME Alone
    PROVE  Spec => []ReadinessMatchesCartons
  <1>1. SerialInv /\ [Next]_vars => SerialInv'
    BY SerialStep
  <1>2. SerialInv => ReadinessMatchesCartons
    BY SerialImplied
  <1> QED
    BY <1>1, <1>2, SerialInit, PTL DEF Spec

\* Nor does one leave a carton shipped without its shipment, or behind it: boarding
\* ships them all, resolving a dispute labels them all again.
THEOREM CartonsShipTogether ==
    ASSUME Alone
    PROVE  Spec => []ShippedTogether
  <1>1. SerialInv /\ [Next]_vars => SerialInv'
    BY SerialStep
  <1>2. SerialInv => ShippedTogether
    BY SerialImplied
  <1> QED
    BY <1>1, <1>2, SerialInit, PTL DEF Spec
=============================================================================
