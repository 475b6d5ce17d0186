-------------------------------- MODULE Stock --------------------------------
(***************************************************************************)
(* Lots, order reservations and carton contents: wms/domain/stock.py and   *)
(* wms/domain/orders.py with the handlers that call them.                  *)
(*                                                                         *)
(* A database transaction is one step, except prepare_order, whose loop    *)
(* over cartons and bins is a sequence of steps between PrepareBegin and   *)
(* PrepareFinish; `txn` holds the snapshot its rollback restores.  The     *)
(* add_line handler commits three times, so it is three steps of a clerk;  *)
(* a reservation and a shipment edit lock lots and rows but work on copies *)
(* of the order's lines, so each reads in one step and commits in another. *)
(* Quantities are the data; dates, codes, locations and kits are not.      *)
(***************************************************************************)
EXTENDS Allocation

CONSTANTS
    Product, Lot, Order, Carton,
    Slot,          \* bound: reservation rows an order may hold on one lot
    Clerk,         \* users whose requests on orders may overlap
    ProductOf,     \* the product of a lot
    FefoRank,      \* order_by("expires_null", "expires_on", "received_on", "id")
    ReleaseRank,   \* order_by("product_lot__expires_on", ...): NULL expiry first
    CodeRank,      \* order_by("code") of cartons
    None

ASSUME ConstantsAssumption ==
    /\ IsFiniteSet(Lot) /\ IsFiniteSet(Order) /\ IsFiniteSet(Slot) /\ IsFiniteSet(Carton)
    /\ ProductOf \in [Lot -> Product]
    /\ FefoRank \in [Lot -> Nat] /\ ReleaseRank \in [Lot -> Nat]
    /\ CodeRank \in [Carton -> Nat]
    /\ \A l, m \in Lot : ProductOf[l] = ProductOf[m] /\ l # m =>   \* both orders end with the id
          FefoRank[l] # FefoRank[m] /\ ReleaseRank[l] # ReleaseRank[m]
    /\ None \notin Order \cup Carton

VARIABLES
    db,       \* the tables: lot, moved, rows, line, order, carton
    gate,     \* what an order's shipment lets the stock operations do
    request,  \* the request each clerk has under way
    txn       \* prepare_order in progress, or None

vars == <<db, gate, request, txn>>

LotStatus == {"absent", "quarantined", "available"}
OrderStatus == {"absent", "draft", "reserved", "preparing", "ready"}
\* "assigned" stands for assigned and labeled, which stock code treats alike.
CartonStatus == {"absent", "draft", "picking", "packed", "assigned", "shipped"}

Tables ==
    [lot: [Lot -> [status: LotStatus, on_hand: Units, reserved: Units]],
     moved: [Lot -> Int],
     rows: [Lot -> [Order \X Slot -> Units]],
     line: [Order -> [Product -> [quantity: Units, reserved: Units, prepared: Units]]],
     order: [Order -> OrderStatus],
     carton: [Carton -> [status: CartonStatus, shipment: Order \cup {None},
                         items: [Lot -> Units]]]]

LineCopies == [Product -> [quantity: Units, reserved: Units, prepared: Units]]

\* add_line: what its locals hold; "orphan" when its saved line was deleted,
\* "short" when its reservation found too little stock.
SavedLine ==
    [pc: {"saved", "orphan", "short"}, order: Order, product: Product, previous: Units]
AddLineState ==
    [pc: {"read"}, order: Order, product: Product, previous: Units, quantity: Units]
        \cup SavedLine

\* A reservation that has read the lines: its copies (of prepared_quantity it
\* makes no use), the lines among them that were deleted since, and the add_line
\* that asked for it, if one did.
ReserveState ==
    [pc: {"reserving"}, order: Order, lines: LineCopies, lost: SUBSET Product,
     line: SavedLine \cup [pc: {"idle"}]]

\* A shipment edit that has read the lines of the shipment's order.
EditState == [pc: {"editing"}, order: Order, lines: LineCopies, lost: SUBSET Product]

RequestState == [pc: {"idle"}] \cup AddLineState \cup ReserveState \cup EditState

PrepareState ==
    [order: Order, stage: {"assign", "pack"}, bin: Carton \cup {None}, saved: Tables]

Idle == [pc |-> "idle"]

(***************************************************************************)
(* Lots.                                                                   *)
(***************************************************************************)
\* Mutant: fefo_lots counts reserved units as free.
FefoAvailableReservedToo(d, p) ==
    [l \in Lot |->
        IF ProductOf[l] = p /\ d.lot[l].status = "available" THEN d.lot[l].on_hand ELSE 0]

\* Units of the lots fefo_lots returns for p.
FefoAvailable(d, p) ==
    [l \in Lot |->
        IF ProductOf[l] = p /\ d.lot[l].status = "available"
        THEN d.lot[l].on_hand - d.lot[l].reserved ELSE 0]

\* Mutant: lots in the opposite order.
FefoTakeLatest(d, p, q) ==
    Greedy(FefoAvailable(d, p), [l \in Lot |-> -FefoRank[l]], q)

\* consume_stock: q units of p from unreserved lots, soonest expiry first.
FefoTake(d, p, q) == Greedy(FefoAvailable(d, p), FefoRank, q)
CanConsume(d, p, q) == q > 0 /\ Total(FefoAvailable(d, p)) >= q
ConsumeStock(d, p, q) ==
    LET take == FefoTake(d, p, q)
    IN  [d EXCEPT
            !.lot = [l \in Lot |-> [d.lot[l] EXCEPT !.on_hand = @ - take[l]]],
            !.moved = [l \in Lot |-> @[l] - take[l]]]

(***************************************************************************)
(* Reservation rows.                                                       *)
(***************************************************************************)
HeldBy(d, o, p) ==
    [r \in Lot \X Slot |-> IF ProductOf[r[1]] = p THEN d.rows[r[1]][<<o, r[2]>>] ELSE 0]
HeldUnits(d, o, p) == Total(HeldBy(d, o, p))

\* The query does not order rows of one lot: any order of the slots may come.
TieBreak ==
    {t \in [Slot -> 0 .. Cardinality(Slot) - 1] : \A j, k \in Slot : t[j] = t[k] => j = k}
RowRank(tie) == [r \in Lot \X Slot |-> ReleaseRank[r[1]] * Cardinality(Slot) + tie[r[2]]]

\* Every row joins its own copy of the lot, read before the loop; the copy
\* saved last is what the lot keeps, less what that row alone gave.
WrittenBack(take, rank, l) ==
    LET touched == {r \in Lot \X Slot : r[1] = l /\ take[r] > 0}
    IN  IF touched = {} THEN 0
        ELSE take[CHOOSE r \in touched : \A s \in touched : rank[s] <= rank[r]]

\* What the rows of lot l give together: the movements and the carton's items.
Given(take, l) == Total([k \in Slot |-> take[<<l, k>>]])

LeaveRows(d, o, take) ==
    [l \in Lot |-> [s \in Order \X Slot |->
        IF s[1] = o THEN d.rows[l][s] - take[<<l, s[2]>>] ELSE d.rows[l][s]]]

\* release_reserved_stock of a line, when its rows hold q units or more.
ReleaseReserved(d, o, p, q, tie) ==
    LET take == Greedy(HeldBy(d, o, p), RowRank(tie), q)
        back(l) == WrittenBack(take, RowRank(tie), l)
    IN  [d EXCEPT
            !.rows = LeaveRows(d, o, take),
            !.lot = [l \in Lot |->
                [d.lot[l] EXCEPT !.reserved = IF @ < back(l) THEN 0 ELSE @ - back(l)]],
            !.line[o][p].reserved = IF @ < q THEN 0 ELSE @ - q]

\* Mutant: the units leave the reservation and not the shelf.
PackOffShelf(d, o, p, q, tie, c) ==
    LET take == Greedy(HeldBy(d, o, p), RowRank(tie), q)
    IN  [ReleaseReserved(d, o, p, q, tie) EXCEPT
            !.moved = [l \in Lot |-> @[l] - Given(take, l)],
            !.line[o][p].prepared = @ + q,
            !.carton[c] = [status |-> "assigned", shipment |-> o,
                           items |-> [l \in Lot |-> @.items[l] + Given(take, l)]]]

\* Mutant: prepared_quantity is not raised.
PackUnprepared(d, o, p, q, tie, c) ==
    LET take == Greedy(HeldBy(d, o, p), RowRank(tie), q)
        back(l) == WrittenBack(take, RowRank(tie), l)
    IN  [ReleaseReserved(d, o, p, q, tie) EXCEPT
            !.lot = [l \in Lot |-> [@[l] EXCEPT !.on_hand = @ - back(l)]],
            !.moved = [l \in Lot |-> @[l] - Given(take, l)],
            !.carton[c] = [status |-> "assigned", shipment |-> o,
                           items |-> [l \in Lot |-> @.items[l] + Given(take, l)]]]

\* pack_carton_from_reserved into carton c of order o's shipment.
PackReserved(d, o, p, q, tie, c) ==
    LET take == Greedy(HeldBy(d, o, p), RowRank(tie), q)
        back(l) == WrittenBack(take, RowRank(tie), l)
    IN  [d EXCEPT
            !.rows = LeaveRows(d, o, take),
            !.lot = [l \in Lot |->
                [d.lot[l] EXCEPT !.reserved = @ - back(l), !.on_hand = @ - back(l)]],
            !.moved = [l \in Lot |-> @[l] - Given(take, l)],
            !.line[o][p] = [quantity |-> @.quantity,
                            reserved |-> IF @.reserved < q THEN 0 ELSE @.reserved - q,
                            prepared |-> @.prepared + q],
            !.carton[c] = [status |-> "assigned", shipment |-> o,
                           items |-> [l \in Lot |-> @.items[l] + Given(take, l)]]]

(***************************************************************************)
(* reserve_stock_for_order.                                                *)
(***************************************************************************)
Needed(d, o, p) ==
    IF d.line[o][p].quantity > d.line[o][p].reserved
    THEN d.line[o][p].quantity - d.line[o][p].reserved ELSE 0

ReserveTake(d, o) == [l \in Lot |-> FefoTake(d, ProductOf[l], Needed(d, o, ProductOf[l]))[l]]

FreeSlots(d, o, l) == {k \in Slot : d.rows[l][<<o, k>>] = 0}

StockCovers(d, o) == \A p \in Product : Total(FefoAvailable(d, p)) >= Needed(d, o, p)
\* bound: a lot that gives units must have a free row slot
RowsFit(d, o) == \A l \in Lot : ReserveTake(d, o)[l] > 0 => FreeSlots(d, o, l) # {}

Reserve(d, o) ==
    LET take == ReserveTake(d, o)
        slot(l) == CHOOSE k \in FreeSlots(d, o, l) : TRUE
    IN  [d EXCEPT
            !.rows = [l \in Lot |-> IF take[l] = 0 THEN @[l]
                                    ELSE [d.rows[l] EXCEPT ![<<o, slot(l)>>] = take[l]]],
            !.lot = [l \in Lot |-> [d.lot[l] EXCEPT !.reserved = @ + take[l]]],
            !.line[o] = [p \in Product |-> [d.line[o][p] EXCEPT !.reserved = @ + Needed(d, o, p)]],
            !.order[o] = "reserved"]

\* The tables as request r sees them: lots and rows of now, which it locks, and
\* the lines it read.
Seen(d, r) == [d EXCEPT !.line[r.order] = r.lines]
Wanted(d, r) == {p \in Product : Needed(Seen(d, r), r.order, p) > 0}

\* What it saves of them: reserved_quantity of each line it reserved for.
ReserveSeen(d, r) ==
    LET held == Reserve(Seen(d, r), r.order)
    IN  [held EXCEPT !.line[r.order] = [p \in Product |->
            IF p \in Wanted(d, r)
            THEN [d.line[r.order][p] EXCEPT !.reserved = held.line[r.order][p].reserved]
            ELSE d.line[r.order][p]]]

\* The same for a pack: reserved_quantity and prepared_quantity of its line.
PackSeen(d, r, p, q, tie, c) ==
    LET packed == PackReserved(Seen(d, r), r.order, p, q, tie, c)
        saved == packed.line[r.order][p]
    IN  [packed EXCEPT !.line[r.order] =
            [d.line[r.order] EXCEPT ![p].reserved = saved.reserved,
                                    ![p].prepared = saved.prepared]]

(***************************************************************************)
(* Cartons.                                                                *)
(***************************************************************************)
NoItems == [l \in Lot |-> 0]
CartonProducts(d, c) == {ProductOf[l] : l \in {m \in Lot : d.carton[c].items[m] > 0}}
CartonUnits(d, c, p) ==
    Total([l \in Lot |-> IF ProductOf[l] = p THEN d.carton[c].items[l] ELSE 0])
Remaining(d, o, p) ==
    IF d.line[o][p].quantity > d.line[o][p].prepared
    THEN d.line[o][p].quantity - d.line[o][p].prepared ELSE 0
OrderDone(d, o) == \A p \in Product : Remaining(d, o, p) = 0

\* "open": any change; "planned": refused by orders.py, allowed by stock.py;
\* "closed": disputed, shipped or later, refused by both.
GateState == {"open", "planned", "closed"}

\* _prepare_carton for an optional carton c and shipment s.
CanPrepareCarton(d, c, s) ==
    /\ d.carton[c].status # "shipped"
    /\ s # None => gate[s] # "closed"
    /\ s # None => d.carton[c].shipment \in {None, s}
PreparedShipment(d, c, s) == IF s # None THEN s ELSE d.carton[c].shipment
PackedStatus(d, c, s) ==
    IF s # None THEN "assigned"
    ELSE IF d.carton[c].status \in {"absent", "draft"} THEN "picking" ELSE d.carton[c].status

----------------------------------------------------------------------------
Init ==
    /\ db = [lot |-> [l \in Lot |-> [status |-> "absent", on_hand |-> 0, reserved |-> 0]],
             moved |-> [l \in Lot |-> 0],
             rows |-> [l \in Lot |-> [s \in Order \X Slot |-> 0]],
             line |-> [o \in Order |-> [p \in Product |->
                         [quantity |-> 0, reserved |-> 0, prepared |-> 0]]],
             order |-> [o \in Order |-> "absent"],
             carton |-> [c \in Carton |->
                         [status |-> "absent", shipment |-> None, items |-> NoItems]]]
    /\ gate = [o \in Order |-> "open"]
    /\ request = [k \in Clerk |-> Idle]
    /\ txn = None

Quiet == txn = None /\ UNCHANGED <<gate, request, txn>>

\* receive_stock: a new lot, available or quarantined.
ReceiveStock(l, q, status) ==
    /\ Quiet
    /\ q > 0 /\ status # "absent"
    /\ db.lot[l].status = "absent"
    /\ db' = [db EXCEPT !.lot[l] = [status |-> status, on_hand |-> q, reserved |-> 0],
                        !.moved[l] = q]

\* The admin's release_quarantine.
ReleaseQuarantine(l) ==
    /\ Quiet
    /\ db.lot[l].status = "quarantined"
    /\ db' = [db EXCEPT !.lot[l].status = "available"]

\* bound: the units of a lot on the shelf and in cartons
LotUnits(d, l) == d.lot[l].on_hand + Total([c \in Carton |-> d.carton[c].items[l]])

\* Mutant: the checks against what is on hand and reserved are lost.
AdjustUnchecked(l, delta) ==
    /\ Quiet
    /\ delta # 0 /\ db.lot[l].status # "absent"
    /\ LotUnits(db, l) + delta <= MaxUnits
    /\ db' = [db EXCEPT !.lot[l].on_hand = @ + delta, !.moved[l] = @ + delta]

\* adjust_stock.
AdjustStock(l, delta) ==
    /\ Quiet
    /\ delta # 0 /\ db.lot[l].status # "absent"
    /\ db.lot[l].on_hand + delta >= 0
    /\ LotUnits(db, l) + delta <= MaxUnits
    /\ delta < 0 => db.lot[l].on_hand + delta >= db.lot[l].reserved
    /\ db' = [db EXCEPT !.lot[l].on_hand = @ + delta, !.moved[l] = @ + delta]

\* handle_stock_out_post.
StockOut(p, q) ==
    /\ Quiet
    /\ CanConsume(db, p, q)
    /\ db' = ConsumeStock(db, p, q)

\* pack_carton, into a new or an existing carton, for a shipment or for none.
PackCarton(c, p, q, s) ==
    /\ Quiet
    /\ s # None => db.order[s] # "absent"
    /\ CanPrepareCarton(db, c, s)
    /\ CanConsume(db, p, q)
    /\ LET take == FefoTake(db, p, q)
       IN  /\ \A l \in Lot : db.carton[c].items[l] + take[l] \in Units
           /\ db' = [ConsumeStock(db, p, q) EXCEPT
                        !.carton[c] = [status |-> PackedStatus(db, c, s),
                                       shipment |-> PreparedShipment(db, c, s),
                                       items |-> [l \in Lot |-> @.items[l] + take[l]]]]

\* unpack_carton's effect on the tables; the guard is its early returns.
CanUnpack(d, c) ==
    /\ d.carton[c].status \notin {"absent", "shipped"}
    /\ d.carton[c].shipment # None => gate[d.carton[c].shipment] # "closed"
    /\ d.carton[c].items # NoItems
    /\ \A l \in Lot : d.lot[l].on_hand + d.carton[c].items[l] \in Units
\* Mutant: the IN movement is written and the lot is not.
UnpackedMovementOnly(d, c) ==
    [d EXCEPT
        !.moved = [l \in Lot |-> @[l] + d.carton[c].items[l]],
        !.carton[c] = [status |-> "draft", shipment |-> None, items |-> NoItems]]
\* A carton already in draft returns from set_carton_status unsaved and keeps
\* its shipment.
Unpacked(d, c) ==
    [d EXCEPT
        !.lot = [l \in Lot |-> [d.lot[l] EXCEPT !.on_hand = @ + d.carton[c].items[l]]],
        !.moved = [l \in Lot |-> @[l] + d.carton[c].items[l]],
        !.carton[c] = [status |-> "draft",
                       shipment |-> IF @.status = "draft" THEN @.shipment ELSE None,
                       items |-> NoItems]]

UnpackCarton(c) ==
    /\ Quiet
    /\ CanUnpack(db, c)
    /\ db' = Unpacked(db, c)

\* The delete_carton branch of handle_carton_status_update.
DeleteCarton(c) ==
    /\ Quiet
    /\ db.carton[c].status \notin {"absent", "shipped"}
    /\ db.carton[c].shipment # None => gate[db.carton[c].shipment] # "closed"
    /\ db.carton[c].items # NoItems => CanUnpack(db, c)
    /\ db' = [(IF db.carton[c].items # NoItems THEN Unpacked(db, c) ELSE db) EXCEPT
                 !.carton[c] = [status |-> "absent", shipment |-> None, items |-> NoItems]]

\* The update_carton_status branch of the same handler.
UpdateCartonStatus(c, status) ==
    /\ Quiet
    /\ db.carton[c].status \notin {"absent", "shipped", status}
    /\ db.carton[c].shipment = None
    /\ status \in {"draft", "picking", "packed"}
    /\ db' = [db EXCEPT !.carton[c].status = status]

(***************************************************************************)
(* Orders.                                                                 *)
(***************************************************************************)
\* The create_order action of the scan page: no lines yet.
CreateOrder(o) ==
    /\ Quiet
    /\ db.order[o] = "absent"
    /\ db' = [db EXCEPT !.order[o] = "draft"]

\* create_public_order and create_portal_order: the lines, their reservation
\* and the chosen ready cartons in one transaction.
PlaceOrder(o, demand, ready) ==
    LET ordered == [db EXCEPT !.line[o] = [p \in Product |->
                        [quantity |-> demand[p], reserved |-> 0, prepared |-> 0]]]
        held == Reserve(ordered, o)
        inCartons == [p \in Product |->
            Total([x \in ready \X Lot |->
                IF ProductOf[x[2]] = p THEN db.carton[x[1]].items[x[2]] ELSE 0])]
        placed == [held EXCEPT
            !.line[o] = [p \in Product |-> [held.line[o][p] EXCEPT !.quantity = @ + inCartons[p],
                                                        !.prepared = @ + inCartons[p]]],
            !.carton = [c \in Carton |-> IF c \notin ready THEN @[c]
                          ELSE [db.carton[c] EXCEPT !.status = "assigned", !.shipment = o]]]
    IN  /\ Quiet
        /\ db.order[o] = "absent"
        /\ ready # {} \/ \E p \in Product : demand[p] > 0
        /\ \A c \in ready : db.carton[c].status = "packed" /\ db.carton[c].shipment = None
        /\ StockCovers(ordered, o) /\ RowsFit(ordered, o)
        /\ \A p \in Product : demand[p] + inCartons[p] \in Units
        /\ db' = IF OrderDone(placed, o) /\ \E p \in Product : placed.line[o][p].quantity > 0
                 THEN [placed EXCEPT !.order[o] = "ready"] ELSE placed

\* reserve_stock_for_order reads the lines ...
ReadLines(k, o, line) ==
    /\ txn = None
    /\ request' = [request EXCEPT ![k] =
          [pc |-> "reserving", order |-> o,
           lines |-> [p \in Product |-> [db.line[o][p] EXCEPT !.prepared = 0]],
           lost |-> {}, line |-> line]]
    /\ UNCHANGED <<db, gate, txn>>

\* ... for the admin action or POST orders/{id}/reserve/ ...
ReserveOrder(k, o) ==
    /\ request[k].pc = "idle"
    /\ db.order[o] \in {"draft", "reserved", "preparing"}
    /\ ReadLines(k, o, Idle)

\* ... then locks the lots and saves rows, lots, lines and order together ...
ReserveCommit(k) ==
    /\ txn = None
    /\ request[k].pc = "reserving"
    /\ LET r == request[k]
       IN  /\ r.lost \cap Wanted(db, r) = {}
           /\ StockCovers(Seen(db, r), r.order) /\ RowsFit(Seen(db, r), r.order)
           /\ db' = ReserveSeen(db, r)
    /\ request' = [request EXCEPT ![k] = Idle]
    /\ UNCHANGED <<gate, txn>>

\* ... or finds too little stock, which add_line answers with an undo ...
ReserveShort(k) ==
    /\ txn = None
    /\ request[k].pc = "reserving"
    /\ LET r == request[k]
       IN  /\ ~ StockCovers(Seen(db, r), r.order)
           /\ request' = [request EXCEPT ![k] =
                 IF r.line.pc = "saved" THEN [r.line EXCEPT !.pc = "short"] ELSE Idle]
    /\ UNCHANGED <<db, gate, txn>>

\* ... or fails on the foreign key of a line deleted since.
ReserveLost(k) ==
    /\ txn = None
    /\ request[k].pc = "reserving"
    /\ request[k].lost \cap Wanted(db, request[k]) # {}
    /\ request' = [request EXCEPT ![k] = Idle]
    /\ UNCHANGED <<db, gate, txn>>

\* The add_line action reads the line (get_or_create with quantity 0) ...
AddLineRead(k, o, p, q) ==
    /\ txn = None
    /\ request[k].pc = "idle"
    /\ db.order[o] \in {"draft", "reserved"}
    /\ q > 0 /\ db.line[o][p].quantity + q \in Units
    /\ request' = [request EXCEPT ![k] =
          [pc |-> "read", order |-> o, product |-> p,
           previous |-> db.line[o][p].quantity,
           quantity |-> db.line[o][p].quantity + q]]
    /\ UNCHANGED <<db, gate, txn>>

\* ... saves the new quantity ...
AddLineSave(k) ==
    /\ txn = None
    /\ request[k].pc = "read"
    /\ LET a == request[k]
       IN  db' = [db EXCEPT !.line[a.order][a.product].quantity = a.quantity]
    /\ request' = [request EXCEPT ![k] =
          [pc |-> "saved", order |-> @.order, product |-> @.product, previous |-> @.previous]]
    /\ UNCHANGED <<gate, txn>>

\* ... reserves what the order lacks, in the status it was loaded with ...
AddLineReserve(k) ==
    /\ request[k].pc \in {"saved", "orphan"}
    /\ ReadLines(k, request[k].order, request[k])

\* Mutant: the rows stay behind the deleted line.
DeleteLineOnly(o, p) ==
    [db EXCEPT !.line[o][p] = [quantity |-> 0, reserved |-> 0, prepared |-> 0]]

\* ... or, when stock is short, writes the old quantity back; a line that had
\* none is deleted, and its reservation rows with it (on_delete=CASCADE).
DeleteLine(o, p) ==
    [db EXCEPT
        !.line[o][p] = [quantity |-> 0, reserved |-> 0, prepared |-> 0],
        !.rows = [l \in Lot |-> [s \in Order \X Slot |->
                    IF s[1] = o /\ ProductOf[l] = p THEN 0 ELSE @[l][s]]]]

\* The others who hold the deleted line: a save of theirs finds no row and
\* raises, an undo has nothing to undo, a row or a movement has no line.
Orphaned(a, p) ==
    IF a.pc = "saved" /\ a.product = p THEN [a EXCEPT !.pc = "orphan"] ELSE a
WithoutLine(r, p) ==
    CASE r.pc = "reserving" -> [r EXCEPT !.lost = @ \cup {p}, !.line = Orphaned(@, p)]
      [] r.pc = "editing" -> [r EXCEPT !.lost = @ \cup {p}]
      [] r.pc \in {"read", "short"} /\ r.product = p -> Idle
      [] OTHER -> Orphaned(r, p)
LineGone(k, o, p) ==
    [j \in Clerk |->
        IF j = k THEN Idle
        ELSE IF request[j].pc = "idle" \/ request[j].order # o THEN request[j]
        ELSE WithoutLine(request[j], p)]

AddLineUndo(k) ==
    /\ txn = None
    /\ request[k].pc = "short"
    /\ LET a == request[k]
       IN  \/ /\ a.previous > 0
              /\ db' = [db EXCEPT !.line[a.order][a.product].quantity = a.previous]
              /\ request' = [request EXCEPT ![k] = Idle]
           \/ /\ a.previous = 0
              /\ db' = DeleteLine(a.order, a.product)
              /\ request' = LineGone(k, a.order, a.product)
    /\ UNCHANGED <<gate, txn>>

\* The worker dies between two commits, or before its transaction commits.
RequestCrash(k) ==
    /\ txn = None
    /\ request[k].pc # "idle"
    /\ request' = [request EXCEPT ![k] = Idle]
    /\ UNCHANGED <<db, gate, txn>>

(***************************************************************************)
(* The shipment edit page of an order's shipment.                          *)
(***************************************************************************)
\* The form's transaction reads the lines of the related order ...
EditRead(k, o) ==
    /\ txn = None
    /\ request[k].pc = "idle"
    /\ db.order[o] # "absent" /\ gate[o] = "open"
    /\ request' = [request EXCEPT ![k] =
          [pc |-> "editing", order |-> o, lines |-> db.line[o], lost |-> {}]]
    /\ UNCHANGED <<db, gate, txn>>

\* ... packs a product line: pack_carton_from_reserved into a new carton ...
EditPackReserved(k, p, q, c, tie) ==
    /\ txn = None
    /\ request[k].pc = "editing"
    /\ LET r == request[k]
       IN  /\ p \notin r.lost
           /\ q > 0 /\ q <= Remaining(Seen(db, r), r.order, p) /\ q <= HeldUnits(db, r.order, p)
           /\ db.carton[c].status = "absent"
           /\ db' = PackSeen(db, r, p, q, tie, c)
    /\ request' = [request EXCEPT ![k] = Idle]
    /\ UNCHANGED <<gate, txn>>

\* ... or refuses it: more than the line lacks, or than its rows hold.
EditRefused(k) ==
    /\ txn = None
    /\ request[k].pc = "editing"
    /\ request' = [request EXCEPT ![k] = Idle]
    /\ UNCHANGED <<db, gate, txn>>

\* A carton left out of the selection goes back to packed.
EditRemoveCarton(o, c) ==
    /\ Quiet
    /\ gate[o] = "open"
    /\ db.carton[c].shipment = o /\ db.carton[c].status # "shipped"
    /\ db' = [db EXCEPT
                 !.carton[c].status = IF @ = "assigned" THEN "packed" ELSE @,
                 !.carton[c].shipment = None]

\* A packed carton added to the selection.
EditAddCarton(o, c) ==
    /\ Quiet
    /\ db.order[o] # "absent" /\ gate[o] = "open"
    /\ db.carton[c].status = "packed" /\ db.carton[c].shipment = None
    /\ db' = [db EXCEPT !.carton[c].status = "assigned", !.carton[c].shipment = o]

(***************************************************************************)
(* prepare_order.                                                          *)
(***************************************************************************)
PrepareBegin(o) ==
    /\ txn = None
    /\ db.order[o] \in {"reserved", "preparing"}
    /\ gate[o] = "open"
    /\ txn' = [order |-> o, stage |-> "assign", bin |-> None, saved |-> db]
    /\ UNCHANGED <<db, gate, request>>

\* A ready carton of one ordered product that fits what is left of the line.
Assignable(o, c) ==
    /\ db.carton[c].status = "packed" /\ db.carton[c].shipment = None
    /\ \E p \in Product :
          /\ CartonProducts(db, c) = {p}
          /\ CartonUnits(db, c, p) <= Remaining(db, o, p)

NextReadyCarton(o, c) ==
    /\ Assignable(o, c)
    /\ \A b \in Carton : Assignable(o, b) => CodeRank[c] <= CodeRank[b]

\* A line without reservation releases nothing; another needs the units in rows.
CanReleaseFor(o, p, q) == db.line[o][p].reserved > 0 => HeldUnits(db, o, p) >= q

\* One turn of the loop of assign_ready_cartons_to_order.
AssignReadyCarton(c, p, tie) ==
    /\ txn # None /\ txn.stage = "assign"
    /\ NextReadyCarton(txn.order, c) /\ CartonProducts(db, c) = {p}
    /\ LET o == txn.order
           q == CartonUnits(db, c, p)
           assigned == [db EXCEPT !.carton[c].status = "assigned", !.carton[c].shipment = o,
                                  !.line[o][p].prepared = @ + q]
       IN  /\ CanReleaseFor(o, p, q)
           /\ db' = IF db.line[o][p].reserved > 0
                    THEN ReleaseReserved(assigned, o, p, q, tie) ELSE assigned
    /\ UNCHANGED <<gate, request, txn>>

\* build_packing_bins found bins for what the cartons did not cover.
StartPacking ==
    /\ txn # None /\ txn.stage = "assign"
    /\ \A c \in Carton : ~ Assignable(txn.order, c)
    /\ txn' = [txn EXCEPT !.stage = "pack"]
    /\ UNCHANGED <<db, gate, request>>

\* One entry of a bin: q units of p into the bin's carton, new for its first entry.
PackBinEntry(p, q, c, tie) ==
    /\ txn # None /\ txn.stage = "pack"
    /\ q > 0 /\ q <= Remaining(db, txn.order, p)
    /\ q <= HeldUnits(db, txn.order, p)
    /\ \/ db.carton[c].status = "absent"
       \/ c = txn.bin /\ CartonUnits(db, c, p) = 0
    /\ db' = PackReserved(db, txn.order, p, q, tie, c)
    /\ txn' = [txn EXCEPT !.bin = c]
    /\ UNCHANGED <<gate, request>>

\* The bins cover all that is left of the lines, and what they cannot hold raises
\* before anything is packed: with no other request inside, it never stays PREPARING.
PrepareFinish ==
    /\ txn # None /\ txn.stage = "pack"
    /\ OrderDone(db, txn.order)
    /\ db' = [db EXCEPT !.order[txn.order] = "ready"]
    /\ txn' = None
    /\ UNCHANGED <<gate, request>>

Rollback == db' = txn.saved /\ txn' = None /\ UNCHANGED <<gate, request>>

\* A unit that no carton format holds, or data missing to compute the bins.
PackingErrors ==
    /\ txn # None /\ txn.stage = "assign"
    /\ \A c \in Carton : ~ Assignable(txn.order, c)
    /\ ~ OrderDone(db, txn.order)
    /\ Rollback

\* release_reserved_stock or consume_reserved_stock finds too few rows.
ReservationShort ==
    /\ txn # None
    /\ \/ /\ txn.stage = "assign"
          /\ \E c \in Carton, p \in Product :
                /\ NextReadyCarton(txn.order, c) /\ CartonProducts(db, c) = {p}
                /\ ~ CanReleaseFor(txn.order, p, CartonUnits(db, c, p))
       \/ /\ txn.stage = "pack"
          /\ \E p \in Product : HeldUnits(db, txn.order, p) < Remaining(db, txn.order, p)
    /\ Rollback

(***************************************************************************)
(* What the tracking handlers do to a shipment, as stock code sees it.     *)
(***************************************************************************)
SetCartons(o, from, to) ==
    [db EXCEPT !.carton = [c \in Carton |->
        IF @[c].shipment = o /\ @[c].status \in from THEN [db.carton[c] EXCEPT !.status = to] ELSE @[c]]]

ShipmentPlanned(o) ==
    /\ txn = None
    /\ db.order[o] # "absent" /\ gate[o] = "open"
    /\ \E c \in Carton : db.carton[c].shipment = o
    /\ \A c \in Carton : db.carton[c].shipment = o => db.carton[c].status = "assigned"
    /\ gate' = [gate EXCEPT ![o] = "planned"]
    /\ UNCHANGED <<db, request, txn>>

ShipmentShipped(o) ==
    /\ txn = None
    /\ gate[o] = "planned"
    /\ db' = SetCartons(o, CartonStatus \ {"absent", "shipped"}, "shipped")
    /\ gate' = [gate EXCEPT ![o] = "closed"]
    /\ UNCHANGED <<request, txn>>

ShipmentDisputed(o) ==
    /\ txn = None
    /\ db.order[o] # "absent"
    /\ gate' = [gate EXCEPT ![o] = "closed"]
    /\ UNCHANGED <<db, request, txn>>

DisputeResolved(o) ==
    /\ txn = None
    /\ gate[o] # "open"
    /\ db' = SetCartons(o, {"shipped"}, "assigned")
    /\ gate' = [gate EXCEPT ![o] = "open"]
    /\ UNCHANGED <<request, txn>>

----------------------------------------------------------------------------
StockStep ==
    \/ \E l \in Lot, q \in Units, st \in LotStatus : ReceiveStock(l, q, st)
    \/ \E l \in Lot : ReleaseQuarantine(l)
    \/ \E l \in Lot, delta \in -MaxUnits .. MaxUnits : AdjustStock(l, delta)
    \/ \E p \in Product, q \in Units : StockOut(p, q)

CartonStep ==
    \/ \E c \in Carton, p \in Product, q \in Units, s \in Order \cup {None} :
          PackCarton(c, p, q, s)
    \/ \E c \in Carton : UnpackCarton(c) \/ DeleteCarton(c)
    \/ \E c \in Carton, st \in CartonStatus : UpdateCartonStatus(c, st)

OrderStep ==
    \/ \E o \in Order : CreateOrder(o)
    \/ \E o \in Order, demand \in [Product -> Units], ready \in SUBSET Carton :
          PlaceOrder(o, demand, ready)
    \/ \E o \in Order, c \in Carton : EditRemoveCarton(o, c) \/ EditAddCarton(o, c)

PrepareStep ==
    \/ \E o \in Order : PrepareBegin(o)
    \/ \E c \in Carton, p \in Product, tie \in TieBreak : AssignReadyCarton(c, p, tie)
    \/ \E p \in Product, q \in Units, c \in Carton, tie \in TieBreak : PackBinEntry(p, q, c, tie)
    \/ StartPacking \/ PrepareFinish \/ PackingErrors \/ ReservationShort

ShipmentStep ==
    \E o \in Order : \/ ShipmentPlanned(o) \/ ShipmentShipped(o)
                     \/ ShipmentDisputed(o) \/ DisputeResolved(o)

RequestStart ==
    \E k \in Clerk, o \in Order :
        \/ ReserveOrder(k, o) \/ EditRead(k, o)
        \/ \E p \in Product, q \in Units : AddLineRead(k, o, p, q)

RequestStep ==
    \E k \in Clerk :
        \/ AddLineSave(k) \/ AddLineReserve(k) \/ AddLineUndo(k)
        \/ ReserveCommit(k) \/ ReserveShort(k) \/ ReserveLost(k)
        \/ EditRefused(k)
        \/ \E p \in Product, q \in Units, c \in Carton, tie \in TieBreak :
              EditPackReserved(k, p, q, c, tie)

OtherStep == StockStep \/ CartonStep \/ OrderStep \/ PrepareStep \/ ShipmentStep \/ RequestStart

\* One request at a time: nothing runs inside a request of a clerk.
NoRequest == \A k \in Clerk : request[k].pc = "idle"
Next == (NoRequest /\ OtherStep) \/ RequestStep

\* Requests overlap and workers die inside them.
Overlap == OtherStep \/ RequestStep \/ (\E k \in Clerk : RequestCrash(k))

Spec == Init /\ [][Next]_vars
OverlapSpec == Init /\ [][Overlap]_vars

----------------------------------------------------------------------------
(***************************************************************************)
(* Properties.                                                             *)
(***************************************************************************)
\* The tables hold what their columns may hold.
TypeOK ==
    /\ db \in Tables
    /\ gate \in [Order -> GateState]
    /\ request \in [Clerk -> RequestState]
    /\ txn \in {None} \cup PrepareState

\* What the reservation rows promise of a lot never exceeds its
\* quantity_reserved, nor that its quantity_on_hand: no order holds goods
\* that are not there, whatever was adjusted, packed or rolled back since.
Backed(d) ==
    \A l \in Lot : /\ Total(d.rows[l]) <= d.lot[l].reserved
                   /\ d.lot[l].reserved <= d.lot[l].on_hand
ReservationsBacked == Backed(db) /\ (txn # None => Backed(txn.saved))

\* reserved_quantity of an order line is the sum of the line's reservation rows.
Counted(d, o, p) == d.line[o][p].reserved = HeldUnits(d, o, p)
LineReservationsMatch == \A o \in Order, p \in Product : Counted(db, o, p)

\* A line stops counting its reservation rows only when a reservation or an edit
\* commits that read the line before another request changed what is reserved.
\* (`Committed`: what prepare_order does counts from its commit.)
Committed == IF txn = None THEN db ELSE txn.saved
StaleSave(k, o, p) ==
    /\ request[k].pc \in {"reserving", "editing"} /\ request[k].order = o
    /\ request[k].lines[p].reserved # db.line[o][p].reserved
    /\ request'[k] = Idle
OnlyStaleCopiesMiscount ==
    [][\A o \in Order, p \in Product :
          Counted(Committed, o, p) /\ ~ Counted(Committed, o, p)'
          => \E k \in Clerk : StaleSave(k, o, p)]_vars

\* prepare_order never runs out of reserved units half way: while it runs, the
\* rows of every line cover what the line still lacks.
PreparationNeverShort ==
    txn # None => \A p \in Product :
        HeldUnits(db, txn.order, p) >= Remaining(db, txn.order, p)

\* The stock movements of a lot add up to its quantity_on_hand.
MovementsExplainStock == \A l \in Lot : db.moved[l] = db.lot[l].on_hand

\* The movements never claim more stock than the lot shows.
Drift(d, l) == d.lot[l].on_hand - d.moved[l]
MovementsNeverExceedStock == \A l \in Lot : Drift(db, l) >= 0

\* A lot gains units its movements do not explain only where two rows of one
\* line share it, so that two stale copies of the lot are saved.
OnlySharedLotsDrift ==
    [][\A l \in Lot : Drift(db, l)' > Drift(db, l) =>
          \E o \in Order, j, k \in Slot :
             j # k /\ db.rows[l][<<o, j>>] > 0 /\ db.rows[l][<<o, k>>] > 0]_vars

\* First expired, first out: a step that packs or reserves free units of a lot
\* leaves none in a lot of the product that expires sooner.
Free(d, l) == d.lot[l].on_hand - d.lot[l].reserved
FefoRespected ==
    [][\A l, m \in Lot :
          /\ txn = None
          /\ ProductOf[l] = ProductOf[m] /\ FefoRank[m] < FefoRank[l]
          /\ db.lot[m].status = "available"
          /\ db.lot[l].status = "available" /\ Free(db, l)' < Free(db, l)
          /\ \/ db'.lot[l].reserved > db.lot[l].reserved
             \/ \E c \in Carton : db'.carton[c].items[l] > db.carton[c].items[l]
          => Free(db, m)' = 0]_vars
=============================================================================
