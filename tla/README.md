# Verification of asf-wms

TLA+ specifications of the warehouse and shipment management system in this
repository (Django; `wms/`, `api/`, `contacts/`), TLC models that check them on
small instances, and TLAPS proofs about them for instances of any size. Paths
are those of the repository, below `src/` of this checkout.

    tlc -workers 2 -config StockSerial.cfg StockMC.tla    # one run
    tlapm StockProofs.tla                                 # one module's proofs

`PROJECT.json` lists the runs, for every definition the lines it models, for
every property a change of the code that breaks it, the hazards the properties
are aimed at, and the theorems.

## 1. The system

The program has no threads of its own. What runs concurrently are web requests
in several workers and command-line jobs, all against one MySQL database under
Django's READ COMMITTED. Connections are in autocommit mode and
`ATOMIC_REQUESTS` is not set (`asf_wms/settings.py:144`): every statement is a
commit unless the code opens a transaction, and a row that was loaded is a copy
that grows stale. Most handlers load rows, check the copies, and save some of
their columns (`update_fields`).

| Component | State | Operations | Interacts with | What is hard |
|---|---|---|---|---|
| Stock and lots (`domain/stock.py`) | `ProductLot` quantity and reservation, `StockMovement`, `CartonItem` | receive, adjust, transfer, consume (FEFO), pack, unpack, release from quarantine | orders reserve its lots; cartons hold its units | several lots and counters per operation; stale copies of a lot |
| Orders and reservations (`domain/orders.py`, `order_scan_handlers.py`, `order_view_handlers.py`, `portal_order_handlers.py`) | `Order`, `OrderLine` counters, `OrderReservation` | create, add a line, reserve, release, consume, assign ready cartons, prepare, create the shipment | lots, cartons, the order's shipment | counters that must agree; a long transaction that may fail half way; a compensation instead of a transaction; a choice made on a page and used later |
| Cartons, shipments, tracking and disputes (`shipment_status.py`, `shipment_tracking_handlers.py`, `carton_handlers.py`, `scan_shipment_handlers.py`, `planning/shipment_updates.py`) | `Carton.status`, `Shipment.status`, `ready_at`, `is_disputed`, `closed_at`, `ShipmentTrackingEvent` | create, edit, label, delete, unpack; track, dispute, resolve, close; apply a planning | stock packs into shipments; the planning moves them; signals notify | a derived status, written from stale copies; several commits per request |
| Email queue (`emailing.py`) | `IntegrationEvent` | enqueue; select, claim, send, save | signals and handlers enqueue; a scheduler and operators run it | overlapping runs, leases, retries, crashes |
| Document scan queue (`document_scan_queue.py`) | `IntegrationEvent`, the document's scan status | enqueue; select, claim, scan, save | uploads, copies of order documents on shipments | the same, with a second row to write and a file two rows share |
| Print artifact synchronization (`print_pack_sync.py`) | `GeneratedPrintArtifact` | upload, count attempts | print packs | no claim at all |
| Reference sequences (`reference_sequences.py`, `domain/stock.py:139`) | `ReceiptSequence`, `ShipmentSequence`, `CartonSequence` | next number, promotion of temporary references | receipts, shipments, cartons | two requests create one sequence; two promote one draft |
| Receipts (`receipt_handlers.py`, `domain/stock.py:415`, `import_services_pallet.py`) | `Receipt`, `ReceiptLine` | create, add a line, receive a line, import a listing | lots | the check of a copy, then a write |
| Planning versions and publication (`planning/versioning.py`, `operator_mutations.py`, `snapshots.py`, `communications.py`, `views_planning.py`) | `PlanningRun`, `PlanningVersion`, `PlanningAssignment`, `CommunicationDraft` | prepare, solve, clone, edit, publish, draft messages, apply | shipments | two publications of one run; edits checked before they are written |
| Planning solver (`planning/solver.py`, `rules.py`) | none | constraints, three passes over the solution | versions | the passes must not break what the solver met |
| Billing (`billing_document_handlers.py`, `views_scan_billing.py`) | `BillingDocument`, its shipments, payments | draft, issue, pay, correct, replace | shipments, associations | three commits per payment; forms rendered with an old status |
| Account requests (`account_request_handlers.py`, `views_public_order.py`, `admin_account_request_approval.py`) | the throttle cache, `PublicAccountRequest`, users | submit, throttle, approve, reject | users, portal | a cache per process; a lookup before a transaction |
| Contacts and shipment parties (`portal_recipient_sync.py`, `scan_admin_contacts_cockpit.py`, `contacts` merges) | organizations, persons, links, authorizations, defaults | synchronize, edit, merge, set defaults | shipments, portal | cascades and defaults in an order that matters |
| Packing and kits (`scan_pack_helpers.py`, `pack_handlers.py`, `kit_components.py`) | kit rows, none for the algorithms | expand a kit, spread lines over cartons | stock | cycles between kits; divisions by nothing known |
| Signals and notifications (`signals.py`) | none of its own | status changes enqueue emails after the commit | all of the above, the email queue | a copy compared before, told after |
| REST API, printing, exports, imports, pages, forms, admin | none of their own | presentation | all | not concurrent state |

What makes each of the modelled components correct:

* **Stock and orders.** What is promised is on the shelf; lines, reservation
  rows and lots agree; movements explain quantities; soonest expiry leaves
  first; an order's preparation never runs out half way; what an order counts as
  prepared is in its cartons.
* **Cartons and shipments.** A shipment's readiness is what its cartons say; a
  status stands on the tracking events that lead to it; cartons and shipment
  leave together; a case is closed once, complete.
* **Queues.** One run holds a job; nothing is done twice without need; what a
  row says was earned; everything queued comes to an end.
* **Records.** A number is given once; a receipt is settled once; what an
  invoice says follows from its payments; parties, kits and cartons stay
  coherent.
* **Planning.** The passes keep what the solver met; one version of a run is
  published; checked edits keep a plan feasible; a published plan is frozen.
* **Requests from outside.** A sender passes once per window; an email has one
  account; every change of an order is told once.

## 2. Modules

    Allocation <- Stock <- StockMC, StockProofs
    CaseFile <= Shipping <- ShippingMC, ShippingProofs
    LeasedQueue <= EmailQueue, DocumentScanQueue  (EmailQueueProofs, DocumentScanQueueProofs)
    EmailQueue, DocumentScanQueue, PrintArtifactSync, PublicForms, Accounts, Notices <- JobsMC
    PrintArtifactSync, PublicForms, Accounts, Notices <- JobsProofs
    PlanningRules <- PlanningSolver, PlanningVersions <- PlanningMC; PlanningProofs
    Kits <- PackingBins
    ReferenceSequences, Receipts, Billing, ShipmentParties, PackingBins, OrderDesk <- RecordsMC
    ReferenceSequences, Receipts, OrderDesk, Billing, ShipmentParties, PackingBins <- RecordsProofs
    FoldFacts <- JobsProofs, PlanningProofs, RecordsProofs

(`<-` is EXTENDS, `<=` is implemented by.) No module declares a RECURSIVE
operator. Components that share no rows are checked in one MC module: a rigid
variable (`job`, `desk`, `office`) says which of them a behaviour is about, and
the others stay as they are. Nothing is lost by that, since no action of one
reads a variable of another, except that `PackingBins` reads the kits.

### Allocation and Stock

`Stock` models `domain/stock.py`, `domain/orders.py` and their callers. `db`
is the tables: lots (`on_hand`, `reserved`), `moved` (the sum of a lot's
movements), `rows` (reservation rows), order lines (`quantity`, `reserved`,
`prepared`), orders, cartons with their contents. A transaction is one step,
with three exceptions. `prepare_order`, whose loop over cartons and bins is a
sequence of steps with `txn` holding the snapshot a rollback restores.
`add_line`, which commits three times: `AddLineRead`, `AddLineSave`, then
`AddLineReserve`, and `AddLineUndo` when stock was short. And what locks lots
and rows but works on copies of the order's lines that nothing locks
(`domain/orders.py:236`, `scan_shipment_handlers.py:430`): a reservation is
`ReadLines` and then `ReserveCommit`, `ReserveShort` or `ReserveLost`, a
shipment edit `EditRead` and then `EditPackReserved` or `EditRefused`. `Seen` is
the tables with the lines as the request read them; of those it saves the
columns of `update_fields` (`ReserveSeen`, `PackSeen`). A clerk may die between
two of these steps (`RequestCrash`). `gate` is what the order's shipment lets
stock operations do; how it gets there is `Shipping`'s subject.

The loop `for lot in lots: take = min(...)` that appears four times in the code
is `Allocation!Greedy`, over lots in FEFO order or over reservation rows in
release order. `select_related("product_lot")` gives each reservation row its
own copy of the lot, and a row's save writes that copy: `WrittenBack` is what
the lot keeps when two rows of one line share it, `Given` what was really taken.

`Spec` is requests one at a time, `OverlapSpec` lets reservations, `add_line`
requests and shipment edits interleave with everything else and die.

Observation: two reservations of one order that read its lines before either
commits both find its units missing, hold rows twice, and count them once; a
reservation beside a shipment edit, or beside the undo of `add_line`, parts line
and rows in the same way. `OnlyStaleCopiesMiscount` says that nothing else does:
a line and its rows part only where a request saves a copy that was overtaken.

Not interleaved: `prepare_order` is several steps but runs alone. Other requests
may have read before it and commit after it, but none commits inside it, so its
own copies of the lines are never stale (and its branch that leaves the order
PREPARING, `domain/orders.py:526`, is never taken: bins cover all that is left,
and what they cannot hold raises). The portal's `PlaceOrder` is one step as
well: nobody else sees its order before it commits. `adjust_stock`,
`unpack_carton` and `transfer_stock` are one step each although they lock
nothing: the update that two of them lose is not modelled (`PROJECT.json` lists
it under hazards). Left out: locations (`transfer_stock` changes nothing else), prices, the parties
and the documents of an order, the computation of the bins (any bins may come;
`PackingBins` is about them).

### OrderDesk

How an order comes to its shipment and its ready cartons: the portal, the page
that makes an order, the clerks' list, the action of the administration and
`prepare_order`. Orders are for one product and a ready carton holds one unit.
An asker loads, decides on what was loaded and commits later; `mixed` says that
a request wrote what it had decided before another changed it, `severed` that
one died between two commits. `AddUnit` is the whole `add_line` page in one step;
its commits (`order_scan_handlers.py:135-153`) are taken apart in `Stock`.

Observations. A carton that the shipment page takes out stays counted in its
order and may be counted in another's; one that it puts in is not counted
(`removed` keeps that apart). `create_shipment` is two commits without a lock,
so an order may be left with a shipment nobody links when two clerks overlap or
the worker dies. `prepare_order` reads ready cartons without a lock.

### CaseFile and Shipping

`Shipping` has one row per shipment and per carton, the milestones each shipment
has tracking events of (`seen`), its latest event, and the requests in progress.
A request is a loaded copy (`LoadShipment`, `LoadCarton`) and then one step per
commit: `RecordTracking`, `SaveTrackedStatus`, `ShipCarton` for every carton of
a boarding; `ResolveDispute`, `RelabelCarton`, `SyncReadyState`; and so on.
Guards read the copy; a save writes its `update_fields` and nothing else, so
that a save of `status` leaves another request's `closed_at` alone. A query
made right after a commit is one step with it. `Synced` is
`sync_shipment_ready_state`, from whatever copy the handler has. `Crash` ends a
request between two of its commits; it is in `CrashSpec` and not in `Spec`.

Statuses are those of the code, with `draft` for a carton's draft and picking,
and `absent` for no row. Left out: references, archiving, parties, documents,
what cartons hold.

`CaseFile` is the promise to whoever follows a case on the tracking board: the
four milestones are reached in order and never lost, and the case is closed only
with all four. `Shipping` implements it (`CaseSpec`). An observation:
`can_close` asks for the four events and for `DELIVERED`
(`shipment_view_helpers.py:403-445`); `MilestonesBehindStatus` says that the
second implies the first.

### The jobs: EmailQueue, DocumentScanQueue, PrintArtifactSync

In each, the rows are as committed and a run has what it holds in memory. A run
of a queue reads the candidates as they are then, claims them one by one with a
conditional UPDATE, and works through what it claimed; `Crash` is a process
that dies, or an exception the loop does not catch. Time is reduced to what the
code compares: a lease is stale or not when a run starts, a retry is due or not.
Counters stop at the last value the code tells apart (`MaxAttempts`, `SyncMax`,
2 for `confirmed`). A batch above 50 events is read in several queries by the
code and in one by the model; the claim decides in both.

`DocumentScanQueue` adds the document, which is a second row in a commit of its
own, the copies of an order's clean documents that share its file
(`order_helpers.py`), and deletions. `PrintArtifactSync` claims nothing, and
`shared` says which artifacts two runs held at once.

`LeasedQueue` is what the first two promise: a job is held by one worker as long
as its lease lasts, a job that is done is not taken again, and only its holder
settles it. Both implement it (`EmailsAreLeased`, `ScansAreLeased`).

### PublicForms, Accounts, Notices

`PublicForms`: the two keys of a slot in the cache of each process (the default
cache is per process), taken one after the other and given back by whoever got
them, around the check for a pending request. `overran`: a form was under way
longer than a slot lasts. Left out: the pending check on the user name asked
for, and the volunteers' requests, which follow the same pattern.

`Accounts`: which account a request finds, makes or takes up, with the lookup
before the transaction; `crossed`: a request was approved on what another
approval had changed. Observations: the form of the administration saves the
status approved even when the approval is skipped; overlapping approvals can
make two accounts for one email, which nothing keeps unique. Not modelled:
deactivated users, which an approval of an association leaves deactivated.

`Notices`: the capture before a save, the comparison after it, the send at the
commit, for a row that two requests save with copies, partial saves and
transactions; `blurred`: a request saved what another had overtaken, or died
with a notice to send. Observations: a stale copy saved with `update_fields`
tells of a change that was not made; a process that dies between the commit and
its hook loses the notice. Left out: recipients, the notices of tracking events,
the counter of changes, the hooks on profiles.

### PlanningRules, PlanningSolver, PlanningVersions

`PlanningRules` has the constraints put to OR-Tools (`Feasible`) and the rules a
manual edit is checked against. The objectives are left out: a solver that runs
out of time returns any feasible plan, and so does the model. A start three
hours before an early flight wraps to the evening, as in the code
(`rules.py:186`). `PlanningSolver` translates the three passes over the
solution one by one, on whole weeks as input; where the code sorts two lists and
zips them, an element's place is the number of those that go before it. `IsWeek`
is what the fields of the snapshots can hold.

`PlanningVersions` is the run's versions under requests that read, check and
write while others commit, with publication followed lock by lock.
`careless` are the versions with an edit nobody checked, or that others overtook
between check and write; `overlapped` the pairs of versions published at the
same time; `crossed` those whose messages two operators generated at once. A
shipment may be assigned twice by two operators
(`operator_mutations.py:104-124`); no property forbids it, since no document
does. The candidates that the editor offers (`build_editor_candidates`), the
exports and the parameter sets are left out.

### ReferenceSequences, Receipts, Billing

`ReferenceSequences`: one family of numbers at a time, its row, the lock on it,
and requests that take a number in a transaction of their own or inside that of
the record; `raced`: two requests held a temporary copy of one record. Left out:
references typed by hand, cartons renamed after their contents, numbers of
quotes.

`Receipts`: one receipt, its lines and the lots they made; `overlapped`: two
requests worked on it at once; `cut`: an import died between a line and its lot.
Left out: allocations to shipments, deletions, statuses typed in the admin.

`Billing`: an association's documents, the pages clerks look at, and requests
sent from them; a payment, its status and its update are three commits;
`disturbed`: a request changed the document behind another's back. Left out:
refunds beyond what was paid, prices, exchange rates, numbers, issues raised
from the portal.

### ShipmentParties, Kits, PackingBins

`ShipmentParties`: the registry of one stopover, every operation one transaction
with its hooks after the commit, one operation at a time. Left out: several
stopovers, organizations that are both shipper and receiver, shippers switched
off or edited, persons without an organization, rows the portal leaves inactive,
imports, and overlapping requests (MySQL ignores the conditional unique
constraints that would decide them).

The contact form can replace an existing person: it then moves them to another
structure (`admin_contacts_contact_service.py:178`, `:332`) and leaves the seat
they had, so they go on answering for the structure they left, although the
seat's own validation would refuse it if it were saved again
(`models_domain/shipment_parties.py:170`). `Rehomed` is that move; `strayed`
remembers whom it happened to, and `PartiesCoherent` asks of everybody else that
they answer only where they belong: no merge, hook or portal request changes
that. The import of contacts moves persons likewise
(`import_services_contacts.py:142`).

Other observations: the cockpit's merge loses
the default of every link it moves; merging two shippers whose links both have a
default is refused, because the moved authorization is saved before the other
default is cleared; an active correspondent can be neither replaced by the
contact form nor merged away by the merge of contacts; a structure that was
merged away comes back through the portal; a form left inactive is always
refused.

`Kits`: the rows, forms validated against what was committed before and saved
when others may have been (`overtaken`), the expansion of a kit and its
measures. `PackingBins`: what the preparation page refuses and packs, how lines
are spread over cartons, and the number announced on the portal. Measures are
whole numbers; the rounding of volumes is left out. With fractional volumes the
page divides floats (`scan_pack_helpers.py:54`, `:111`, `:141`) and the portal
decimals (`order_helpers.py:97`), and the two floor divisions may differ:
`BinsHold` says nothing of that.

## 3. Runs

| Run | Instance | Distinct states | Shows |
|---|---|---|---|
| `stock_serial` | 2 lots, 1 order, 2 cartons, 2 units | 384 thousand | `PreparationNeverShort`, `MovementsNeverExceedStock`, `OnlySharedLotsDrift`, `FefoRespected`, one request at a time |
| `stock_overlap` | 1 lot, 1 order, 1 carton, 2 clerks, 2 units | 1.6 million | `ReservationsBacked`, `OnlyStaleCopiesMiscount` with reservations, `add_line` requests and shipment edits that interleave and die |
| `shipping_serial` | 1 shipment, 3 cartons, 1 request | 39 thousand | `ReadinessMatchesCartons`, `ShippedTogether` |
| `shipping_overlap` | 1 shipment, 1 carton, 2 requests that may die | 2.4 million | `MilestonesBehindStatus`, `CaseSpec`, `LockLostToStaleCopiesOnly` |
| `jobs_overlap` | 3 runs on an email and on a document, 2 runs on 2 artifacts, 3 forms of 2 senders on 2 processes, 3 requests for an account with 2 approvers, 2 clerks on one order | 982 thousand | `DuplicateOnlyAfterLapse`, `OutcomesEarned`, `EmailsAreLeased`; `ServedWasCleared`, `VerdictsAgree`, `ScansAreLeased`, `InfectedStaysBlocked`; `SyncEarned`, `SyncUndoneOnlyShared`; `FormsOnce`; `AccountsFollow`; `NoticesFollow` |
| `jobs_drain` | 2 jobs of each kind, plain runs, limit 1 | 89 thousand | `JobsSettle` |
| `planning` | 256 weeks of 3 shipments, 3 flights and 2 volunteers; 3 versions of 2 assignments, 2 requests | 897 thousand | `PlanStaysAsGood`; `CoPublishedOverlapped`, `CarefulPlansHold`, `DraftsOnce`, `PublishedRowsFrozen` |
| `records` | 3 records, 2 requests, 3 lines, 3 documents, 2 structures with 2 persons and 2 shippers, 3 products, 2 orders with 3 shipments and 2 ready cartons | 902 thousand | `NumbersGivenOnce`; `ReceiptsSettled`; `BalancesFollowed`, `CorrectedOnce`; `PartiesCoherent`, `MergesKeepAuthorizations`; `KitsExpand`; `BinsHold`; `OrdersAccounted` |

Four runs find what the code does against its own documents:

| Run | Says | The code |
|---|---|---|
| `stock_ledger` | "Lot-level stock with FEFO consumption, quarantine states, and movement traceability." (`docs/mvp_spec.md:8`) | two reservation rows on one lot carry two copies of it; the second save undoes the first (`domain/orders.py:327`) |
| `shipping_planned` | "Once `planned`, carton modifications are locked." (`docs/operations.md:448`) | `PLANNED` is missing from two of the four guards (`carton_handlers.py:16`, `domain/stock.py:235`) |
| `planning_resolve` | "une version publiee reste immuable" (`docs/plans/2026-03-11-planning-version-operator-parity-design.md:39`) | solving again from a page loaded before deletes the snapshots under every version's assignments (`planning/snapshots.py:104`) |
| `billing_exclusive` | "Once issued, shipment exclusivity is enforced." (`docs/plans/2026-03-07-facturation-design.md:352`) | the issue looks at the number only; two drafts of one shipment may both be issued (`billing_document_handlers.py:462`) |

### Bounds

*Stock:* two units in two lots let a reservation span lots, and two row slots
let a lot hold two rows of one order; more copies of either add no new relation
between a lot, a line and its rows. Two orders that compete for a lot are not in
a run; the theorems cover them. Two clerks are enough for a copy to be overtaken,
and one carton for a shipment edit to overtake it; what several cartons add is
in `stock_serial`. `MaxUnits` bounds a lot, a line and a carton,
`Slot` the rows of an order on a lot; both appear in guards. *Shipping:* three
cartons give a shipment that is empty, partly and fully labeled while one carton
is loose; with two requests one carton is enough, since those properties relate
a shipment's row, its events and the copies. *Jobs:* three runs let a lease
lapse twice; two attempts make a retry and a final failure happen. Batches of
two emails are in `jobs_drain`, and in the theorems. `FewForms` keeps one form
per process but for a busy one and forms of one kind, since two kinds share no
slot; `FewNotices` keeps two notices in hand. *Planning:* the weeks vary what
the passes look at (units, rank, destination, shipper, the dates printed, the
second flight's time, a volunteer's load, the frequency). `Kept` splits the
versions in three: two requests that edit one version and draft its messages,
one request that revises two, two that publish three. *Records:* two requests,
and a third record for either to leave behind; `FewUnits` and `MaxMoved` keep
two units and one moved carton among the orders; `FewStrays` lets one person of
the parties be moved away from a seat, with one shipper and two seats left and
everybody active, since each conjunct is about one seat and the one it is
compared with; `FewDisturbed` stops at the second invoice that was written over,
since each is judged by itself; a preparer's form ends with a line of the first
family. The theorems have none of these bounds. Behaviours of forms, accounts,
notices and orders are followed until what their property excuses has happened
(`overran`, `crossed`, `blurred`, `mixed`, `severed`), since nothing is asked
of them after that.

Symmetry is over cartons, clerks, orders, shipments, requests, runs, senders and
records, and is not used for liveness. Deadlock is allowed where the system
really stops: units used up within their bounds, a queue drained, a form
answered. Shipping's runs check it.

### Fairness

Only `JobsSettle` needs any: `QueueDrains` for emails, `ScansSettle` for
documents, `ArtifactsSettle` for artifacts. The specification assumes that a
run which has started goes on, that the plain command keeps being started (it is
scheduled, `docs/pythonanywhere_email_setup_step_by_step.md:71-79` and the root
`README.md`), and that time passes (a lease lapses, a retry falls due). The
premise is that runs die only finitely often, and the options that ask for
failed jobs are left out: an operator who keeps asking for them may keep the
others waiting. Nothing is assumed of what a send, a scan or an upload returns.

## 4. Proofs

Assumptions are those named in the modules: finite sets of lots, orders, slots,
cartons; positive bounds, limits and attempts; `None` is nobody. One says more:
in `Stock`, two lots of one product have different ranks. That is the code's:
every `order_by` that draws from lots ends with the lot's or the row's id
(`domain/orders.py:269`, `:310`; `domain/stock.py:308`). In `PackingBins`
the carton and the measures that stand in for missing ones are positive, and a
line asks for at least one unit. Nothing is assumed of sizes.

* **Allocation** (`StockProofs`, first part). A sum is the cardinality of a set
  of units, which makes sums provable without induction: a sum moves by what
  its terms move, bounds each of them, and is carried along an injection. A
  greedy draw takes no more than each source has, in their order, and exactly
  what was asked when they suffice (the argument takes the first source that
  gives less than it has, by a least-element lemma from `WFMin`).
* **Stock**. `OverlapInvariant`: `TypeOK`, and `Good` of the tables and of the
  snapshot a rollback would restore. `Good` adds to `ReservationsBacked` what it
  needs to be inductive: lots not yet received are unreserved, cartons not yet
  made are empty, movements are below quantities. From it `TypeCorrect`,
  `ReservationsStayBacked`, `MovementsStayBelow`. Two action properties follow
  from what each operation does to the lots: `OnlySharedLotsGain` (a lot gains
  on its movements only where `WrittenBack` and `Given` differ, which takes two
  rows of one line on it) and `SoonestLotsGoFirst` (a lot gives only once those
  ranked before it have given all they have free).
  All of these hold for requests that overlap and die (`OneAtATime` carries them
  over to `Spec`).
  `OnlyStaleCopiesLoseCount` is about `OverlapSpec` too. A count that parted from
  its rows may stay so, so the step is what is looked at: `CountsKept` says of an
  operation that each line it finds counted it leaves counted, which for a draw on
  rows means that it takes exactly the sum it is asked for, so that line and rows
  fall together. A commit on lines read before (`ReserveSeen`, `PackSeen`) keeps
  the count of every line whose `reserved` it had read right. `prepare_order`
  counts from its commit (`Committed`): `CountInv` adds that what was counted when
  it began is counted all along. `LinesCountTheirRows` and `PreparationHasItsUnits`
  are about `Spec`. `SerialInv` says that one clerk at most has a request, that
  what it read still holds (`Fresh`), so that no copy is stale, and that every
  reserved order is covered (its rows hold what its lines lack) but for the line
  that request has raised and not yet reserved (`Pending`); the snapshot is too.
* **Shipping** (`ShippingProofs`). The invariant cannot speak of rows only: a
  handler saves what its copy said. `Sound` asks of every request that its copy
  stands on the milestones too, and that an event about to be recorded, or just
  recorded, leads from milestones reached. Milestones never go away, so a copy
  stays sound however stale it is: that is why overlap does no harm here.
  `MilestonesStandBehind`, `LocksLostToStaleCopies` and the refinement
  `ShipmentsImplementCases` hold with crashes and overlap (`SerialIsCrashFree`
  carries them over to `Spec`). `ReadinessFollowsCartons` and
  `CartonsShipTogether` are theorems of `Spec` under the hypothesis `Alone`, that
  there is one request: `SerialInv` adds that every shipment fits its cartons
  unless its one request is in the middle of its commits, and what that request
  knows by then.
* **EmailQueue**, **DocumentScanQueue**. What a run remembers is no more than
  what happened; a job held under a lease that never lapsed is in PROCESSING;
  its success is saved or about to be by whoever holds it; for documents also,
  what its run wrote or will write agrees with the row. A claim needs a row that
  is pending, failed, or in PROCESSING under a stale lease, so no second holder
  comes. Both refine `LeasedQueue` (`QueueIsLeased`, `ScanQueueIsLeased`).
* **FoldFacts**. The community modules define a fold by choosing a function that
  satisfies a recursive equation. That one exists, that a fold stays in a set
  which its steps do not leave, and that a sum is the size of a heap with one unit
  for each unit of its terms (so that sums are compared by injections, like those
  of `StockProofs`) follow from the least set for which they would fail. Sums of
  integers are what is gained less what is lost. Recursive functions that climb to
  a number or go down the subsets of a finite set exist and stay in a set in the
  same way (`UpRecursion`, `DownRecursion`), which `Kits` and `PackingBins` need.
* **PrintArtifactSync**, **PublicForms**, **Accounts**, **Notices** (`JobsProofs`). An
  artifact held by one run only is as that run loaded it. A slot's keys are in
  the cache for as long as a form that passed them is under way, and two forms
  do not hold one key (`FormsStayOnce`). Names of accounts stay unique, what an
  approver found is still there, and emails stay unique until an approval was
  overtaken (`AccountsStayFollowed`). The notices that a transaction holds back
  lead from what is committed to what it wrote, and no other request has written
  meanwhile; so what is told and what is owed add up to what happened
  (`NoticesStayTrue`).
* **ReferenceSequences**, **Receipts**, **OrderDesk** (`RecordsProofs`). Whoever
  holds the lock has the row's last number in hand and the row is ahead of every
  number given (`NumbersStayGivenOnce`). A clerk relies on what was loaded as
  long as nobody else works on the receipt (`ReceiptsStaySettled`). An order's
  count is what its page packed, what was taken out, and its ready cartons, and
  an asker's copy is up to date until `mixed` (`OrdersStayAccounted`).
* **Billing** (`RecordsProofs`). `BalancesStayFollowed`, `InvoicesCorrectedOnce`:
  an update under way carries the status its payments call for, unless the
  document was disturbed.
* **ShipmentParties** (`RecordsProofs`). `Coherent`: what an authorization hangs on
  is there (`Hangs`), a link has one default (`OneFirst`), and a structure that is
  on has a row and is the only correspondent (`Organized`). Every helper, from
  `Authorize` to the merges, keeps each part on its own, and the hooks after a
  commit are folds whose steps keep them too. In `Hangs` only persons who strayed
  answer elsewhere than at home, so whatever carries seats along has to show that
  it makes no other person do so. From it `PartiesStayCoherent` and,
  since links and authorizations only move, `MergesLoseNothing`. The run has two
  structures and one operation at a time; the theorems any number of structures,
  persons and shippers, still one operation at a time.
* **Kits** (`RecordsProofs`). What a kit comes down to is a recursive function of
  the products passed on the way down. It is compared with the ways
  (`ExpansionIs`) for the set of all products first and then for sets with one
  product less: `Expanded` of the level below is what a level needs, because a
  way from a kit is the kit and a way from one of its parts that passes none of
  the products above (`PrependedPast`, `RestPast`), a cycle is met in the parts
  or at once (`LoopsLevel`), and the sum over the ways of a kit splits by their
  second product (`TotalLevel`). `KitsSound` is what the forms keep: every set of
  products has one that leads to none of the others, now and once any validated
  form is saved; `Reaches` closes a set in as many steps as there are products
  (`ReachesAll`), so a form that closes a cycle is refused. From it
  `KitsStayExpanded`.
* **PackingBins** (`RecordsProofs`). `Sound` of a sequence of cartons: what is left
  of each is its format less what it holds, and a later one holds a product only
  if every earlier one is tight for it. `PlaceItem` keeps it (`PlaceSound`): what
  remains of an item only falls along the cartons, so one that is given some
  stands behind cartons that took all they could; and it adds the item's units
  and nothing else (`PlacedIs`). The sort counts, for each item, those that come
  no later; in a total order those counts are a bijection (`InOrderIs`), so no
  item is lost or packed twice and sums do not change (`InOrderSums`). With
  nothing too large the full carton of the portal is that of the page
  (`EstimateIs`). `BinsAlwaysHold` follows for any rows of kits, cycles included.
* **PlanningVersions** (`PlanningProofs`). A publication holds its draft
  and missed no published version but those it overlapped
  (`PublicationIsExclusive`); drafts of messages are gone while the one who makes
  new ones works (`MessagesComeOnce`); an edit of a version that is no draft any
  more was overtaken by its publication (`PublishedRowsStay`). For
  `CarefulPlansStay`, `CarefulInv` adds that ids grow, that versions nobody was
  careless with keep the rules, and that a request in the middle of a checked edit
  has an edit that still passes unless it was overtaken; that a row less, or a row
  moved where it fits, keeps the capacities compares sums of units. It assumes
  of the week (`WeekAssumption`) that it is finite and that what the code counts
  and compares are numbers.
* **PlanningSolver** (`PlanningProofs`). `PlansStayAsGood` is about every week that
  `IsWeek` allows and every plan of it that OR-Tools may return. `SolverInv` adds
  that a shipment which waits for its volunteer is still alone on its flight. Keys
  put finite sets in strict orders, so ranks are 0, 1, ... without gaps (`RanksCover`,
  `RanksDiffer`) and the zip of two sorted lists is a bijection: the first pass
  only renames places within groups of equal shipments (`CanonicalTrades`), which
  keeps every sum (`TradesKeep`), and whom it serves are as many shippers as can be
  (`PreferredMany`). The second leaves everyone on the flight and picks crews among
  the missions there were (`RebalancedKeeps`); the third moves one mission to a
  volunteer without a conflict (`ReassignedKeeps`). That each pass can choose, the
  least share, the longest slot, the best volunteer, is proved on the way.

Only model-checked, and why:

| Property | Why |
|---|---|
| `JobsSettle` | liveness under fairness, which this prover does not reach, nor ENABLED |
| `PlanningTypeOK`, `RecordsTypeOK` | the conjunction of the components' type invariants; those of sequences, receipts, billing, orders, versions, kits and packing are parts of the proved invariants |

## 5. Not modelled

Pages, forms, permissions and the admin's free edits of rows (which can set any
counter and are outside every property here); the REST API, whose scan
endpoints call the handlers modelled (`api/v1/ui_views.py`); printing, imports
and exports, which are rendering and file formats. The external services (mail
transport, antivirus, OneDrive, OR-Tools) are their outcomes. `PROJECT.json`
gives for each component what is left out of it, and under "hazards" what no
property covers: boarding from a list of cartons read once, the synchronization
lost with a worker that dies before it, and the updates that unlocked stock
operations lose to each other.
