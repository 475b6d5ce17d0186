-------------------------- MODULE DocumentScanQueue --------------------------
(***************************************************************************)
(* The antivirus queue of wms/document_scan_queue.py and the documents it  *)
(* decides about: uploads, runs of process_document_scan_queue side by     *)
(* side, the copies that an order's clean documents get on its shipment    *)
(* (wms/order_helpers.py), and deletions (shipment_document_handlers.py).  *)
(*                                                                         *)
(* A document and its event are two rows, written in commits of their own. *)
(* Time is what the code compares it for: a lease is stale or not when a   *)
(* run starts. A scan may return any verdict at any time: the signatures   *)
(* change, the scanner may be missing.                                     *)
(***************************************************************************)
EXTENDS Naturals, FiniteSets

CONSTANTS
    Document,  \* uploaded documents, in the order they are created
    Scanner,   \* runs of the command that may be alive together
    ScanLimit  \* the command's --limit

ASSUME ScanAssumption ==
    /\ Document \subseteq Nat
    /\ ScanLimit \in Nat \ {0}

VARIABLES
    doc,      \* the scan status of each document, "absent", or "deleted"
    copied,   \* the copy of it on a shipment, served as clean; it shares the file
    event,    \* the scan event of each document as committed
    scan,     \* what each run holds in memory
    cleared,  \* the documents that some scan found clean
    outlived  \* the documents whose event had a lease that went stale

scanVars == <<doc, copied, event, scan, cleared, outlived>>

Verdict == {"clean", "infected", "error"}
\* deleted: and the file with it; broken: attached again, without its file.
Copy == {"absent", "clean", "deleted", "broken"}
ScanEvent == [status: {"absent", "pending", "processing", "processed", "failed"}, stale: BOOLEAN]

\* todo: the candidates not yet looked at; old: those whose lease was stale when
\* the run started; selected: those claimed and not yet saved; cur: the one
\* being scanned, seen: its status as loaded, verdict: what the scan returned,
\* written: whether the document has been saved.
Scan == [todo: SUBSET Document, old: SUBSET Document, failedToo: BOOLEAN,
         selected: SUBSET Document, cur: SUBSET Document,
         seen: Verdict \cup {"pending"}, verdict: Verdict, written: BOOLEAN]
NoScan == [todo |-> {}, old |-> {}, failedToo |-> FALSE, selected |-> {}, cur |-> {},
           seen |-> "pending", verdict |-> "error", written |-> FALSE]

\* A run with nothing left is over; one that goes on keeps what it will read.
Going(x) ==
    IF x.todo = {} /\ x.selected = {} THEN NoScan
    ELSE [x EXCEPT !.old = @ \cap x.todo, !.failedToo = @ /\ x.todo # {}]
NextOne(x) ==
    Going([x EXCEPT !.selected = @ \ x.cur, !.cur = {}, !.seen = "pending",
                    !.verdict = "error", !.written = FALSE])

ScanInit ==
    /\ doc = [d \in Document |-> "absent"]
    /\ copied = [d \in Document |-> "absent"]
    /\ event = [d \in Document |-> [status |-> "absent", stale |-> FALSE]]
    /\ scan = [w \in Scanner |-> NoScan]
    /\ cleared = {}
    /\ outlived = {}

----------------------------------------------------------------------------
\* Mutant: the upload leaves the model's default status.
UploadClean(d) ==
    /\ doc[d] = "absent"
    /\ \A o \in Document : o < d => doc[o] # "absent"
    /\ doc' = [doc EXCEPT ![d] = "clean"]
    /\ UNCHANGED <<copied, event, scan, cleared, outlived>>

\* An upload page creates the document.
Upload(d) ==
    /\ doc[d] = "absent"
    /\ \A o \in Document : o < d => doc[o] # "absent"
    /\ doc' = [doc EXCEPT ![d] = "pending"]
    /\ UNCHANGED <<copied, event, scan, cleared, outlived>>

\* queue_document_scan, called next by the page, in a commit of its own.
QueueScan(d) ==
    /\ doc[d] # "absent" /\ event[d].status = "absent"
    /\ event' = [event EXCEPT ![d].status = "pending"]
    /\ UNCHANGED <<doc, copied, scan, cleared, outlived>>

\* attach_order_documents_to_shipment: a clean document of an order, whose file
\* no document of the shipment has, gets a copy that is served as clean.
Attach(d) ==
    /\ doc[d] = "clean" /\ copied[d] \in {"absent", "deleted"}
    /\ copied' = [copied EXCEPT ![d] = IF @ = "absent" THEN "clean" ELSE "broken"]
    /\ UNCHANGED <<doc, event, scan, cleared, outlived>>

\* handle_shipment_document_delete, of a shipment's own document or of a copy.
DeleteDocument(d) ==
    /\ doc[d] \notin {"absent", "deleted"} /\ copied[d] = "absent"
    /\ doc' = [doc EXCEPT ![d] = "deleted"]
    /\ UNCHANGED <<copied, event, scan, cleared, outlived>>
DeleteCopy(d) ==
    /\ copied[d] \in {"clean", "broken"}
    /\ copied' = [copied EXCEPT ![d] = "deleted"]
    /\ UNCHANGED <<doc, event, scan, cleared, outlived>>

\* Mutants of ScanFilter: failed scans are taken again by the plain command's
\* filter, and leases protect nothing; a lease never ends.
ScanFilterNoLease(d, failedToo, old) ==
    event[d].status \in {"pending", "processing"} \/ (failedToo /\ event[d].status = "failed")
ScanFilterForever(d, failedToo, old) ==
    event[d].status = "pending" \/ (failedToo /\ event[d].status = "failed")

\* _candidate_statuses and _queue_claim_filter, for a run to which the leases in
\* old are stale.
ScanFilter(d, failedToo, old) ==
    \/ event[d].status = "pending"
    \/ failedToo /\ event[d].status = "failed"
    \/ event[d].status = "processing" /\ d \in old

\* selector_queryset: the oldest ScanLimit candidates, read in one query.
StartScan(w, failedToo) ==
    LET old == {d \in Document : event[d].stale}
        candidates == {d \in Document : ScanFilter(d, failedToo, old)}
        oldest == {d \in candidates : Cardinality({o \in candidates : o < d}) < ScanLimit}
    IN  /\ scan[w] = NoScan /\ candidates # {}
        /\ scan' = [scan EXCEPT ![w] = Going([NoScan EXCEPT
                        !.todo = oldest, !.old = old, !.failedToo = failedToo])]
        /\ UNCHANGED <<doc, copied, event, cleared, outlived>>

Earliest(d, set) == d \in set /\ \A o \in set : d <= o

\* _claim_queue_event: the UPDATE filters on the row as it is now.
ClaimScan(w, d) ==
    /\ Earliest(d, scan[w].todo)
    /\ ScanFilter(d, scan[w].failedToo, scan[w].old)
    /\ event' = [event EXCEPT ![d] = [status |-> "processing", stale |-> FALSE]]
    /\ scan' = [v \in Scanner |->
                  IF v = w
                  THEN Going([scan[w] EXCEPT !.todo = @ \ {d}, !.selected = @ \cup {d}])
                  ELSE [scan[v] EXCEPT !.old = @ \ {d}]]
    /\ UNCHANGED <<doc, copied, cleared, outlived>>
SkipScan(w, d) ==
    /\ Earliest(d, scan[w].todo)
    /\ ~ ScanFilter(d, scan[w].failedToo, scan[w].old)
    /\ scan' = [scan EXCEPT ![w] = Going([scan[w] EXCEPT !.todo = @ \ {d}])]
    /\ UNCHANGED <<doc, copied, event, cleared, outlived>>

\* The second loop starts when every candidate has been looked at.
Turn(w, d) == scan[w].todo = {} /\ scan[w].cur = {} /\ Earliest(d, scan[w].selected)

\* _resolve_document_instance finds no document: the event fails.
ScanGone(w, d) ==
    /\ Turn(w, d) /\ doc[d] = "deleted"
    /\ event' = [event EXCEPT ![d] = [status |-> "failed", stale |-> FALSE]]
    /\ scan' = [scan EXCEPT ![w] = Going([scan[w] EXCEPT !.selected = @ \ {d}])]
    /\ UNCHANGED <<doc, copied, cleared, outlived>>

\* The document is loaded and scan_uploaded_file returns: an error once its file
\* went with a copy that was deleted.
ScanFile(w, d, verdict) ==
    /\ Turn(w, d) /\ doc[d] # "deleted"
    /\ copied[d] \in {"deleted", "broken"} => verdict = "error"
    /\ scan' = [scan EXCEPT ![w] = [scan[w] EXCEPT !.cur = {d}, !.seen = doc[d], !.verdict = verdict]]
    /\ cleared' = IF verdict = "clean" THEN cleared \cup {d} ELSE cleared
    /\ UNCHANGED <<doc, copied, event, outlived>>

\* _update_document_scan_state: the status is written where it differs from the
\* one loaded. A document deleted meanwhile makes save(update_fields) raise, and
\* the exception ends the run.
WriteVerdict(w, d) ==
    /\ scan[w].cur = {d} /\ ~ scan[w].written
    /\ IF doc[d] = "deleted"
       THEN scan' = [scan EXCEPT ![w] = NoScan] /\ UNCHANGED doc
       ELSE /\ scan' = [scan EXCEPT ![w].written = TRUE]
            /\ doc' = IF scan[w].verdict = scan[w].seen THEN doc
                      ELSE [doc EXCEPT ![d] = scan[w].verdict]
    /\ UNCHANGED <<copied, event, cleared, outlived>>

\* Mutant: an infected document's event fails, and is scanned again on demand.
SaveScanInfectedFails(w, d) ==
    /\ scan[w].cur = {d} /\ scan[w].written
    /\ event' = [event EXCEPT ![d] =
                   [status |-> IF scan[w].verdict = "clean" THEN "processed" ELSE "failed",
                    stale |-> FALSE]]
    /\ scan' = [scan EXCEPT ![w] = NextOne(scan[w])]
    /\ UNCHANGED <<doc, copied, cleared, outlived>>

\* The event's save: an error is a failure, a verdict is not.
SaveScan(w, d) ==
    /\ scan[w].cur = {d} /\ scan[w].written
    /\ event' = [event EXCEPT ![d] =
                   [status |-> IF scan[w].verdict = "error" THEN "failed" ELSE "processed",
                    stale |-> FALSE]]
    /\ scan' = [scan EXCEPT ![w] = NextOne(scan[w])]
    /\ UNCHANGED <<doc, copied, cleared, outlived>>

\* A run's process dies.
CrashScan(w) ==
    /\ scan[w] # NoScan
    /\ scan' = [scan EXCEPT ![w] = NoScan]
    /\ UNCHANGED <<doc, copied, event, cleared, outlived>>

\* A claim outlives the processing timeout.
ScanLapses(d) ==
    /\ event[d].status = "processing" /\ ~ event[d].stale
    /\ event' = [event EXCEPT ![d].stale = TRUE]
    /\ outlived' = outlived \cup {d}
    /\ UNCHANGED <<doc, copied, scan, cleared>>

----------------------------------------------------------------------------
AdvanceScan(w) ==
    \E d \in Document :
        \/ ClaimScan(w, d) \/ SkipScan(w, d) \/ ScanGone(w, d)
        \/ \E verdict \in Verdict : ScanFile(w, d, verdict)
        \/ WriteVerdict(w, d) \/ SaveScan(w, d)

Pages == \E d \in Document :
    Upload(d) \/ QueueScan(d) \/ Attach(d) \/ DeleteDocument(d) \/ DeleteCopy(d)

ScanNext ==
    \/ Pages
    \/ \E w \in Scanner :
          AdvanceScan(w) \/ CrashScan(w) \/ \E failedToo \in BOOLEAN : StartScan(w, failedToo)
    \/ \E d \in Document : ScanLapses(d)

ScanSpec == ScanInit /\ [][ScanNext]_scanVars

\* The scheduler's plain runs alone, which keep starting and going on.
ScanRoutine ==
    \/ Pages
    \/ \E w \in Scanner : AdvanceScan(w) \/ CrashScan(w) \/ StartScan(w, FALSE)
    \/ \E d \in Document : ScanLapses(d)
ScanFairness ==
    /\ \A w \in Scanner : WF_scanVars(AdvanceScan(w)) /\ WF_scanVars(StartScan(w, FALSE))
    /\ \A d \in Document : WF_scanVars(ScanLapses(d))

----------------------------------------------------------------------------
(***************************************************************************)
(* Properties.                                                             *)
(***************************************************************************)
\* The rows and the runs hold what their fields may hold.
ScanTypeOK ==
    /\ doc \in [Document -> Verdict \cup {"absent", "pending", "deleted"}]
    /\ copied \in [Document -> Copy]
    /\ event \in [Document -> ScanEvent]
    /\ scan \in [Scanner -> Scan]
    /\ cleared \subseteq Document
    /\ outlived \subseteq Document

\* Nothing is served that no scan found clean: neither a document nor the copy a
\* shipment gets of it.
ServedWasCleared ==
    \A d \in Document : doc[d] = "clean" \/ copied[d] # "absent" => d \in cleared

\* What is found infected stays blocked: only a run whose lease went stale, and
\* which scanned with another result, gives it back.
InfectedStaysBlocked ==
    [][\A d \in Document :
          doc[d] = "infected" /\ doc'[d] = "clean" => d \in outlived]_scanVars

\* An event at rest says of its document what the document says: failed, there
\* is nothing to serve; processed, there is a verdict. Only overlapping leases
\* part the two rows.
VerdictsAgree ==
    \A d \in Document \ outlived :
        /\ event[d].status = "failed" => doc[d] \in {"error", "deleted"}
        /\ event[d].status = "processed" => doc[d] \in {"clean", "infected", "deleted"}

\* The runs of the command take and settle events like the workers of a leased
\* queue.
LQ == INSTANCE LeasedQueue WITH
        Job <- Document, Worker <- Scanner, lapsed <- outlived,
        state <- [d \in Document |-> event[d].status],
        holders <- [d \in Document |-> {w \in Scanner : d \in scan[w].selected}]
ScansAreLeased == LQ!Spec

\* If runs stop dying, every queued document gets its verdict: no claim of a
\* dead run is forgotten, no document starves behind older ones.
ScansSettle ==
    <>[][\A w \in Scanner : ~ CrashScan(w)]_scanVars =>
        \A d \in Document :
            event[d].status = "pending" ~> event[d].status \in {"processed", "failed"}
=============================================================================
