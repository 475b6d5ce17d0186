------------------------------ MODULE Billing ------------------------------
(***************************************************************************)
(* The billing documents of one association: the editor                    *)
(* (views_scan_billing.py) and billing_document_handlers.py.  The page     *)
(* offers a form by the status it was rendered with; the handlers read the *)
(* document again, but most of them do not look at its status.  A payment, *)
(* the status it leads to and its update are three commits.                *)
(***************************************************************************)
EXTENDS Integers, FiniteSets

CONSTANTS
    Document,
    Shipment,    \* shipped, and billed to the association
    Biller,      \* the clerks, each with a page of the editor
    NoDocument,
    Totals,      \* what the lines of a document may add up to
    Amounts,     \* what may be paid at once, or given back when negative
    MaxPaid      \* bounds the payments of a document; no more is given back than paid

ASSUME NoDocumentIsNone == NoDocument \notin Document
ASSUME AmountsWhole == Totals \subseteq Int /\ Amounts \subseteq Int

VARIABLES
    doc,         \* the documents, each with its shipments, its total and its payments
    page,        \* the pages, and the request a clerk has sent from one
    disturbed    \* the documents that a request changed behind another's back

billingVars == <<doc, page, disturbed>>

Kind == {"none", "quote", "invoice", "credit_note"}
DocStatus == {"draft", "issued", "partially_paid", "paid", "cancelled_or_corrected"}
Doc == [kind: Kind, status: DocStatus, of: Document \cup {NoDocument}, ships: SUBSET Shipment,
        total: Int, paid: Int]
NoDoc == [kind |-> "none", status |-> "draft", of |-> NoDocument, ships |-> {}, total |-> 0, paid |-> 0]
Page == [step: {"shown", "paid", "update", "replace"}, doc: Document \cup {NoDocument},
         status: DocStatus]
NoPage == [step |-> "shown", doc |-> NoDocument, status |-> "draft"]

Free == {d \in Document : doc[d].kind = "none"}

BillingInit ==
    /\ doc = [d \in Document |-> NoDoc]
    /\ page = [c \in Biller |-> NoPage]
    /\ disturbed = {}

----------------------------------------------------------------------------
Linked(s) == {d \in Document : s \in doc[d].ships}

\* build_editor_candidates. Its exclude() names two columns of the links: each may
\* be met by a document of its own.
Candidates(kind) ==
    {s \in Shipment :
        kind = "invoice" =>
            ~ /\ \E d \in Linked(s) : doc[d].kind = "invoice"
              /\ \E d \in Linked(s) : doc[d].status = "issued"}

Shows(c, d, status) == page' = [page EXCEPT ![c] = [step |-> "shown", doc |-> d, status |-> status]]

Open(c, d) ==
    /\ page[c].step = "shown" /\ doc[d].kind # "none"
    /\ Shows(c, d, doc[d].status)
    /\ UNCHANGED <<doc, disturbed>>

\* build_draft, for some of the shipments the editor offers when it is sent.
BuildDraft(c, d, kind, ships, total) ==
    /\ page[c].step = "shown" /\ d \in Free
    /\ ships # {} /\ ships \subseteq Candidates(kind)
    /\ doc' = [doc EXCEPT ![d] = [NoDoc EXCEPT !.kind = kind, !.ships = ships, !.total = total]]
    /\ Shows(c, d, "draft")
    /\ UNCHANGED disturbed

\* Another request is about to write the status it worked out for d.
AboutToWrite(c, d) == \E q \in Biller \ {c} : page[q].step = "update" /\ page[q].doc = d

\* issue_document, from a page that showed a draft: the handler does not ask.
Issue(c) ==
    LET d == page[c].doc
    IN  /\ page[c].step = "shown" /\ d # NoDocument /\ page[c].status = "draft"
        /\ doc' = [doc EXCEPT ![d].status = "issued"]
        /\ disturbed' = IF doc[d].status # "draft" \/ AboutToWrite(c, d)
                        THEN disturbed \cup {d} ELSE disturbed
        /\ Shows(c, d, "issued")

\* The forms of an issued invoice.
OffersInvoiceForms(c) ==
    /\ page[c].step = "shown" /\ page[c].doc # NoDocument
    /\ doc[page[c].doc].kind = "invoice"
    /\ page[c].status \notin {"draft", "cancelled_or_corrected"}

\* record_billing_payment: the payment is saved, whatever became of the invoice.
Pay(c, amount) ==
    LET d == page[c].doc
    IN  /\ OffersInvoiceForms(c) /\ doc[d].status # "draft"
        /\ doc[d].paid + amount \in 0..MaxPaid
        /\ doc' = [doc EXCEPT ![d].paid = @ + amount]
        /\ page' = [page EXCEPT ![c].step = "paid"]
        /\ disturbed' = IF AboutToWrite(c, d) THEN disturbed \cup {d} ELSE disturbed

\* Mutant of NewStatus: an invoice that is paid to the cent is not paid yet.
NewStatusOffByOne(paid, total) ==
    IF paid <= 0 \/ total <= 0 THEN "issued"
    ELSE IF paid <= total THEN "partially_paid" ELSE "paid"

NewStatus(paid, total) ==
    IF paid <= 0 \/ total <= 0 THEN "issued"
    ELSE IF paid < total THEN "partially_paid" ELSE "paid"

\* recompute_invoice_status reads the invoice and its payments, and leaves a
\* corrected one alone.
RecomputeRead(c) ==
    LET d == page[c].doc
        new == NewStatus(doc[d].paid, doc[d].total)
    IN  /\ page[c].step = "paid"
        /\ IF doc[d].status \in {"draft", "cancelled_or_corrected", new}
           THEN Shows(c, d, doc[d].status)
           ELSE page' = [page EXCEPT ![c].step = "update", ![c].status = new]
        /\ UNCHANGED <<doc, disturbed>>

\* Its update does not look at what the status has become.
RecomputeWrite(c) ==
    LET d == page[c].doc
    IN  /\ page[c].step = "update"
        /\ doc' = [doc EXCEPT ![d].status = page[c].status]
        /\ Shows(c, d, page[c].status)
        /\ UNCHANGED disturbed

\* Mutants of Corrected: the invoice keeps its status; it takes the other one of
\* the same name.
CorrectedNot(invoice) == invoice
CorrectedCancelled(invoice) == [invoice EXCEPT !.status = "cancelled"]

Corrected(invoice) == [invoice EXCEPT !.status = "cancelled_or_corrected"]

\* create_correction_chain: the credit note, issued at once, and the invoice's new
\* status are one transaction; a replacement comes in another.
Correct(c, d, replace) ==
    LET i == page[c].doc
    IN  /\ OffersInvoiceForms(c) /\ d \in Free
        /\ doc' = [doc EXCEPT ![d] = [NoDoc EXCEPT !.kind = "credit_note", !.status = "issued",
                                      !.of = i, !.ships = doc[i].ships, !.total = -doc[i].total],
                              ![i] = Corrected(doc[i])]
        /\ IF replace THEN page' = [page EXCEPT ![c].step = "replace"] ELSE Shows(c, d, "issued")
        /\ disturbed' = IF doc[i].status = "cancelled_or_corrected" \/ AboutToWrite(c, i)
                        THEN disturbed \cup {i} ELSE disturbed

Replace(c, d) ==
    LET i == page[c].doc
    IN  /\ page[c].step = "replace" /\ d \in Free
        /\ doc' = [doc EXCEPT ![d] = [NoDoc EXCEPT !.kind = "invoice", !.of = i,
                                      !.ships = doc[i].ships, !.total = doc[i].total]]
        /\ Shows(c, d, "draft")
        /\ UNCHANGED disturbed

\* A worker dies between two commits; a payment's invoice keeps its old status.
Crash(c) ==
    /\ page[c].step # "shown"
    /\ page' = [page EXCEPT ![c] = NoPage]
    /\ disturbed' = IF page[c].step # "replace" THEN disturbed \cup {page[c].doc} ELSE disturbed
    /\ UNCHANGED doc

BillingNext ==
    \E c \in Biller :
        \/ Issue(c) \/ RecomputeRead(c) \/ RecomputeWrite(c) \/ Crash(c)
        \/ \E a \in Amounts : Pay(c, a)
        \/ \E d \in Document :
              \/ Open(c, d) \/ Replace(c, d)
              \/ \E replace \in BOOLEAN : Correct(c, d, replace)
              \/ \E kind \in {"quote", "invoice"}, ships \in SUBSET Shipment, t \in Totals :
                    BuildDraft(c, d, kind, ships, t)

BillingSpec == BillingInit /\ [][BillingNext]_billingVars

----------------------------------------------------------------------------
(***************************************************************************)
(* Properties.                                                             *)
(***************************************************************************)
BillingTypeOK ==
    /\ doc \in [Document -> Doc]
    /\ page \in [Biller -> Page]
    /\ disturbed \in SUBSET Document

Settled(d) == \A c \in Biller : page[c].doc = d => page[c].step \in {"shown", "replace"}
CreditNotes(d) == {e \in Document : doc[e].kind = "credit_note" /\ doc[e].of = d}

\* An invoice is paid when its payments reach what its lines add up to, and partially
\* paid when there are some, however many clerks paid, gave back, corrected and
\* issued, unless one of them wrote over what another had just changed or died
\* before the update. A free invoice is never paid.
BalancesFollowed ==
    \A d \in Document \ disturbed :
        LET row == doc[d]
        IN  row.kind = "invoice" /\ row.status \notin {"draft", "cancelled_or_corrected"}
            /\ Settled(d) =>
                /\ row.status = "paid" <=> 0 < row.total /\ row.total <= row.paid
                /\ row.status = "partially_paid" <=> 0 < row.paid /\ row.paid < row.total

\* A corrected invoice has its credit note; one that has a credit note has only
\* one and stays corrected, unless it was issued, paid or corrected from a page
\* that no longer told the truth.
CorrectedOnce ==
    \A d \in Document :
        /\ doc[d].status = "cancelled_or_corrected" => CreditNotes(d) # {}
        /\ d \notin disturbed /\ CreditNotes(d) # {} =>
              /\ doc[d].status = "cancelled_or_corrected"
              /\ \A e, f \in CreditNotes(d) : e = f

\* The design of the billing, facturation-design.md:352: once an invoice is issued,
\* its shipments are on no other invoice.
Live(d) == doc[d].kind = "invoice" /\ doc[d].status \in {"issued", "partially_paid", "paid"}
OneInvoicePerShipment ==
    \A d, e \in Document : Live(d) /\ Live(e) /\ doc[d].ships \cap doc[e].ships # {} => d = e
=============================================================================
