------------------------------ MODULE Receipts ------------------------------
(***************************************************************************)
(* One receipt and its lines: the receiving page (receipt_handlers.py), the *)
(* actions of the administration, the pallet listing                       *)
(* (import_services_pallet.py) and receive_receipt_line of domain/stock.py. *)
(* A request loads the receipt once, and its lines with it; each line is   *)
(* received in a transaction of its own, which sees what was committed     *)
(* when it began.                                                          *)
(***************************************************************************)
EXTENDS Naturals, FiniteSets

CONSTANTS
    Line,     \* the lines a receipt may get
    Clerk,    \* requests in progress
    NoLine

ASSUME NoLineIsNone == NoLine \notin Line

VARIABLES
    receipt,      \* the receipt's status
    line,         \* its lines, each with the lots it was received into
    clerk,        \* the requests
    overlapped,   \* two requests worked on the receipt at once
    cut           \* an import died between a line and its lot

receiptVars == <<receipt, line, clerk, overlapped, cut>>

ReceiptStatus == {"absent", "draft", "received"}
LineRow == [state: {"absent", "pending", "received"}, lots: Nat]
\* A clerk has the receipt and then its lines, or goes through a pallet's listing.
Work == [step: {"idle", "page", "lines", "txn", "listing"}, listing: BOOLEAN,
         copy: ReceiptStatus, todo: SUBSET Line, cur: Line \cup {NoLine}, remaining: BOOLEAN]
NoWork == [step |-> "idle", listing |-> FALSE, copy |-> "absent", todo |-> {},
           cur |-> NoLine, remaining |-> FALSE]

Pending == {l \in Line : line[l].state = "pending"}
Present == {l \in Line : line[l].state # "absent"}

ReceiptsInit ==
    /\ receipt = "absent"
    /\ line = [l \in Line |-> [state |-> "absent", lots |-> 0]]
    /\ clerk = [c \in Clerk |-> NoWork]
    /\ overlapped = FALSE /\ cut = FALSE

----------------------------------------------------------------------------
Others(c) == \E q \in Clerk \ {c} : clerk[q].step # "idle"

\* create_receipt, or the first row of a listing: the receipt is the request's own.
CreateReceipt(c, listing) ==
    /\ receipt = "absent" /\ clerk[c].step = "idle"
    /\ receipt' = "draft"
    /\ clerk' = [clerk EXCEPT ![c] =
                    IF listing THEN [NoWork EXCEPT !.step = "listing", !.listing = TRUE,
                                                   !.copy = "draft"]
                    ELSE NoWork]
    /\ UNCHANGED <<line, overlapped, cut>>

LoadReceipt(c) ==
    /\ receipt # "absent" /\ clerk[c].step = "idle"
    /\ clerk' = [clerk EXCEPT ![c] = [NoWork EXCEPT !.step = "page", !.copy = receipt]]
    /\ overlapped' = (overlapped \/ Others(c))
    /\ UNCHANGED <<receipt, line, cut>>

\* add_line, on a copy that is a draft, and a row of the listing, on any: the
\* line is saved, and received at once when that was asked for.
AddLine(c, l, now) ==
    /\ \/ clerk[c].step = "page" /\ clerk[c].copy = "draft"
       \/ clerk[c].step = "listing" /\ now
    /\ line[l].state = "absent"
    /\ line' = [line EXCEPT ![l].state = "pending"]
    /\ clerk' = [clerk EXCEPT ![c] =
                    IF now THEN [@ EXCEPT !.step = "lines", !.todo = {l}] ELSE NoWork]
    /\ UNCHANGED <<receipt, overlapped, cut>>

\* receive_lines: the lines that have no lot when they are read, whatever the
\* receipt's status.
ReadLines(c) ==
    /\ clerk[c].step = "page"
    /\ clerk' = [clerk EXCEPT ![c].step = "lines", ![c].todo = Pending]
    /\ UNCHANGED <<receipt, line, overlapped, cut>>

\* Mutant of Remaining: the line that is being received still counts.
RemainingAll(l) == Pending # {}

Remaining(l) == Pending \ {l} # {}

\* receive_receipt_line begins, on a line that had no lot when it was read; what
\* it will count as remaining is what others have committed.
BeginLine(c, l) ==
    /\ clerk[c].step = "lines" /\ l \in clerk[c].todo
    /\ clerk' = [clerk EXCEPT ![c].step = "txn", ![c].cur = l,
                              ![c].remaining = Remaining(l)]
    /\ UNCHANGED <<receipt, line, overlapped, cut>>

\* The request goes on with what it has left.
Goes(c, copy) ==
    LET left == clerk[c].todo \ {clerk[c].cur}
    IN  clerk' = [clerk EXCEPT ![c] =
                    IF left = {} /\ ~clerk[c].listing THEN NoWork
                    ELSE [@ EXCEPT !.step = IF left = {} THEN "listing" ELSE "lines",
                                   !.copy = copy, !.todo = left,
                                   !.cur = NoLine, !.remaining = FALSE]]

\* The line has a lot, and the receipt is received when its copy was a draft and
\* nothing remains.
CommitLine(c) ==
    /\ clerk[c].step = "txn"
    /\ line' = [line EXCEPT ![clerk[c].cur].state = "received", ![clerk[c].cur].lots = @ + 1]
    /\ LET done == clerk[c].copy = "draft" /\ ~clerk[c].remaining
       IN  /\ receipt' = IF done THEN "received" ELSE receipt
           /\ Goes(c, IF done THEN "received" ELSE clerk[c].copy)
    /\ UNCHANGED <<overlapped, cut>>

\* The line is refused: it has no location to go to.
RefuseLine(c) ==
    /\ clerk[c].step = "txn" /\ ~clerk[c].listing
    /\ Goes(c, clerk[c].copy)
    /\ UNCHANGED <<receipt, line, overlapped, cut>>

\* The page is shown, the listing ends, or the worker dies.
Leave(c) ==
    /\ clerk[c].step # "idle"
    /\ clerk' = [clerk EXCEPT ![c] = NoWork]
    /\ cut' = (cut \/ (clerk[c].listing /\ clerk[c].step # "listing"))
    /\ UNCHANGED <<receipt, line, overlapped>>

ReceiptsNext ==
    \E c \in Clerk :
        \/ LoadReceipt(c) \/ ReadLines(c) \/ CommitLine(c) \/ RefuseLine(c) \/ Leave(c)
        \/ \E b \in BOOLEAN :
              CreateReceipt(c, b) \/ \E l \in Line : AddLine(c, l, b)
        \/ \E l \in Line : BeginLine(c, l)

ReceiptsSpec == ReceiptsInit /\ [][ReceiptsNext]_receiptVars

----------------------------------------------------------------------------
(***************************************************************************)
(* Properties.                                                             *)
(***************************************************************************)
ReceiptsTypeOK ==
    /\ receipt \in ReceiptStatus
    /\ line \in [Line -> LineRow]
    /\ clerk \in [Clerk -> Work]
    /\ overlapped \in BOOLEAN /\ cut \in BOOLEAN

\* Between requests a receipt is received when it has lines and each has its lot,
\* and no line has two, unless two requests worked on it at once: nothing but the
\* order of the statements of receive_receipt_line keeps this.
ReceiptsSettled ==
    ~overlapped /\ ~cut /\ (\A c \in Clerk : clerk[c].step = "idle") =>
        /\ receipt = "received" <=> Present # {} /\ Pending = {}
        /\ \A l \in Present : line[l].state = "received" <=> line[l].lots = 1
=============================================================================
