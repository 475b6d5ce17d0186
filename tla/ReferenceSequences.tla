------------------------- MODULE ReferenceSequences -------------------------
(***************************************************************************)
(* Who gets which number: reference_sequences.py and the carton sequence of *)
(* domain/stock.py, with the saves that ask for a number.  A family is the *)
(* receipts or the shipments of a year, or the cartons of a type; its      *)
(* sequence is one row, made when the first number is asked for and locked *)
(* when a number is taken.  A request may take its number in a transaction *)
(* of its own, which commits before the record is saved, or inside the     *)
(* transaction that saves the record, which holds the row until its end.   *)
(***************************************************************************)
EXTENDS Naturals, FiniteSets

CONSTANTS
    Record,      \* receipts, shipments or cartons
    Request,
    None,
    MaxNumber    \* bounds the numbers an instance gives

ASSUME NoneIsNone == None \notin Record \cup Request \cup Nat
ASSUME RecordsFinite == IsFiniteSet(Record)
ASSUME NumbersBounded == MaxNumber \in Nat

VARIABLES
    family,   \* whose numbers they are; it never changes
    seq,      \* last_number of the sequence's row, None while there is no row
    lock,     \* the request whose open transaction wrote the row, and what it was
    ref,      \* the reference of each record, and whether it has left the drafts
    job,      \* the requests in progress
    given,    \* every number a record was ever saved with
    raced     \* the records that two requests held a temporary copy of at once

refVars == <<family, seq, lock, ref, job, given, raced>>

Family == {"receipt", "shipment", "carton"}
\* "other" is a reference of another form, "temp" a draft's EXP-TEMP-n.
RefKind == {"absent", "other", "temp", "number"}
Ref == [kind: RefKind, n: Nat, active: BOOLEAN]
NoRef == [kind |-> "absent", n |-> 0, active |-> FALSE]

\* A job drafts a temporary reference, holds a copy, has read where a sequence
\* starts, or has a number to save.
Job == [step: {"idle", "draft", "held", "start", "number"}, rec: Record \cup {None},
        temp: BOOLEAN, atomic: BOOLEAN, n: Nat]
NoJob == [step |-> "idle", rec |-> None, temp |-> FALSE, atomic |-> FALSE, n |-> 0]

Numbers == {ref[x].n : x \in {y \in Record : ref[y].kind = "number"}}
Temps == {ref[x].n : x \in {y \in Record : ref[y].kind = "temp"}}
\* The references of shipments and the codes of cartons are unique columns.
Unique == family # "receipt"

\* The greatest of some numbers, as a set, and 0 when there are none.
Greatest(set) == {n \in set \cup {0} : \A m \in set : m <= n}

\* Mutant of Start: every sequence starts from nothing, as a carton's does.
StartAtZero == {0}

\* What a sequence starts from: the greatest number in use; when no receipt has
\* one, how many receipts there are. A carton's starts from nothing.
Start ==
    IF family = "carton" THEN {0}
    ELSE IF family = "receipt" /\ Numbers = {}
    THEN {Cardinality({x \in Record : ref[x].kind # "absent"})}
    ELSE Greatest(Numbers)

Before ==
    [kind: {"absent"}, n: {0}, active: {FALSE}] \cup [kind: {"number"}, n: 1..2, active: {TRUE}]
    \cup [kind: {"other"}, n: {0}, active: {TRUE}]

RefsInit ==
    /\ family \in Family
    /\ seq = None /\ lock = [by |-> None, was |-> None]
    /\ ref \in {f \in [Record -> Before] :
            \A x, y \in Record : f[x].kind = "number" /\ f[x] = f[y] => x = y}
    /\ given = {<<x, ref[x].n>> : x \in {y \in Record : ref[y].kind = "number"}}
    /\ job = [r \in Request |-> NoJob] /\ raced = {}

----------------------------------------------------------------------------
\* The job of r ends; a transaction it had open is rolled back.
Abandon(r) ==
    /\ job' = [job EXCEPT ![r] = NoJob]
    /\ IF lock.by = r
       THEN seq' = lock.was /\ lock' = [by |-> None, was |-> None]
       ELSE UNCHANGED <<seq, lock>>

(***************************************************************************)
(* A draft is saved under the temporary reference after the greatest one,  *)
(* and tries again when another draft took it.                             *)
(***************************************************************************)
ReadTemps(r) ==
    /\ family = "shipment" /\ job[r].step = "idle"
    /\ \E n \in Greatest(Temps) :
          /\ n < MaxNumber
          /\ job' = [job EXCEPT ![r] = [NoJob EXCEPT !.step = "draft", !.n = n + 1]]
    /\ UNCHANGED <<family, seq, lock, ref, given, raced>>

SaveDraft(r) ==
    /\ job[r].step = "draft"
    /\ IF job[r].n \in Temps
       THEN UNCHANGED ref
       ELSE \E x \in Record :
               /\ ref[x].kind = "absent"
               /\ ref' = [ref EXCEPT ![x] =
                            [kind |-> "temp", n |-> job[r].n, active |-> FALSE]]
    /\ job' = [job EXCEPT ![r] = NoJob]
    /\ UNCHANGED <<family, seq, lock, given, raced>>

(***************************************************************************)
(* A request creates a record without a reference, or loads a shipment     *)
(* whose status it will save. Cartons are packed in one transaction.       *)
(***************************************************************************)
Create(r, atomic) ==
    /\ job[r].step = "idle"
    /\ family = "carton" => atomic
    /\ job' = [job EXCEPT ![r] = [NoJob EXCEPT !.step = "held", !.atomic = atomic]]
    /\ UNCHANGED <<family, seq, lock, ref, given, raced>>

HoldsTemp(r, x) == job[r].rec = x /\ job[r].temp

Load(r, x, atomic) ==
    /\ family = "shipment" /\ job[r].step = "idle"
    /\ ref[x].kind \notin {"absent", "other"}
    /\ job' = [job EXCEPT ![r] = [NoJob EXCEPT !.step = "held", !.rec = x, !.atomic = atomic,
                                               !.temp = ref[x].kind = "temp"]]
    /\ raced' = IF ref[x].kind = "temp" /\ \E q \in Request : HoldsTemp(q, x)
                THEN raced \cup {x} ELSE raced
    /\ UNCHANGED <<family, seq, lock, ref, given>>

\* Shipment.save with a status: a copy with a number, or one that stays a draft.
SaveStatus(r, active) ==
    /\ job[r].step = "held" /\ job[r].rec # None
    /\ job[r].temp => ~active
    /\ ref' = [ref EXCEPT ![job[r].rec].active = active]
    /\ job' = [job EXCEPT ![r] = NoJob]
    /\ UNCHANGED <<family, seq, lock, given, raced>>

\* The record has no reference, or its copy has a temporary one and leaves the drafts.
Needed(r) == job[r].step = "held" /\ (job[r].rec = None \/ job[r].temp)

\* r has number n, in a transaction that it ends or holds.
Given(r, n) ==
    /\ n <= MaxNumber
    /\ seq' = n
    /\ lock' = IF job[r].atomic THEN [by |-> r, was |-> seq] ELSE lock
    /\ job' = [job EXCEPT ![r].step = "number", ![r].n = n]
    /\ UNCHANGED <<family, ref, given, raced>>

TakeNumber(r) ==
    /\ Needed(r) /\ seq # None /\ lock.by = None
    /\ Given(r, seq + 1)

\* There is no row, or none that others see.
ReadStart(r) ==
    /\ Needed(r)
    /\ (IF lock.by = None THEN seq ELSE lock.was) = None
    /\ \E n \in Start : job' = [job EXCEPT ![r].step = "start", ![r].n = n]
    /\ UNCHANGED <<family, seq, lock, ref, given, raced>>

\* The insert waits for another one's transaction. It is refused when the row is
\* there by then, and so is the query that follows in the same transaction.
CreateSequence(r) ==
    /\ job[r].step = "start" /\ lock.by = None
    /\ IF seq = None
       THEN Given(r, job[r].n + 1)
       ELSE Abandon(r) /\ UNCHANGED <<family, ref, given, raced>>

\* The record is saved with its number, unless a unique column refuses it.
SaveRecord(r) ==
    LET n == job[r].n
    IN  /\ job[r].step = "number"
        /\ IF Unique /\ n \in Numbers
           THEN Abandon(r) /\ UNCHANGED <<ref, given>>
           ELSE \E x \in Record :
                   /\ IF job[r].rec = None THEN ref[x].kind = "absent" ELSE x = job[r].rec
                   /\ ref' = [ref EXCEPT ![x] =
                                [kind |-> "number", n |-> n, active |-> job[r].rec # None]]
                   /\ given' = given \cup {<<x, n>>}
                   /\ job' = [job EXCEPT ![r] = NoJob]
                   /\ lock' = IF lock.by = r THEN [by |-> None, was |-> None] ELSE lock
                   /\ UNCHANGED seq
        /\ UNCHANGED <<family, raced>>

\* A carton is packed under a code that was typed.
TypeCode(x, n) ==
    /\ family = "carton" /\ ref[x].kind = "absent" /\ n \notin Numbers
    /\ ref' = [ref EXCEPT ![x] = [kind |-> "number", n |-> n, active |-> TRUE]]
    /\ given' = given \cup {<<x, n>>}
    /\ UNCHANGED <<family, seq, lock, job, raced>>

\* An error or a worker that dies, anywhere.
Fail(r) ==
    /\ job[r].step # "idle" /\ Abandon(r)
    /\ UNCHANGED <<family, ref, given, raced>>

RefsNext ==
    \/ \E r \in Request :
          \/ ReadTemps(r) \/ SaveDraft(r)
          \/ TakeNumber(r) \/ ReadStart(r) \/ CreateSequence(r) \/ SaveRecord(r) \/ Fail(r)
          \/ \E b \in BOOLEAN :
                Create(r, b) \/ SaveStatus(r, b) \/ \E x \in Record : Load(r, x, b)
    \/ \E x \in Record, n \in 1..MaxNumber : TypeCode(x, n)

RefsSpec == RefsInit /\ [][RefsNext]_refVars

----------------------------------------------------------------------------
(***************************************************************************)
(* Properties.                                                             *)
(***************************************************************************)
RefsTypeOK ==
    /\ family \in Family
    /\ seq \in Nat \cup {None}
    /\ lock \in [by: Request \cup {None}, was: Nat \cup {None}]
    /\ ref \in [Record -> Ref]
    /\ job \in [Request -> Job]
    /\ given \in SUBSET (Record \X Nat)
    /\ raced \in SUBSET Record

\* A number that one record was saved with is never given to another, not even
\* after the first has moved on to a second number. Receipts have no unique
\* column to fall back on.
NumbersUnshared == \A g, h \in given : g[2] = h[2] => g[1] = h[1]

\* A shipment that left the drafts has lost its temporary reference.
ActiveIsNumbered == \A x \in Record : ref[x].active => ref[x].kind # "temp"

\* Documents are printed with a shipment's number: it gets a second one only when
\* two requests each held a copy with the temporary reference.
RenumberedOnlyRaced ==
    \A g, h \in given : g[1] = h[1] /\ g # h => g[1] \in raced

NumbersGivenOnce == NumbersUnshared /\ ActiveIsNumbered /\ RenumberedOnlyRaced
=============================================================================
