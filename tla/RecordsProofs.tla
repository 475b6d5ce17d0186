---------------------------- MODULE RecordsProofs -----------------------------
(***************************************************************************)
(* What the records that several requests write keep true, for any number of *)
(* records and of requests: the reference sequences, receipts, orders with *)
(* their shipments and cartons, billing documents, and the registry of who *)
(* may send what to whom.                                                  *)
(***************************************************************************)
EXTENDS ReferenceSequences, Receipts, OrderDesk, Billing, ShipmentParties, PackingBins, FoldFacts,
        FiniteSetTheorems, TLAPS

-------------------------------------------------------------------------------
(***************************************************************************)
(* The reference sequences.                                                *)
(***************************************************************************)
\* Who holds the row has its last number in hand.
LockHeld ==
    /\ lock.by # None => /\ seq # None /\ job[lock.by].step = "number"
                         /\ job[lock.by].n = seq
    /\ lock.by = None => lock.was = None

\* No transaction that made the row has committed.
Fresh == seq = None \/ (lock.by # None /\ lock.was = None)

\* The sequence of receipts or shipments is ahead of every number that was given,
\* as its committed value is of those that were given outside the transaction
\* that holds it; the numbers in hand are new and differ; while there is no row,
\* the numbers given are those in use, and whoever is about to make the row
\* starts from them.
Ahead ==
    family # "carton" =>
        /\ seq # None => \A g \in given : g[2] <= seq
        /\ \A r \in Request : job[r].step = "number" =>
              seq # None /\ job[r].n <= seq /\ \A g \in given : g[2] # job[r].n
        /\ \A q, r \in Request :
              job[q].step = "number" /\ job[r].step = "number" /\ job[q].n = job[r].n => q = r
        /\ lock.by # None =>
              /\ \A r \in Request : r # lock.by /\ job[r].step = "number" =>
                    lock.was # None /\ job[r].n <= lock.was
              /\ lock.was # None => \A g \in given : g[2] <= lock.was
        /\ Fresh => \A g \in given :
              /\ g[2] \in Numbers
              /\ \A r \in Request : job[r].step = "start" => g[2] <= job[r].n

\* Only shipments are loaded to be saved again; a carton keeps the one number it
\* was saved with.
OnlyShipmentsLoaded ==
    /\ \A r \in Request : job[r].rec # None => family = "shipment"
    /\ family = "carton" =>
          \A g \in given : ref[g[1]].kind = "number" /\ ref[g[1]].n = g[2]

\* A record without a number was given none; a copy with a number is of a record
\* that has one; the only temporary copy of a record is true.
CopiesTrue ==
    /\ \A g \in given : ref[g[1]].kind = "number"
    /\ \A r \in Request, x \in Record :
          /\ job[r].rec = x /\ ~ job[r].temp => ref[x].kind = "number"
          /\ HoldsTemp(r, x) /\ x \notin raced => ref[x].kind = "temp"
    /\ \A q, r \in Request, x \in Record :
          HoldsTemp(q, x) /\ HoldsTemp(r, x) /\ x \notin raced => q = r

\* A loaded copy that is about to be numbered is a temporary one.
OnlyDraftsNumbered ==
    \A r \in Request : job[r].step \in {"start", "number"} /\ job[r].rec # None => job[r].temp

RefsInv ==
    /\ RefsTypeOK
    /\ LockHeld
    /\ Ahead
    /\ OnlyShipmentsLoaded
    /\ CopiesTrue
    /\ OnlyDraftsNumbered
    /\ NumbersGivenOnce

LEMMA NoJobFacts ==
    NoJob \in Job /\ NoJob.step = "idle" /\ NoJob.rec = None /\ NoJob.temp = FALSE
  BY DEF NoJob, Job

\* A step in which request r only replaces its job, by one with no number in
\* hand, in the middle of no transaction.
LEMMA JobStep ==
    ASSUME RefsInv, NEW r \in Request, NEW j \in Job, j.step # "number",
           lock.by # r, job' = [job EXCEPT ![r] = j],
           j.rec # None => job[r].rec = j.rec /\ job[r].temp = j.temp,
           j.step = "start" /\ j.rec # None => j.temp,
           j.step = "start" /\ Fresh /\ family # "carton" => \A g \in given : g[2] <= j.n,
           UNCHANGED <<family, seq, lock, ref, given, raced>>
    PROVE  RefsInv'
  <1>1. /\ \A q \in Request : job'[q] = IF q = r THEN j ELSE job[q]
        /\ job' \in [Request -> Job]
    BY DEF RefsInv, RefsTypeOK
  <1>2. RefsTypeOK'
    BY <1>1 DEF RefsInv, RefsTypeOK
  <1>3. LockHeld'
    BY <1>1 DEF RefsInv, RefsTypeOK, LockHeld
  <1>4. Numbers' = Numbers /\ Fresh' = Fresh
    BY DEF Numbers, Fresh
  <1>5. Ahead'
    BY <1>1, <1>4 DEF RefsInv, Ahead
  <1>6. OnlyShipmentsLoaded'
    BY <1>1 DEF RefsInv, OnlyShipmentsLoaded
  <1>7. CopiesTrue'
    <2>1. \A x \in Record : x # None
      BY NoneIsNone
    <2>2. \A q \in Request, x \in Record :
             /\ job'[q].rec = x => job[q].rec = x /\ job'[q].temp = job[q].temp
             /\ HoldsTemp(q, x)' => HoldsTemp(q, x)
      BY <1>1, <2>1 DEF HoldsTemp
    <2> QED
      BY <2>2 DEF RefsInv, CopiesTrue
  <1>8. NumbersGivenOnce'
    BY DEF RefsInv, NumbersGivenOnce, NumbersUnshared, ActiveIsNumbered, RenumberedOnlyRaced
  <1>9. OnlyDraftsNumbered'
    BY <1>1 DEF RefsInv, OnlyDraftsNumbered
  <1> QED
    BY <1>2, <1>3, <1>5, <1>6, <1>7, <1>8, <1>9 DEF RefsInv

\* A job that ends gives back what its transaction took.
LEMMA AbandonKeeps ==
    ASSUME RefsInv, NEW r \in Request, Abandon(r), UNCHANGED <<family, ref, given, raced>>
    PROVE  RefsInv'
  <1>1. CASE lock.by # r
    BY <1>1, NoJobFacts, JobStep DEF Abandon
  <1>2. CASE lock.by = r
    <2>1. /\ \A q \in Request : job'[q] = IF q = r THEN NoJob ELSE job[q]
          /\ job' \in [Request -> Job]
          /\ seq' = lock.was /\ lock'.by = None /\ lock'.was = None
          /\ lock.by # None
      BY <1>2, NoJobFacts, NoneIsNone DEF Abandon, RefsInv, RefsTypeOK
    <2>2. lock' \in [by: Request \cup {None}, was: Nat \cup {None}] /\ seq' \in Nat \cup {None}
      BY <1>2 DEF Abandon, RefsInv, RefsTypeOK
    <2>3. RefsTypeOK'
      BY <2>1, <2>2 DEF RefsInv, RefsTypeOK
    <2>4. LockHeld'
      BY <2>1 DEF LockHeld
    <2>5. Numbers' = Numbers /\ (Fresh' => Fresh)
      BY <2>1 DEF Numbers, Fresh
    <2>6. Ahead'
      BY <1>2, <2>1, <2>5, NoJobFacts DEF RefsInv, Ahead
    <2>7. OnlyShipmentsLoaded'
      BY <2>1, NoJobFacts DEF RefsInv, OnlyShipmentsLoaded
    <2>8. CopiesTrue'
      <3>1. \A x \in Record : x # None
        BY NoneIsNone
      <3> QED
        BY <2>1, <3>1, NoJobFacts DEF RefsInv, CopiesTrue, HoldsTemp
    <2>9. NumbersGivenOnce'
      BY DEF RefsInv, NumbersGivenOnce, NumbersUnshared, ActiveIsNumbered, RenumberedOnlyRaced
    <2>10. OnlyDraftsNumbered'
      BY <2>1, NoJobFacts DEF RefsInv, OnlyDraftsNumbered
    <2> QED
      BY <2>3, <2>4, <2>6, <2>7, <2>8, <2>9, <2>10 DEF RefsInv
  <1> QED
    BY <1>1, <1>2

(***************************************************************************)
(* One lemma per action.                                                   *)
(***************************************************************************)
\* A request that has no number in hand holds no row.
LEMMA NoNumberNoRow ==
    ASSUME RefsInv, NEW r \in Request, job[r].step # "number"
    PROVE  lock.by # r
  BY NoneIsNone DEF RefsInv, LockHeld

LEMMA GreatestFacts ==
    ASSUME NEW set, NEW n \in Greatest(set)
    PROVE  n \in set \cup {0} /\ \A m \in set : m <= n
  BY DEF Greatest

LEMMA RefsInitHolds == RefsInit => RefsInv
  <1> SUFFICES ASSUME RefsInit PROVE RefsInv
    OBVIOUS
  <1>1. /\ ref \in [Record -> Before] /\ seq = None
        /\ lock = [by |-> None, was |-> None] /\ raced = {} /\ family \in Family
        /\ \A r \in Request : job[r] = NoJob
        /\ \A x, y \in Record : ref[x].kind = "number" /\ ref[x] = ref[y] => x = y
    BY DEF RefsInit
  <1>2. \A x \in Record : /\ ref[x] \in Ref
                          /\ ref[x].kind \in {"absent", "other", "number"}
                          /\ ref[x].kind = "number" => ref[x].active
    <2> SUFFICES ASSUME NEW f \in Before
                 PROVE  /\ f \in Ref /\ f.kind \in {"absent", "other", "number"}
                        /\ f.kind = "number" => f.active
      BY <1>1
    <2>1. CASE f \in [kind: {"absent"}, n: {0}, active: {FALSE}]
      <3>1. f = [kind |-> "absent", n |-> 0, active |-> FALSE]
        BY <2>1
      <3> QED
        BY <3>1 DEF Ref, RefKind
    <2>2. CASE f \in [kind: {"number"}, n: 1..2, active: {TRUE}]
      <3>1. PICK n \in 1..2 : f = [kind |-> "number", n |-> n, active |-> TRUE]
        BY <2>2
      <3>2. n \in Nat
        OBVIOUS
      <3> QED
        BY <3>1, <3>2 DEF Ref, RefKind
    <2>3. CASE f \in [kind: {"other"}, n: {0}, active: {TRUE}]
      <3>1. f = [kind |-> "other", n |-> 0, active |-> TRUE]
        BY <2>3
      <3> QED
        BY <3>1 DEF Ref, RefKind
    <2> QED
      BY <2>1, <2>2, <2>3 DEF Before
  <1>3. \A g \in given : g[1] \in Record /\ ref[g[1]].kind = "number" /\ g[2] = ref[g[1]].n
                         /\ g = <<g[1], g[2]>>
    BY DEF RefsInit
  <1>4. RefsTypeOK
    <2>1. given \in SUBSET (Record \X Nat)
      BY <1>2, <1>3 DEF Ref
    <2>2. ref \in [Record -> Ref]
      BY <1>1, <1>2
    <2>3. job \in [Request -> Job]
      BY NoJobFacts DEF RefsInit
    <2> QED
      BY <1>1, <2>1, <2>2, <2>3 DEF RefsTypeOK
  <1>5. LockHeld
    BY <1>1 DEF LockHeld
  <1>6. Ahead
    <2>1. \A g \in given : g[2] \in Numbers
      BY <1>3 DEF Numbers
    <2> QED
      BY <1>1, <2>1, NoJobFacts DEF Ahead
  <1>7. OnlyShipmentsLoaded
    BY <1>1, <1>3, NoJobFacts DEF OnlyShipmentsLoaded
  <1>8. CopiesTrue
    <2>1. \A x \in Record : x # None
      BY NoneIsNone
    <2> QED
      BY <1>1, <1>3, <2>1, NoJobFacts DEF CopiesTrue, HoldsTemp
  <1>9. NumbersGivenOnce
    <2>1. ActiveIsNumbered
      BY <1>2 DEF ActiveIsNumbered
    <2>2. NumbersUnshared
      <3>1. \A x, y \in Record : ref[x].kind = "number" /\ ref[y].kind = "number"
                                 /\ ref[x].n = ref[y].n => ref[x] = ref[y]
        BY <1>1, <1>2 DEF Ref
      <3> QED
        BY <1>1, <1>3, <3>1 DEF NumbersUnshared
    <2>3. RenumberedOnlyRaced
      BY <1>3 DEF RenumberedOnlyRaced
    <2> QED
      BY <2>1, <2>2, <2>3 DEF NumbersGivenOnce
  <1>10. OnlyDraftsNumbered
    BY <1>1, NoJobFacts DEF OnlyDraftsNumbered
  <1> QED
    BY <1>4, <1>5, <1>6, <1>7, <1>8, <1>9, <1>10 DEF RefsInv

LEMMA ReadTempsKeeps ==
    ASSUME RefsInv, NEW r \in Request, ReadTemps(r)
    PROVE  RefsInv'
  <1>1. PICK n \in Greatest(Temps) :
           job' = [job EXCEPT ![r] = [NoJob EXCEPT !.step = "draft", !.n = n + 1]]
    BY DEF ReadTemps
  <1>2. n \in Nat
    <2>1. Temps \subseteq Nat
      BY DEF Temps, RefsInv, RefsTypeOK, Ref
    <2>2. n \in Temps \cup {0}
      BY GreatestFacts
    <2> QED
      BY <2>1, <2>2
  <1>3. PICK j : j = [NoJob EXCEPT !.step = "draft", !.n = n + 1]
    OBVIOUS
  <1>4. j \in Job /\ j.step = "draft" /\ j.rec = None
    <2>1. n + 1 \in Nat
      BY <1>2
    <2> QED
      BY <1>3, <2>1, NoJobFacts DEF Job
  <1>5. lock.by # r
    BY NoNumberNoRow DEF ReadTemps
  <1> QED
    BY <1>1, <1>3, <1>4, <1>5, JobStep DEF ReadTemps

LEMMA CreateKeeps ==
    ASSUME RefsInv, NEW r \in Request, NEW atomic \in BOOLEAN, Create(r, atomic)
    PROVE  RefsInv'
  <1>1. PICK j : j = [NoJob EXCEPT !.step = "held", !.atomic = atomic]
    OBVIOUS
  <1>2. j \in Job /\ j.step = "held" /\ j.rec = None
    BY <1>1 DEF Job, NoJob
  <1>3. lock.by # r
    BY NoNumberNoRow DEF Create
  <1> QED
    BY <1>1, <1>2, <1>3, JobStep DEF Create

LEMMA ReadStartKeeps ==
    ASSUME RefsInv, NEW r \in Request, ReadStart(r)
    PROVE  RefsInv'
  <1>1. PICK n \in Start : job' = [job EXCEPT ![r].step = "start", ![r].n = n]
    BY DEF ReadStart
  <1>2. PICK j : j = [job[r] EXCEPT !.step = "start", !.n = n]
    OBVIOUS
  <1>3. job[r] \in Job /\ job \in [Request -> Job] /\ Numbers \subseteq Nat
    BY DEF RefsInv, RefsTypeOK, Numbers, Ref
  <1>4. n \in Nat /\ (family # "carton" => \A m \in Numbers : m <= n)
    <2>1. CASE family = "carton"
      BY <1>1, <2>1 DEF Start
    <2>2. CASE family = "receipt" /\ Numbers = {}
      <3>1. n = Cardinality({x \in Record : ref[x].kind # "absent"})
        BY <1>1, <2>2 DEF Start
      <3>2. n \in Nat
        BY <3>1, RecordsFinite, FS_Subset, FS_CardinalityType
      <3> QED
        BY <2>2, <3>2
    <2>3. CASE family # "carton" /\ ~ (family = "receipt" /\ Numbers = {})
      BY <1>1, <1>3, <2>3, GreatestFacts DEF Start
    <2> QED
      BY <2>1, <2>2, <2>3
  <1>5. /\ j \in Job /\ j.step = "start" /\ j.rec = job[r].rec /\ j.temp = job[r].temp /\ j.n = n
        /\ job' = [job EXCEPT ![r] = j]
    BY <1>1, <1>2, <1>3, <1>4 DEF Job
  <1>6. Fresh /\ family # "carton" => \A g \in given : g[2] <= j.n
    BY <1>4, <1>5 DEF RefsInv, Ahead
  <1>7. lock.by # r
    BY NoNumberNoRow DEF ReadStart, Needed
  <1> QED
    BY <1>5, <1>6, <1>7, JobStep DEF ReadStart, Needed

LEMMA SaveDraftKeeps ==
    ASSUME RefsInv, NEW r \in Request, SaveDraft(r)
    PROVE  RefsInv'
  <1>1. lock.by # r
    BY NoNumberNoRow DEF SaveDraft
  <1>2. CASE ref' = ref
    BY <1>1, <1>2, NoJobFacts, JobStep DEF SaveDraft
  <1>3. CASE ref' # ref
    <2>1. PICK x \in Record :
             /\ ref[x].kind = "absent"
             /\ ref' = [ref EXCEPT ![x] = [kind |-> "temp", n |-> job[r].n, active |-> FALSE]]
      BY <1>3 DEF SaveDraft
    <2>2. /\ job' = [job EXCEPT ![r] = NoJob]
          /\ UNCHANGED <<family, seq, lock, given, raced>>
      BY DEF SaveDraft
    <2>3. /\ ref \in [Record -> Ref] /\ job[r].n \in Nat
          /\ \A g \in given : g[1] \in Record
          /\ \A q \in Request : job'[q] = IF q = r THEN NoJob ELSE job[q]
          /\ job' \in [Request -> Job]
      BY <2>2, NoJobFacts DEF RefsInv, RefsTypeOK, Job
    <2>4. /\ ref' \in [Record -> Ref]
          /\ ref'[x].kind = "temp" /\ ref'[x].active = FALSE
          /\ \A y \in Record : y # x => ref'[y] = ref[y]
      BY <2>1, <2>3 DEF Ref, RefKind
    <2>5. RefsTypeOK'
      BY <2>2, <2>3, <2>4 DEF RefsInv, RefsTypeOK
    <2>6. LockHeld'
      BY <1>1, <2>2, <2>3 DEF RefsInv, RefsTypeOK, LockHeld
    <2>7. Numbers' = Numbers /\ Fresh' = Fresh
      <3>1. \A y \in Record : /\ ref'[y].kind = "number" <=> ref[y].kind = "number"
                              /\ ref[y].kind = "number" => ref'[y].n = ref[y].n
        BY <2>1, <2>4
      <3> QED
        BY <2>2, <3>1 DEF Numbers, Fresh
    <2>8. Ahead'
      BY <2>2, <2>3, <2>7, NoJobFacts DEF RefsInv, Ahead
    <2>9. \A g \in given : g[1] # x
      BY <2>1 DEF RefsInv, CopiesTrue
    <2>10. OnlyShipmentsLoaded'
      BY <2>2, <2>3, <2>4, <2>9, NoJobFacts DEF RefsInv, OnlyShipmentsLoaded
    <2>11. CopiesTrue'
      <3>1. \A y \in Record : y # None
        BY NoneIsNone
      <3>2. \A q \in Request, y \in Record :
               /\ job'[q].rec = y => job[q].rec = y /\ job'[q].temp = job[q].temp
               /\ HoldsTemp(q, y)' => HoldsTemp(q, y)
        BY <2>3, <3>1, NoJobFacts DEF HoldsTemp
      <3> QED
        BY <2>1, <2>2, <2>3, <2>4, <2>9, <3>2 DEF RefsInv, CopiesTrue
    <2>12. NumbersGivenOnce'
      BY <2>2, <2>4 DEF RefsInv, NumbersGivenOnce, NumbersUnshared, ActiveIsNumbered,
                        RenumberedOnlyRaced
    <2>13. OnlyDraftsNumbered'
      BY <2>3, NoJobFacts DEF RefsInv, OnlyDraftsNumbered
    <2> QED
      BY <2>5, <2>6, <2>8, <2>10, <2>11, <2>12, <2>13 DEF RefsInv
  <1> QED
    BY <1>2, <1>3

LEMMA LoadKeeps ==
    ASSUME RefsInv, NEW r \in Request, NEW x \in Record, NEW atomic \in BOOLEAN, Load(r, x, atomic)
    PROVE  RefsInv'
  <1>1. PICK j : j = [NoJob EXCEPT !.step = "held", !.rec = x, !.atomic = atomic,
                                   !.temp = ref[x].kind = "temp"]
    OBVIOUS
  <1>2. PICK t \in BOOLEAN : t = (ref[x].kind = "temp")
    OBVIOUS
  <1>3. j \in Job /\ j.step = "held" /\ j.rec = x /\ j.temp = t
    BY <1>1, <1>2, NoJobFacts DEF Job
  <1>4. /\ job' = [job EXCEPT ![r] = j]
        /\ raced' = IF ref[x].kind = "temp" /\ \E q \in Request : HoldsTemp(q, x)
                    THEN raced \cup {x} ELSE raced
        /\ family = "shipment" /\ ref[x].kind \in {"temp", "number"}
        /\ UNCHANGED <<family, seq, lock, ref, given>>
    BY <1>1 DEF Load, RefsInv, RefsTypeOK, Ref, RefKind
  <1>5. /\ \A q \in Request : job'[q] = IF q = r THEN j ELSE job[q]
        /\ job' \in [Request -> Job] /\ raced \subseteq raced' /\ raced' \in SUBSET Record
        /\ lock.by # r
    BY <1>3, <1>4, NoNumberNoRow DEF RefsInv, RefsTypeOK, Load
  <1>6. RefsTypeOK'
    BY <1>4, <1>5 DEF RefsInv, RefsTypeOK
  <1>7. LockHeld'
    BY <1>4, <1>5 DEF RefsInv, RefsTypeOK, LockHeld
  <1>8. Numbers' = Numbers /\ Fresh' = Fresh
    BY <1>4 DEF Numbers, Fresh
  <1>9. Ahead'
    BY <1>3, <1>4, <1>5, <1>8 DEF RefsInv, Ahead
  <1>10. OnlyShipmentsLoaded'
    BY <1>3, <1>4, <1>5 DEF RefsInv, OnlyShipmentsLoaded
  <1>11. CopiesTrue'
    <2>1. \A g \in given' : ref'[g[1]].kind = "number"
      BY <1>4 DEF RefsInv, CopiesTrue
    <2>2. ASSUME NEW q \in Request, NEW y \in Record
          PROVE  /\ job'[q].rec = y /\ ~ job'[q].temp => ref'[y].kind = "number"
                 /\ HoldsTemp(q, y)' /\ y \notin raced' => ref'[y].kind = "temp"
      BY <1>2, <1>3, <1>4, <1>5 DEF RefsInv, CopiesTrue, HoldsTemp
    <2>3. ASSUME NEW p \in Request, NEW q \in Request, NEW y \in Record,
                 HoldsTemp(p, y)', HoldsTemp(q, y)', y \notin raced', p # q
          PROVE  FALSE
      <3>1. CASE p # r /\ q # r
        BY <1>5, <2>3, <3>1 DEF RefsInv, CopiesTrue, HoldsTemp
      <3>2. CASE p = r \/ q = r
        <4>1. PICK o \in Request : o # r /\ HoldsTemp(o, y)'
          BY <2>3, <3>2
        <4>2. HoldsTemp(r, y)'
          BY <2>3, <3>2
        <4>3. y = x /\ t
          BY <1>3, <1>5, <4>2 DEF HoldsTemp
        <4>4. HoldsTemp(o, x)
          BY <1>5, <4>1, <4>3 DEF HoldsTemp
        <4> QED
          BY <1>2, <1>4, <2>3, <4>3, <4>4
      <3> QED
        BY <3>1, <3>2
    <2> QED
      BY <2>1, <2>2, <2>3 DEF CopiesTrue
  <1>12. NumbersGivenOnce'
    BY <1>4, <1>5 DEF RefsInv, NumbersGivenOnce, NumbersUnshared, ActiveIsNumbered,
                      RenumberedOnlyRaced
  <1>13. OnlyDraftsNumbered'
    BY <1>3, <1>5 DEF RefsInv, OnlyDraftsNumbered
  <1> QED
    BY <1>6, <1>7, <1>9, <1>10, <1>11, <1>12, <1>13 DEF RefsInv

LEMMA SaveStatusKeeps ==
    ASSUME RefsInv, NEW r \in Request, NEW active \in BOOLEAN, SaveStatus(r, active)
    PROVE  RefsInv'
  <1>1. PICK x : x = job[r].rec
    OBVIOUS
  <1>2. /\ ref \in [Record -> Ref] /\ x \in Record /\ (job[r].temp => ~ active)
        /\ ref' = [ref EXCEPT ![x].active = active]
        /\ job' = [job EXCEPT ![r] = NoJob]
        /\ UNCHANGED <<family, seq, lock, given, raced>>
        /\ lock.by # r
    BY <1>1, NoNumberNoRow DEF SaveStatus, RefsInv, RefsTypeOK, Job
  <1>3. /\ ref' \in [Record -> Ref]
        /\ \A y \in Record : ref'[y].kind = ref[y].kind /\ ref'[y].n = ref[y].n
        /\ \A y \in Record : y # x => ref'[y] = ref[y]
        /\ ref'[x].active = active
    BY <1>2 DEF Ref
  <1>4. /\ \A q \in Request : job'[q] = IF q = r THEN NoJob ELSE job[q]
        /\ job' \in [Request -> Job]
    BY <1>2, NoJobFacts DEF RefsInv, RefsTypeOK
  <1>5. RefsTypeOK'
    BY <1>2, <1>3, <1>4 DEF RefsInv, RefsTypeOK
  <1>6. LockHeld'
    BY <1>2, <1>4 DEF RefsInv, RefsTypeOK, LockHeld
  <1>7. Numbers' = Numbers /\ Fresh' = Fresh
    BY <1>2, <1>3 DEF Numbers, Fresh
  <1>8. Ahead'
    BY <1>2, <1>4, <1>7, NoJobFacts DEF RefsInv, Ahead
  <1>9. \A g \in given : g[1] \in Record
    BY DEF RefsInv, RefsTypeOK
  <1>10. OnlyShipmentsLoaded'
    BY <1>2, <1>3, <1>4, <1>9, NoJobFacts DEF RefsInv, OnlyShipmentsLoaded
  <1>11. CopiesTrue'
    <2>1. \A y \in Record : y # None
      BY NoneIsNone
    <2>2. \A q \in Request, y \in Record :
             /\ job'[q].rec = y => job[q].rec = y /\ job'[q].temp = job[q].temp
             /\ HoldsTemp(q, y)' => HoldsTemp(q, y)
      BY <1>4, <2>1, NoJobFacts DEF HoldsTemp
    <2> QED
      BY <1>2, <1>3, <1>9, <2>2 DEF RefsInv, CopiesTrue
  <1>12. ActiveIsNumbered'
    <2>1. ~ job[r].temp => ref[x].kind = "number"
      BY <1>1, <1>2 DEF RefsInv, CopiesTrue
    <2> QED
      BY <1>2, <1>3, <2>1 DEF RefsInv, NumbersGivenOnce, ActiveIsNumbered
  <1>13. NumbersUnshared' /\ RenumberedOnlyRaced'
    BY <1>2 DEF RefsInv, NumbersGivenOnce, NumbersUnshared, RenumberedOnlyRaced
  <1>14. OnlyDraftsNumbered'
    BY <1>4, NoJobFacts DEF RefsInv, OnlyDraftsNumbered
  <1> QED
    BY <1>5, <1>6, <1>8, <1>10, <1>11, <1>12, <1>13, <1>14 DEF RefsInv, NumbersGivenOnce

\* A request is given number n, beyond every number that was given or is in hand.
LEMMA GivenKeeps ==
    ASSUME RefsInv, NEW r \in Request, NEW n \in Nat, Given(r, n),
           lock.by = None, job[r].step # "number",
           job[r].rec # None => job[r].temp,
           seq # None => n = seq + 1,
           seq = None /\ family # "carton" => \A g \in given : g[2] < n
    PROVE  RefsInv'
  <1>1. /\ seq' = n /\ UNCHANGED <<family, ref, given, raced>>
        /\ lock' = IF job[r].atomic THEN [by |-> r, was |-> seq] ELSE lock
        /\ job' = [job EXCEPT ![r].step = "number", ![r].n = n]
        /\ job \in [Request -> Job] /\ seq \in Nat \cup {None} /\ lock.was = None
        /\ r # None /\ n # None /\ given \in SUBSET (Record \X Nat)
    BY NoneIsNone DEF Given, RefsInv, RefsTypeOK, LockHeld
  <1>2. /\ job'[r].step = "number" /\ job'[r].n = n /\ job'[r].rec = job[r].rec
        /\ job'[r].temp = job[r].temp
        /\ \A q \in Request : q # r => job'[q] = job[q]
        /\ job' \in [Request -> Job]
    <2>1. PICK j : j = [job[r] EXCEPT !.step = "number", !.n = n]
      OBVIOUS
    <2>2. /\ j \in Job /\ j.step = "number" /\ j.n = n /\ j.rec = job[r].rec
          /\ j.temp = job[r].temp
      BY <1>1, <2>1 DEF Job
    <2>3. job' = [job EXCEPT ![r] = j]
      BY <1>1, <2>1
    <2> QED
      BY <1>1, <2>2, <2>3
  <1>3. RefsTypeOK'
    BY <1>1, <1>2 DEF RefsInv, RefsTypeOK
  <1>4. LockHeld'
    BY <1>1, <1>2 DEF LockHeld
  <1>5. Numbers' = Numbers
    BY <1>1 DEF Numbers
  <1>6. ASSUME family # "carton" PROVE Ahead'
    <2>1. Ahead
      BY DEF RefsInv
    <2>2. \A g \in given : g[2] \in Nat /\ g[2] < n
      BY <1>1, <1>6, <2>1 DEF Ahead
    <2>3. \A q \in Request : q # r /\ job'[q].step = "number" =>
             seq # None /\ job'[q].n \in Nat /\ job'[q].n <= seq /\ job'[q].n < n
      BY <1>1, <1>2, <1>6, <2>1 DEF Ahead, Job
    <2>4. Fresh' => Fresh
      BY <1>1 DEF Fresh
    <2>5. /\ \A g \in given' : g[2] <= seq'
          /\ \A q \in Request : job'[q].step = "number" =>
                seq' # None /\ job'[q].n <= seq' /\ \A g \in given' : g[2] # job'[q].n
      BY <1>1, <1>2, <1>6, <2>1, <2>2, <2>3 DEF Ahead
    <2>6. \A p, q \in Request :
             job'[p].step = "number" /\ job'[q].step = "number" /\ job'[p].n = job'[q].n => p = q
      BY <1>2, <1>6, <2>1, <2>3 DEF Ahead
    <2>7. lock'.by # None =>
             /\ \A q \in Request : q # lock'.by /\ job'[q].step = "number" =>
                   lock'.was # None /\ job'[q].n <= lock'.was
             /\ lock'.was # None => \A g \in given' : g[2] <= lock'.was
      BY <1>1, <1>2, <1>6, <2>1, <2>3 DEF Ahead
    <2>8. Fresh' => \A g \in given' :
             /\ g[2] \in Numbers'
             /\ \A q \in Request : job'[q].step = "start" => g[2] <= job'[q].n
      BY <1>1, <1>2, <1>5, <1>6, <2>1, <2>4 DEF Ahead
    <2> QED
      BY <2>5, <2>6, <2>7, <2>8 DEF Ahead
  <1>7. Ahead'
    BY <1>1, <1>6 DEF Ahead
  <1>8. OnlyShipmentsLoaded'
    BY <1>1, <1>2 DEF RefsInv, OnlyShipmentsLoaded
  <1>9. CopiesTrue'
    <2>1. \A q \in Request : job'[q].rec = job[q].rec /\ job'[q].temp = job[q].temp
      BY <1>2
    <2> QED
      BY <1>1, <2>1 DEF RefsInv, CopiesTrue, HoldsTemp
  <1>10. NumbersGivenOnce'
    BY <1>1 DEF RefsInv, NumbersGivenOnce, NumbersUnshared, ActiveIsNumbered, RenumberedOnlyRaced
  <1>11. OnlyDraftsNumbered'
    BY <1>2 DEF RefsInv, OnlyDraftsNumbered
  <1> QED
    BY <1>3, <1>4, <1>7, <1>8, <1>9, <1>10, <1>11 DEF RefsInv

LEMMA TakeNumberKeeps ==
    ASSUME RefsInv, NEW r \in Request, TakeNumber(r)
    PROVE  RefsInv'
  <1>1. seq \in Nat
    BY DEF TakeNumber, RefsInv, RefsTypeOK
  <1>2. /\ seq # None /\ lock.by = None /\ job[r].step # "number"
        /\ job[r].rec # None => job[r].temp
    BY DEF TakeNumber, Needed
  <1> QED
    BY <1>1, <1>2, GivenKeeps DEF TakeNumber

LEMMA CreateSequenceKeeps ==
    ASSUME RefsInv, NEW r \in Request, CreateSequence(r)
    PROVE  RefsInv'
  <1>1. CASE seq = None
    <2>1. /\ job[r].n \in Nat /\ job[r].step = "start" /\ lock.by = None
          /\ \A g \in given : g[2] \in Nat
      BY DEF CreateSequence, RefsInv, RefsTypeOK, Job
    <2>2. family # "carton" => \A g \in given : g[2] < job[r].n + 1
      BY <1>1, <2>1 DEF RefsInv, Ahead, Fresh
    <2>3. job[r].rec # None => job[r].temp
      BY <2>1 DEF RefsInv, OnlyDraftsNumbered
    <2> QED
      BY <1>1, <2>1, <2>2, <2>3, GivenKeeps DEF CreateSequence
  <1>2. CASE seq # None
    BY <1>2, AbandonKeeps DEF CreateSequence
  <1> QED
    BY <1>1, <1>2

LEMMA TypeCodeKeeps ==
    ASSUME RefsInv, NEW x \in Record, NEW n \in Nat, TypeCode(x, n)
    PROVE  RefsInv'
  <1>1. /\ family = "carton" /\ ref[x].kind = "absent" /\ n \notin Numbers
        /\ ref' = [ref EXCEPT ![x] = [kind |-> "number", n |-> n, active |-> TRUE]]
        /\ given' = given \cup {<<x, n>>}
        /\ UNCHANGED <<family, seq, lock, job, raced>>
        /\ ref \in [Record -> Ref] /\ given \in SUBSET (Record \X Nat)
    BY DEF TypeCode, RefsInv, RefsTypeOK
  <1>2. /\ ref' \in [Record -> Ref]
        /\ ref'[x].kind = "number" /\ ref'[x].n = n
        /\ \A y \in Record : y # x => ref'[y] = ref[y]
        /\ given' \in SUBSET (Record \X Nat)
    BY <1>1 DEF Ref, RefKind
  <1>3. RefsTypeOK' /\ LockHeld' /\ Ahead'
    BY <1>1, <1>2 DEF RefsInv, RefsTypeOK, LockHeld, Ahead
  <1>4. \A g \in given : g[1] \in Record /\ g[1] # x /\ g[2] # n
    BY <1>1 DEF RefsInv, CopiesTrue, OnlyShipmentsLoaded, Numbers
  <1>5. \A g \in given' : g \in given \/ (g[1] = x /\ g[2] = n)
    BY <1>1
  <1>6. OnlyShipmentsLoaded'
    BY <1>1, <1>2, <1>4, <1>5 DEF RefsInv, OnlyShipmentsLoaded
  <1>7. CopiesTrue'
    <2>1. \A q \in Request, y \in Record : job[q].rec # y
      BY <1>1, NoneIsNone DEF RefsInv, OnlyShipmentsLoaded
    <2> QED
      BY <1>1, <1>2, <1>4, <1>5, <2>1 DEF RefsInv, CopiesTrue, HoldsTemp
  <1>8. ActiveIsNumbered'
    BY <1>2 DEF RefsInv, NumbersGivenOnce, ActiveIsNumbered
  <1>9. NumbersUnshared'
    BY <1>4, <1>5 DEF RefsInv, NumbersGivenOnce, NumbersUnshared
  <1>10. RenumberedOnlyRaced'
    <2>1. \A g, h \in given' : g[1] = x /\ h[1] = x => g = <<x, n>> /\ h = <<x, n>>
      BY <1>1, <1>4
    <2> QED
      BY <1>1, <1>4, <1>5, <2>1 DEF RefsInv, NumbersGivenOnce, RenumberedOnlyRaced
  <1>11. OnlyDraftsNumbered'
    BY <1>1 DEF RefsInv, OnlyDraftsNumbered
  <1> QED
    BY <1>3, <1>6, <1>7, <1>8, <1>9, <1>10, <1>11 DEF RefsInv, NumbersGivenOnce

\* The number in hand is saved: nobody has it, and whoever numbers a record that
\* has a number already holds a second copy of it.
LEMMA SaveRecordKeeps ==
    ASSUME RefsInv, NEW r \in Request, SaveRecord(r)
    PROVE  RefsInv'
  <1>1. CASE Unique /\ job[r].n \in Numbers
    BY <1>1, AbandonKeeps DEF SaveRecord
  <1>2. CASE ~ (Unique /\ job[r].n \in Numbers)
    <2>1. PICK n : n = job[r].n
      OBVIOUS
    <2>2. PICK x \in Record :
             /\ IF job[r].rec = None THEN ref[x].kind = "absent" ELSE x = job[r].rec
             /\ ref' = [ref EXCEPT ![x] =
                          [kind |-> "number", n |-> n, active |-> job[r].rec # None]]
             /\ given' = given \cup {<<x, n>>}
             /\ job' = [job EXCEPT ![r] = NoJob]
             /\ lock' = IF lock.by = r THEN [by |-> None, was |-> None] ELSE lock
             /\ UNCHANGED <<seq, family, raced>>
             /\ job[r].step = "number"
      BY <1>2, <2>1 DEF SaveRecord
    <2>3. /\ ref \in [Record -> Ref] /\ n \in Nat /\ given \in SUBSET (Record \X Nat)
          /\ lock \in [by: Request \cup {None}, was: Nat \cup {None}]
          /\ (job[r].rec # None) \in BOOLEAN /\ r # None
      BY <2>1, NoneIsNone DEF RefsInv, RefsTypeOK, Job
    <2>4. /\ ref' \in [Record -> Ref]
          /\ ref'[x].kind = "number" /\ ref'[x].n = n
          /\ \A y \in Record : y # x => ref'[y] = ref[y]
      BY <2>2, <2>3 DEF Ref, RefKind
    <2>5. /\ given' \in SUBSET (Record \X Nat)
          /\ \A g \in given' : g \in given \/ (g = <<x, n>> /\ g[1] = x /\ g[2] = n)
          /\ \A g \in given : g[1] \in Record
      BY <2>2, <2>3
    <2>6. /\ \A q \in Request : job'[q] = IF q = r THEN NoJob ELSE job[q]
          /\ job' \in [Request -> Job]
      BY <2>2, NoJobFacts DEF RefsInv, RefsTypeOK
    <2>7. /\ lock' \in [by: Request \cup {None}, was: Nat \cup {None}]
          /\ lock'.by # None => lock' = lock /\ lock.by # r
          /\ lock.by # r => lock' = lock
          /\ lock.by = r => lock'.by = None /\ lock'.was = None
      BY <2>2, <2>3
    <2>8. RefsTypeOK'
      BY <2>2, <2>4, <2>5, <2>6, <2>7 DEF RefsInv, RefsTypeOK
    <2>9. LockHeld'
      BY <2>2, <2>6, <2>7 DEF RefsInv, RefsTypeOK, LockHeld
    <2>10. ASSUME family # "carton"
           PROVE  Ahead' /\ \A g \in given : g[2] # n
      <3>1. /\ Ahead /\ seq # None /\ n <= seq /\ \A g \in given : g[2] # n
            /\ \A q \in Request : job[q].step = "number" /\ job[q].n = n => q = r
        BY <2>1, <2>2, <2>10 DEF RefsInv, Ahead
      <3>2. ~ Fresh'
        BY <2>1, <2>2, <2>7, <2>10, <3>1 DEF Fresh, Ahead
      <3>3. /\ \A g \in given' : g[2] <= seq'
            /\ \A q \in Request : job'[q].step = "number" =>
                  seq' # None /\ job'[q].n <= seq' /\ \A g \in given' : g[2] # job'[q].n
        BY <2>2, <2>5, <2>6, <2>10, <3>1, NoJobFacts DEF Ahead
      <3>4. \A p, q \in Request :
               job'[p].step = "number" /\ job'[q].step = "number" /\ job'[p].n = job'[q].n => p = q
        BY <2>6, <2>10, <3>1, NoJobFacts DEF Ahead
      <3>5. lock'.by # None =>
               /\ \A q \in Request : q # lock'.by /\ job'[q].step = "number" =>
                     lock'.was # None /\ job'[q].n <= lock'.was
               /\ lock'.was # None => \A g \in given' : g[2] <= lock'.was
        BY <2>1, <2>2, <2>5, <2>6, <2>7, <2>10, <3>1, NoJobFacts DEF Ahead
      <3> QED
        BY <3>1, <3>2, <3>3, <3>4, <3>5 DEF Ahead
    <2>11. Ahead'
      BY <2>2, <2>10 DEF Ahead
    <2>12. family = "carton" => ref[x].kind = "absent"
      BY <2>2 DEF RefsInv, OnlyShipmentsLoaded
    <2>13. ref[x].kind # "number" => \A g \in given : g[1] # x
      BY DEF RefsInv, CopiesTrue
    <2>14. OnlyShipmentsLoaded'
      BY <2>2, <2>4, <2>5, <2>6, <2>12, <2>13, NoJobFacts DEF RefsInv, OnlyShipmentsLoaded
    <2>15. job[r].rec # None => x = job[r].rec
      BY <2>2
    <2>16. ref[x].kind = "temp" /\ x \notin raced => HoldsTemp(r, x)
      <3>1. ref[x].kind = "temp" => job[r].rec = x
        BY <2>2
      <3> QED
        BY <3>1 DEF RefsInv, CopiesTrue, HoldsTemp
    <2>17. CopiesTrue'
      <3>1. \A y \in Record : y # None
        BY NoneIsNone
      <3>2. \A q \in Request, y \in Record :
               /\ job'[q].rec = y => q # r /\ job[q].rec = y /\ job'[q].temp = job[q].temp
               /\ HoldsTemp(q, y)' => q # r /\ HoldsTemp(q, y)
        BY <2>6, <3>1, NoJobFacts DEF HoldsTemp
      <3>3. \A q \in Request : HoldsTemp(q, x) /\ x \notin raced => q = r
        BY <2>16 DEF RefsInv, CopiesTrue
      <3>4. \A g \in given' : ref'[g[1]].kind = "number"
        BY <2>4, <2>5 DEF RefsInv, CopiesTrue
      <3>5. ASSUME NEW q \in Request, NEW y \in Record
            PROVE  /\ job'[q].rec = y /\ ~ job'[q].temp => ref'[y].kind = "number"
                   /\ HoldsTemp(q, y)' /\ y \notin raced' => ref'[y].kind = "temp"
        BY <2>2, <2>4, <3>2, <3>3 DEF RefsInv, CopiesTrue
      <3> QED
        BY <2>2, <3>2, <3>4, <3>5 DEF RefsInv, CopiesTrue
    <2>18. ActiveIsNumbered'
      BY <2>4 DEF RefsInv, NumbersGivenOnce, ActiveIsNumbered
    <2>19. \A g \in given : g[2] # n
      <3>1. CASE family = "carton"
        <4>1. n \notin Numbers
          BY <1>2, <2>1, <3>1 DEF Unique
        <4> QED
          BY <2>5, <3>1, <4>1 DEF RefsInv, OnlyShipmentsLoaded, Numbers
      <3> QED
        BY <2>10, <3>1
    <2>20. NumbersUnshared'
      BY <2>5, <2>19 DEF RefsInv, NumbersGivenOnce, NumbersUnshared
    <2>21. x \notin raced => \A g \in given : g[1] # x
      <3>1. CASE job[r].rec = None
        BY <2>2, <2>13, <3>1
      <3>2. CASE job[r].rec = x /\ job[r].temp
        BY <2>13, <3>2 DEF RefsInv, CopiesTrue, HoldsTemp
      <3>3. CASE job[r].rec = x /\ ~ job[r].temp
        BY <2>2, <3>3, NoneIsNone DEF RefsInv, OnlyDraftsNumbered
      <3> QED
        BY <2>15, <3>1, <3>2, <3>3
    <2>22. RenumberedOnlyRaced'
      BY <2>2, <2>5, <2>21 DEF RefsInv, NumbersGivenOnce, RenumberedOnlyRaced
    <2>23. OnlyDraftsNumbered'
      BY <2>6, NoJobFacts DEF RefsInv, OnlyDraftsNumbered
    <2> QED
      BY <2>8, <2>9, <2>11, <2>14, <2>17, <2>18, <2>20, <2>22, <2>23 DEF RefsInv, NumbersGivenOnce
  <1> QED
    BY <1>1, <1>2

LEMMA RefsStepKeeps == RefsInv /\ [RefsNext]_refVars => RefsInv'
  <1> SUFFICES ASSUME RefsInv, [RefsNext]_refVars PROVE RefsInv'
    OBVIOUS
  <1>1. ASSUME NEW r \in Request, Fail(r) PROVE RefsInv'
    BY <1>1, AbandonKeeps DEF Fail
  <1>2. ASSUME NEW x \in Record, NEW n \in 1..MaxNumber, TypeCode(x, n) PROVE RefsInv'
    <2>1. n \in Nat
      OBVIOUS
    <2> QED
      BY <1>2, <2>1, TypeCodeKeeps
  <1>3. ASSUME NEW r \in Request, NEW b \in BOOLEAN,
               Create(r, b) \/ SaveStatus(r, b) \/ \E x \in Record : Load(r, x, b)
        PROVE  RefsInv'
    BY <1>3, CreateKeeps, SaveStatusKeeps, LoadKeeps
  <1>4. ASSUME NEW r \in Request,
               \/ ReadTemps(r) \/ SaveDraft(r) \/ TakeNumber(r)
               \/ ReadStart(r) \/ CreateSequence(r) \/ SaveRecord(r)
        PROVE  RefsInv'
    BY <1>4, ReadTempsKeeps, SaveDraftKeeps, TakeNumberKeeps, ReadStartKeeps,
       CreateSequenceKeeps, SaveRecordKeeps
  <1>5. CASE UNCHANGED refVars
    <2>1. Numbers' = Numbers /\ Fresh' = Fresh
      BY <1>5 DEF refVars, Numbers, Fresh
    <2>2. RefsTypeOK' /\ LockHeld' /\ Ahead'
      BY <1>5, <2>1 DEF refVars, RefsInv, RefsTypeOK, LockHeld, Ahead
    <2> QED
      BY <1>5, <2>2 DEF refVars, RefsInv, OnlyShipmentsLoaded, CopiesTrue, HoldsTemp,
                        OnlyDraftsNumbered, NumbersGivenOnce, NumbersUnshared,
                        ActiveIsNumbered, RenumberedOnlyRaced
  <1> QED
    BY <1>1, <1>2, <1>3, <1>4, <1>5 DEF RefsNext

(***************************************************************************)
(* Theorems.                                                               *)
(***************************************************************************)
\* The invariant of the sequences: the row is ahead of what was given and of
\* what is in hand, in every transaction's view of it.
THEOREM SequencesStayAhead == RefsSpec => []RefsInv
  BY RefsInitHolds, RefsStepKeeps, PTL DEF RefsSpec

\* Receipts, shipments, cartons and the jobs that number them keep their types.
THEOREM RefsTypeCorrect == RefsSpec => []RefsTypeOK
  <1>1. RefsInv => RefsTypeOK
    BY DEF RefsInv
  <1> QED
    BY <1>1, SequencesStayAhead, PTL

\* No two records are ever saved with one number, no shipment leaves the drafts
\* without a number, and only one that two requests held as a draft is numbered
\* twice.
THEOREM NumbersStayGivenOnce == RefsSpec => []NumbersGivenOnce
  <1>1. RefsInv => NumbersGivenOnce
    BY DEF RefsInv
  <1> QED
    BY <1>1, SequencesStayAhead, PTL

-------------------------------------------------------------------------------
(***************************************************************************)
(* Receipts: a receipt is received when each of its lines has its lot.     *)
(***************************************************************************)
ReceiptSettled == receipt = "received" <=> Present # {} /\ Pending = {}
OneLot == \A l \in Line : line[l].lots = IF line[l].state = "received" THEN 1 ELSE 0

\* What the request x may count on while it is the only one.
Relies(x) ==
    x.step # "idle" =>
        /\ x.copy = receipt
        /\ x.step = "page" => ~x.listing /\ ReceiptSettled
        /\ x.step = "listing" => x.listing /\ ReceiptSettled /\ Pending = {}
        /\ x.step \in {"lines", "txn"} =>
             /\ x.todo \subseteq Pending
             /\ x.listing => \E l \in Line : x.todo = {l} /\ Pending = {l}
             /\ ~x.listing => ReceiptSettled
        /\ x.step = "txn" => x.cur \in x.todo /\ x.remaining = Remaining(x.cur)

Untouched ==
    receipt = "absent" => Present = {} /\ \A c \in Clerk : clerk[c].step = "idle"

Alone == \A c, d \in Clerk : clerk[c].step # "idle" /\ clerk[d].step # "idle" => c = d

ReceiptsInv ==
    /\ ReceiptsTypeOK
    /\ Untouched
    /\ overlapped \/ Alone
    /\ overlapped \/ cut \/
         /\ OneLot
         /\ \A c \in Clerk : Relies(clerk[c])
         /\ (\A c \in Clerk : clerk[c].step = "idle") => ReceiptSettled

LEMMA ReceiptsImplied == ReceiptsInv => ReceiptsSettled
  <1> SUFFICES ASSUME ReceiptsInv, ~overlapped, ~cut, \A c \in Clerk : clerk[c].step = "idle"
               PROVE  /\ receipt = "received" <=> Present # {} /\ Pending = {}
                      /\ \A l \in Present : line[l].state = "received" <=> line[l].lots = 1
    BY DEF ReceiptsSettled
  <1>1. ReceiptSettled /\ OneLot
    BY DEF ReceiptsInv
  <1> QED
    BY <1>1 DEF ReceiptSettled, OneLot, Present

LEMMA NoWorkFacts == NoWork \in Work /\ NoWork.step = "idle"
  BY DEF NoWork, Work, ReceiptStatus

LEMMA ReceiptsInitHolds == ReceiptsInit => ReceiptsInv
  <1> SUFFICES ASSUME ReceiptsInit PROVE ReceiptsInv
    OBVIOUS
  <1>1. /\ receipt = "absent" /\ \A c \in Clerk : clerk[c] = NoWork
        /\ \A l \in Line : line[l].state = "absent" /\ line[l].lots = 0
    BY DEF ReceiptsInit
  <1>2. ReceiptsTypeOK
    BY NoWorkFacts DEF ReceiptsInit, ReceiptsTypeOK, ReceiptStatus, LineRow
  <1>3. Present = {} /\ Pending = {}
    BY <1>1 DEF Present, Pending
  <1> QED
    BY <1>1, <1>2, <1>3, NoWorkFacts
    DEF ReceiptsInv, Untouched, Alone, OneLot, Relies, ReceiptSettled

\* A step of the request c, which goes on as x, on a receipt that exists.
LEMMA OneClerk ==
    ASSUME ReceiptsInv, NEW c \in Clerk, clerk[c].step # "idle", NEW x \in Work,
           clerk' = [clerk EXCEPT ![c] = x],
           line' \in [Line -> LineRow], receipt' \in ReceiptStatus, receipt' # "absent",
           overlapped' = overlapped, cut' \in BOOLEAN, cut => cut',
           overlapped \/ cut' \/ (OneLot' /\ Relies(x)' /\ (x.step = "idle" => ReceiptSettled'))
    PROVE  ReceiptsInv'
  <1>1. clerk' \in [Clerk -> Work] /\ \A d \in Clerk : clerk'[d] = IF d = c THEN x ELSE clerk[d]
    BY DEF ReceiptsInv, ReceiptsTypeOK
  <1>2. ReceiptsTypeOK' /\ Untouched'
    BY <1>1 DEF ReceiptsInv, ReceiptsTypeOK, Untouched
  <1>3. overlapped \/ \A d \in Clerk : d # c => clerk'[d].step = "idle"
    BY <1>1 DEF ReceiptsInv, Alone
  <1>4. overlapped' \/ Alone'
    BY <1>3 DEF Alone
  <1>5. ASSUME ~overlapped', ~cut'
        PROVE  /\ OneLot'
               /\ \A d \in Clerk : Relies(clerk[d])'
               /\ (\A d \in Clerk : clerk'[d].step = "idle") => ReceiptSettled'
    <2>1. ASSUME NEW d \in Clerk PROVE Relies(clerk[d])'
      <3>1. CASE d = c
        <4>1. clerk'[d] = x /\ Relies(x)'
          BY <1>1, <1>5, <3>1
        <4> QED
          BY <4>1 DEF Relies, ReceiptSettled, Pending, Present, Remaining
      <3>2. CASE d # c
        BY <1>3, <1>5, <3>2 DEF Relies
      <3> QED
        BY <3>1, <3>2
    <2> QED
      BY <1>1, <1>5, <2>1
  <1> QED
    BY <1>2, <1>4, <1>5 DEF ReceiptsInv

LEMMA CreateReceiptKeeps ==
    ASSUME ReceiptsInv, NEW c \in Clerk, NEW listing \in BOOLEAN, CreateReceipt(c, listing)
    PROVE  ReceiptsInv'
  <1>1. PICK x : x = IF listing THEN [NoWork EXCEPT !.step = "listing", !.listing = TRUE, !.copy = "draft"]
                     ELSE NoWork
    OBVIOUS
  <1>2. /\ x \in Work /\ x.step \in {"idle", "listing"}
        /\ x.step = "listing" => x.listing /\ x.copy = "draft"
    BY <1>1 DEF NoWork, Work, ReceiptStatus
  <1>3. /\ receipt' = "draft" /\ clerk' = [clerk EXCEPT ![c] = x]
        /\ UNCHANGED <<line, overlapped, cut>>
        /\ Present = {} /\ \A d \in Clerk : clerk[d].step = "idle"
    BY <1>1 DEF CreateReceipt, ReceiptsInv, Untouched
  <1>4. clerk' \in [Clerk -> Work] /\ \A d \in Clerk : clerk'[d] = IF d = c THEN x ELSE clerk[d]
    BY <1>2, <1>3 DEF ReceiptsInv, ReceiptsTypeOK
  <1>5. ReceiptsTypeOK' /\ Untouched' /\ Alone'
    BY <1>3, <1>4 DEF ReceiptsInv, ReceiptsTypeOK, ReceiptStatus, Untouched, Alone
  <1>6. Present' = {} /\ Pending' = {} /\ ReceiptSettled'
    BY <1>3 DEF Present, Pending, ReceiptSettled
  <1>7. \A d \in Clerk : Relies(clerk[d])'
    BY <1>2, <1>3, <1>4, <1>6 DEF Relies
  <1>8. overlapped' \/ cut' \/ OneLot'
    BY <1>3 DEF ReceiptsInv, OneLot
  <1> QED
    BY <1>5, <1>6, <1>7, <1>8 DEF ReceiptsInv

LEMMA LoadReceiptKeeps ==
    ASSUME ReceiptsInv, NEW c \in Clerk, LoadReceipt(c)
    PROVE  ReceiptsInv'
  <1>1. PICK x : x = [NoWork EXCEPT !.step = "page", !.copy = receipt]
    OBVIOUS
  <1>2. x \in Work /\ x.step = "page" /\ x.copy = receipt /\ x.listing = FALSE
    BY <1>1 DEF NoWork, Work, ReceiptsInv, ReceiptsTypeOK
  <1>3. /\ receipt # "absent" /\ clerk' = [clerk EXCEPT ![c] = x] /\ clerk[c].step = "idle"
        /\ UNCHANGED <<receipt, line, cut>> /\ overlapped' = (overlapped \/ Others(c))
    BY <1>1 DEF LoadReceipt
  <1>4. clerk' \in [Clerk -> Work] /\ \A d \in Clerk : clerk'[d] = IF d = c THEN x ELSE clerk[d]
    BY <1>2, <1>3 DEF ReceiptsInv, ReceiptsTypeOK
  <1>5. ReceiptsTypeOK' /\ Untouched'
    BY <1>3, <1>4 DEF ReceiptsInv, ReceiptsTypeOK, Untouched, Others
  <1>6. ~overlapped' => ~overlapped /\ \A d \in Clerk : clerk[d].step = "idle"
    BY <1>3 DEF Others
  <1>7. overlapped' \/ Alone'
    BY <1>4, <1>6 DEF Alone
  <1>8. overlapped' \/ cut' \/ (OneLot /\ ReceiptSettled)
    BY <1>3, <1>6 DEF ReceiptsInv
  <1>9. OneLot <=> OneLot'
    BY <1>3 DEF OneLot
  <1>10. ReceiptSettled <=> ReceiptSettled'
    BY <1>3 DEF ReceiptSettled, Present, Pending
  <1>11. overlapped' \/ cut' \/ \A d \in Clerk : Relies(clerk[d])'
    BY <1>2, <1>3, <1>4, <1>6, <1>8, <1>10 DEF Relies
  <1> QED
    BY <1>5, <1>7, <1>8, <1>9, <1>10, <1>11 DEF ReceiptsInv

\* Between requests, a line that is pending belongs to a receipt that is a draft.
LEMMA AddLineKeeps ==
    ASSUME ReceiptsInv, NEW c \in Clerk, NEW l \in Line, NEW now \in BOOLEAN, AddLine(c, l, now)
    PROVE  ReceiptsInv'
  <1>1. PICK x : x = IF now THEN [clerk[c] EXCEPT !.step = "lines", !.todo = {l}] ELSE NoWork
    OBVIOUS
  <1>2. /\ clerk[c] \in Work /\ line \in [Line -> LineRow] /\ receipt \in ReceiptStatus
        /\ clerk[c].step \in {"page", "listing"} /\ overlapped' = overlapped /\ cut' = cut
        /\ receipt' = receipt /\ receipt # "absent" /\ line[l].state = "absent"
        /\ clerk' = [clerk EXCEPT ![c] = x] /\ cut \in BOOLEAN
    BY <1>1 DEF AddLine, ReceiptsInv, ReceiptsTypeOK, Untouched
  <1>3. /\ x \in Work /\ x.step = IF now THEN "lines" ELSE "idle"
        /\ now => x.todo = {l} /\ x.copy = clerk[c].copy /\ x.listing = clerk[c].listing
    BY <1>1, <1>2, NoWorkFacts DEF Work
  <1>4. PICK r : r = [line[l] EXCEPT !.state = "pending"]
    OBVIOUS
  <1>5. r \in LineRow /\ r.state = "pending" /\ r.lots = line[l].lots
    BY <1>2, <1>4 DEF LineRow
  <1>6. /\ line' \in [Line -> LineRow] /\ \A o \in Line : line'[o] = IF o = l THEN r ELSE line[o]
    BY <1>2, <1>4, <1>5 DEF AddLine
  <1>7. Pending' = Pending \cup {l} /\ Present' = Present \cup {l}
    BY <1>2, <1>5, <1>6 DEF Pending, Present
  <1>8. ASSUME ~overlapped, ~cut
        PROVE  OneLot' /\ Relies(x)' /\ (x.step = "idle" => ReceiptSettled')
    <2>1. OneLot /\ Relies(clerk[c])
      BY <1>8 DEF ReceiptsInv
    <2>2. OneLot'
      BY <1>2, <1>5, <1>6, <2>1 DEF OneLot
    <2>3. CASE clerk[c].step = "page"
      <3>1. clerk[c].copy = "draft" /\ receipt = "draft" /\ ~clerk[c].listing
        BY <2>1, <2>3 DEF AddLine, Relies
      <3>2. ReceiptSettled'
        BY <1>2, <1>7, <3>1 DEF ReceiptSettled
      <3> QED
        BY <1>2, <1>3, <1>7, <2>2, <3>1, <3>2 DEF Relies
    <2>4. CASE clerk[c].step = "listing"
      <3>1. now /\ clerk[c].copy = receipt /\ clerk[c].listing /\ Pending = {}
        BY <2>1, <2>4 DEF AddLine, Relies
      <3> QED
        BY <1>2, <1>3, <1>7, <2>2, <3>1 DEF Relies
    <2> QED
      BY <1>2, <2>3, <2>4
  <1> QED
    BY <1>2, <1>3, <1>6, <1>8, OneClerk

LEMMA ReadLinesKeeps ==
    ASSUME ReceiptsInv, NEW c \in Clerk, ReadLines(c)
    PROVE  ReceiptsInv'
  <1>1. PICK x : x = [clerk[c] EXCEPT !.step = "lines", !.todo = Pending]
    OBVIOUS
  <1>2. /\ clerk[c] \in Work /\ clerk[c].step = "page" /\ UNCHANGED <<receipt, line, overlapped, cut>>
        /\ receipt # "absent" /\ cut \in BOOLEAN
    BY DEF ReadLines, ReceiptsInv, ReceiptsTypeOK, Untouched
  <1>3. /\ x \in Work /\ x.step = "lines" /\ x.todo = Pending /\ x.copy = clerk[c].copy
        /\ x.listing = clerk[c].listing
    BY <1>1, <1>2 DEF Work, Pending
  <1>4. clerk' = [clerk EXCEPT ![c] = x]
    BY <1>1 DEF ReadLines, ReceiptsInv, ReceiptsTypeOK
  <1>5. ASSUME ~overlapped, ~cut PROVE OneLot' /\ Relies(x)'
    <2>1. OneLot /\ Relies(clerk[c])
      BY <1>5 DEF ReceiptsInv
    <2> QED
      BY <1>2, <1>3, <2>1 DEF Relies, OneLot, ReceiptSettled, Present, Pending
  <1> QED
    BY <1>2, <1>3, <1>4, <1>5, OneClerk DEF ReceiptsInv, ReceiptsTypeOK

LEMMA BeginLineKeeps ==
    ASSUME ReceiptsInv, NEW c \in Clerk, NEW l \in Line, BeginLine(c, l)
    PROVE  ReceiptsInv'
  <1>1. PICK x : x = [clerk[c] EXCEPT !.step = "txn", !.cur = l, !.remaining = Remaining(l)]
    OBVIOUS
  <1>2. /\ clerk[c] \in Work /\ clerk[c].step = "lines" /\ l \in clerk[c].todo
        /\ UNCHANGED <<receipt, line, overlapped, cut>>
        /\ receipt # "absent" /\ cut \in BOOLEAN
    BY DEF BeginLine, ReceiptsInv, ReceiptsTypeOK, Untouched
  <1>3. /\ x \in Work /\ x.step = "txn" /\ x.todo = clerk[c].todo /\ x.copy = clerk[c].copy
        /\ x.listing = clerk[c].listing /\ x.cur = l /\ x.remaining = Remaining(l)
    BY <1>1, <1>2 DEF Work, Remaining
  <1>4. clerk' = [clerk EXCEPT ![c] = x]
    BY <1>1 DEF BeginLine, ReceiptsInv, ReceiptsTypeOK
  <1>5. ASSUME ~overlapped, ~cut PROVE OneLot' /\ Relies(x)'
    <2>1. OneLot /\ Relies(clerk[c])
      BY <1>5 DEF ReceiptsInv
    <2>2. Pending' = Pending /\ Present' = Present /\ (ReceiptSettled' <=> ReceiptSettled) /\ (OneLot' <=> OneLot)
      BY <1>2 DEF OneLot, ReceiptSettled, Present, Pending
    <2> QED
      BY <1>2, <1>3, <2>1, <2>2 DEF Relies, Remaining
  <1> QED
    BY <1>2, <1>3, <1>4, <1>5, OneClerk DEF ReceiptsInv, ReceiptsTypeOK

\* What a request goes on with.
LEMMA GoesFacts ==
    ASSUME ReceiptsTypeOK, NEW c \in Clerk, NEW copy \in ReceiptStatus, Goes(c, copy)
    PROVE  \E x \in Work :
             LET left == clerk[c].todo \ {clerk[c].cur}
             IN  /\ clerk' = [clerk EXCEPT ![c] = x]
                 /\ IF left = {} /\ ~clerk[c].listing THEN x.step = "idle"
                    ELSE /\ x.step = IF left = {} THEN "listing" ELSE "lines"
                         /\ x.copy = copy /\ x.todo = left /\ x.listing = clerk[c].listing
  <1> DEFINE left == clerk[c].todo \ {clerk[c].cur}
  <1>1. clerk[c] \in Work /\ left \subseteq Line
    BY DEF ReceiptsTypeOK, Work
  <1>2. PICK x : x = IF left = {} /\ ~clerk[c].listing THEN NoWork
                     ELSE [clerk[c] EXCEPT !.step = IF left = {} THEN "listing" ELSE "lines",
                                           !.copy = copy, !.todo = left,
                                           !.cur = NoLine, !.remaining = FALSE]
    OBVIOUS
  <1>3. clerk' = [clerk EXCEPT ![c] = x]
    BY <1>2 DEF Goes
  <1> HIDE DEF left
  <1>4. CASE left = {} /\ ~clerk[c].listing
    BY <1>2, <1>3, <1>4, NoWorkFacts DEF left
  <1>5. CASE ~(left = {} /\ ~clerk[c].listing)
    <2>1. /\ x \in Work /\ x.step = IF left = {} THEN "listing" ELSE "lines"
          /\ x.copy = copy /\ x.todo = left /\ x.listing = clerk[c].listing
      BY <1>1, <1>2, <1>5 DEF Work
    <2> QED
      BY <1>3, <1>5, <2>1 DEF left
  <1> QED
    BY <1>4, <1>5

LEMMA CommitLineKeeps ==
    ASSUME ReceiptsInv, NEW c \in Clerk, CommitLine(c)
    PROVE  ReceiptsInv'
  <1> DEFINE w == clerk[c]
             done == w.copy = "draft" /\ ~w.remaining
             l == w.cur
  <1>1. /\ w \in Work /\ w.step = "txn" /\ overlapped' = overlapped /\ cut' = cut
        /\ line \in [Line -> LineRow] /\ receipt \in ReceiptStatus /\ receipt # "absent"
        /\ cut \in BOOLEAN /\ w.copy \in ReceiptStatus
    BY DEF CommitLine, ReceiptsInv, ReceiptsTypeOK, Untouched, Work
  <1>2. /\ receipt' = IF done THEN "received" ELSE receipt
        /\ Goes(c, IF done THEN "received" ELSE w.copy)
    BY DEF CommitLine
  <1>3. PICK copy \in ReceiptStatus : copy = IF done THEN "received" ELSE w.copy
    BY <1>1 DEF ReceiptStatus
  <1>4. PICK x \in Work :
             LET left == clerk[c].todo \ {clerk[c].cur}
             IN  /\ clerk' = [clerk EXCEPT ![c] = x]
                 /\ IF left = {} /\ ~clerk[c].listing THEN x.step = "idle"
                    ELSE /\ x.step = IF left = {} THEN "listing" ELSE "lines"
                         /\ x.copy = copy /\ x.todo = left /\ x.listing = clerk[c].listing
    <2>1. Goes(c, copy)
      BY <1>2, <1>3
    <2> QED
      BY <2>1, GoesFacts DEF ReceiptsInv
  <1>5. /\ line' = [line EXCEPT ![l].state = "received", ![l].lots = @ + 1]
    BY DEF CommitLine
  <1>6. line' \in [Line -> LineRow]
    <2>1. PICK r : r = [line[l] EXCEPT !.state = "received", !.lots = @ + 1]
      OBVIOUS
    <2> HIDE DEF l
    <2>2. ASSUME l \in Line PROVE r \in LineRow
      <3>1. line[l] \in LineRow /\ line[l].lots + 1 \in Nat
        BY <1>1, <2>2 DEF LineRow
      <3> QED
        BY <2>1, <3>1 DEF LineRow
    <2>4. CASE l \in Line
      <3>1. line' = [line EXCEPT ![l] = r]
        BY <1>1, <1>5, <2>1, <2>4
      <3> QED
        BY <1>1, <2>2, <2>4, <3>1
    <2>5. CASE l \notin Line
      <3>1. line' = line
        BY <1>1, <1>5, <2>5
      <3> QED
        BY <1>1, <3>1
    <2> QED
      BY <2>4, <2>5
  <1>7. receipt' \in ReceiptStatus /\ receipt' # "absent"
    BY <1>1, <1>2 DEF ReceiptStatus
  <1>8. ASSUME ~overlapped, ~cut
        PROVE  OneLot' /\ Relies(x)' /\ (x.step = "idle" => ReceiptSettled')
    <2>1. OneLot /\ Relies(w)
      BY <1>8 DEF ReceiptsInv
    <2>2. /\ l \in w.todo /\ w.todo \subseteq Pending /\ w.copy = receipt /\ w.remaining = Remaining(l)
          /\ w.listing => \E o \in Line : w.todo = {o} /\ Pending = {o}
          /\ ~w.listing => ReceiptSettled
      BY <1>1, <2>1 DEF Relies
    <2> HIDE DEF w
    <2>3. l \in Line /\ line[l].state = "pending" /\ line[l].lots = 0
      BY <2>1, <2>2 DEF Pending, OneLot
    <2>4. /\ line'[l].state = "received" /\ line'[l].lots = 1
          /\ \A o \in Line : o # l => line'[o] = line[o]
      <3>1. PICK r : r = [line[l] EXCEPT !.state = "received", !.lots = @ + 1]
        OBVIOUS
      <3>2. r.state = "received" /\ r.lots = 1
        BY <1>1, <2>3, <3>1 DEF LineRow
      <3>3. line' = [line EXCEPT ![l] = r]
        BY <1>1, <1>5, <2>3, <3>1
      <3> QED
        BY <1>1, <2>3, <3>2, <3>3
    <2>5. Pending' = Pending \ {l} /\ Present' = Present /\ l \in Present
      BY <2>3, <2>4 DEF Pending, Present
    <2>6. OneLot'
      BY <2>1, <2>4 DEF OneLot
    <2>7. receipt' = copy
      BY <1>2, <1>3, <2>2
    <2>8. done <=> receipt = "draft" /\ Pending' = {}
      BY <2>2, <2>5 DEF Remaining
    <2>9. ReceiptSettled'
      <3>1. Pending' = {} => receipt' = "received"
        BY <1>1, <1>2, <2>8 DEF ReceiptStatus
      <3>2. CASE w.listing
        BY <2>2, <2>5, <3>1, <3>2 DEF ReceiptSettled
      <3>3. CASE ~w.listing
        <4>1. receipt # "received"
          BY <2>2, <3>3 DEF ReceiptSettled
        <4>2. receipt' = "received" => Pending' = {}
          BY <1>2, <2>8, <4>1
        <4> QED
          BY <2>5, <3>1, <4>2 DEF ReceiptSettled
      <3> QED
        BY <3>2, <3>3
    <2>10. w.listing => Pending' = {} /\ w.todo \ {l} = {}
      BY <2>2, <2>5
    <2>11. w.todo \ {l} \subseteq Pending'
      BY <2>2, <2>5
    <2>12. IF w.todo \ {l} = {} /\ ~w.listing THEN x.step = "idle"
           ELSE /\ x.step = IF w.todo \ {l} = {} THEN "listing" ELSE "lines"
                /\ x.copy = copy /\ x.todo = w.todo \ {l} /\ x.listing = w.listing
      BY <1>4 DEF w
    <2>13. Relies(x)'
      BY <2>7, <2>9, <2>10, <2>11, <2>12 DEF Relies
    <2> QED
      BY <2>6, <2>9, <2>13
  <1> QED
    BY <1>1, <1>4, <1>6, <1>7, <1>8, OneClerk

LEMMA RefuseLineKeeps ==
    ASSUME ReceiptsInv, NEW c \in Clerk, RefuseLine(c)
    PROVE  ReceiptsInv'
  <1>1. /\ clerk[c] \in Work /\ clerk[c].step = "txn" /\ ~clerk[c].listing
        /\ UNCHANGED <<receipt, line, overlapped, cut>>
        /\ receipt # "absent" /\ cut \in BOOLEAN /\ clerk[c].copy \in ReceiptStatus
    BY DEF RefuseLine, ReceiptsInv, ReceiptsTypeOK, Untouched, Work
  <1>2. PICK x \in Work :
             LET left == clerk[c].todo \ {clerk[c].cur}
             IN  /\ clerk' = [clerk EXCEPT ![c] = x]
                 /\ IF left = {} /\ ~clerk[c].listing THEN x.step = "idle"
                    ELSE /\ x.step = IF left = {} THEN "listing" ELSE "lines"
                         /\ x.copy = clerk[c].copy /\ x.todo = left /\ x.listing = clerk[c].listing
    BY <1>1, GoesFacts DEF RefuseLine, ReceiptsInv
  <1>3. ASSUME ~overlapped, ~cut
        PROVE  OneLot' /\ Relies(x)' /\ (x.step = "idle" => ReceiptSettled')
    <2>1. OneLot /\ Relies(clerk[c])
      BY <1>3 DEF ReceiptsInv
    <2>2. Pending' = Pending /\ Present' = Present /\ (ReceiptSettled' <=> ReceiptSettled) /\ (OneLot' <=> OneLot)
      BY <1>1 DEF OneLot, ReceiptSettled, Present, Pending
    <2>3. ReceiptSettled /\ clerk[c].todo \subseteq Pending /\ clerk[c].copy = receipt
      BY <1>1, <2>1 DEF Relies
    <2> QED
      BY <1>1, <1>2, <2>1, <2>2, <2>3 DEF Relies
  <1> QED
    BY <1>1, <1>2, <1>3, OneClerk DEF ReceiptsInv, ReceiptsTypeOK

LEMMA LeaveKeeps ==
    ASSUME ReceiptsInv, NEW c \in Clerk, Leave(c)
    PROVE  ReceiptsInv'
  <1>1. /\ clerk[c] \in Work /\ clerk[c].step # "idle" /\ UNCHANGED <<receipt, line, overlapped>>
        /\ receipt # "absent" /\ cut' = (cut \/ (clerk[c].listing /\ clerk[c].step # "listing"))
        /\ clerk' = [clerk EXCEPT ![c] = NoWork] /\ cut \in BOOLEAN /\ clerk[c].listing \in BOOLEAN
    BY DEF Leave, ReceiptsInv, ReceiptsTypeOK, Untouched, Work
  <1>2. ASSUME ~overlapped, ~cut'
        PROVE  OneLot' /\ Relies(NoWork)' /\ ReceiptSettled'
    <2>1. OneLot /\ Relies(clerk[c]) /\ ~(clerk[c].listing /\ clerk[c].step # "listing")
      BY <1>1, <1>2 DEF ReceiptsInv
    <2>2. ReceiptSettled
      BY <1>1, <2>1 DEF Relies, Work
    <2> QED
      BY <1>1, <2>1, <2>2, NoWorkFacts DEF OneLot, ReceiptSettled, Present, Pending, Relies
  <1> QED
    BY <1>1, <1>2, OneClerk, NoWorkFacts DEF ReceiptsInv, ReceiptsTypeOK

LEMMA ReceiptsStepKeeps == ReceiptsInv /\ [ReceiptsNext]_receiptVars => ReceiptsInv'
  <1> SUFFICES ASSUME ReceiptsInv, [ReceiptsNext]_receiptVars PROVE ReceiptsInv'
    OBVIOUS
  <1>1. ASSUME NEW c \in Clerk, LoadReceipt(c) \/ ReadLines(c) PROVE ReceiptsInv'
    BY <1>1, LoadReceiptKeeps, ReadLinesKeeps
  <1>2. ASSUME NEW c \in Clerk, CommitLine(c) \/ RefuseLine(c) \/ Leave(c) PROVE ReceiptsInv'
    BY <1>2, CommitLineKeeps, RefuseLineKeeps, LeaveKeeps
  <1>3. ASSUME NEW c \in Clerk, NEW b \in BOOLEAN, CreateReceipt(c, b) PROVE ReceiptsInv'
    BY <1>3, CreateReceiptKeeps
  <1>4. ASSUME NEW c \in Clerk, NEW l \in Line, NEW b \in BOOLEAN, AddLine(c, l, b) PROVE ReceiptsInv'
    BY <1>4, AddLineKeeps
  <1>5. ASSUME NEW c \in Clerk, NEW l \in Line, BeginLine(c, l) PROVE ReceiptsInv'
    BY <1>5, BeginLineKeeps
  <1>6. CASE UNCHANGED receiptVars
    BY <1>6 DEF receiptVars, ReceiptsInv, ReceiptsTypeOK, Untouched, Alone, OneLot, Relies, ReceiptSettled,
                Present, Pending, Remaining
  <1> QED
    BY <1>1, <1>2, <1>3, <1>4, <1>5, <1>6 DEF ReceiptsNext

\* Receipts settle between requests, for any lines and any number of clerks.
THEOREM ReceiptsStaySettled == ReceiptsSpec => []ReceiptsSettled
  BY ReceiptsInitHolds, ReceiptsStepKeeps, ReceiptsImplied, PTL DEF ReceiptsSpec

-------------------------------------------------------------------------------
(***************************************************************************)
(* Orders, their shipments and their cartons.                              *)
(***************************************************************************)
OrderRow == [status: {"absent", "draft", "reserved", "preparing", "ready"}, review: Reviews,
             shipment: Parcel \cup {Nothing}, quantity: Nat, prepared: Nat, packed: Int, removed: Int]
AskRow == [step: {"idle", "portal", "entered", "prepare", "make", "made", "txn"},
           order: Order \cup {Nothing}, had: Parcel \cup {Nothing}, counted: Nat,
           picks: SUBSET ReadyCarton, units: Nat, made: Parcel \cup {Nothing}, behind: BOOLEAN]

DeskTyped ==
    /\ order \in [Order -> OrderRow]
    /\ parcel \in [Parcel -> Order \cup {Nothing}]
    /\ box \in [ReadyCarton -> Parcel \cup {Nothing}]
    /\ asker \in [Asker -> AskRow]
    /\ mixed \in BOOLEAN /\ severed \in BOOLEAN

\* The references between the rows.
OrdersLinked ==
    /\ \A s \in Parcel : parcel[s] # Nothing => order[parcel[s]].status # "absent"
    /\ \A c \in ReadyCarton : box[c] # Nothing => parcel[box[c]] # Nothing
    /\ \A o \in Order : order[o].shipment # Nothing => parcel[order[o].shipment] = o

\* The request a works on an order that is there, with shipments made for it.
Working(a) ==
    /\ IF a.step \in {"idle", "portal"} THEN a.order = Nothing
       ELSE a.order \in Order /\ order[a.order].status # "absent"
    /\ a.step # "made" => a.made = Nothing
    /\ a.step = "made" => a.made \in Parcel /\ parcel[a.made] = a.order
    /\ a.step \in {"prepare", "txn"} /\ a.had # Nothing => parcel[a.had] = a.order

\* What the request a read is so still, unless it is behind.
UpToDate(a) ==
    \/ a.behind
    \/ /\ a.step \in {"entered", "make", "made"} => order[a.order].shipment = Nothing
       /\ a.step \in {"prepare", "txn"} => a.had = order[a.order].shipment
       /\ a.step = "txn" => /\ a.counted = order[a.order].prepared
                            /\ a.units = Lacking(order[a.order])
                            /\ a.picks \subseteq Ready

Inside(o) == {c \in ReadyCarton : MadeFor(o, box[c])}

\* The shipments made for an order are its own, or about to be.
NoOrphan == \A s \in Parcel : parcel[s] # Nothing =>
               order[parcel[s]].shipment = s \/ \E r \in Asker : asker[r].made = s
Counts(o) ==
    order[o].status # "absent" =>
        /\ order[o].prepared = order[o].packed + order[o].removed + Cardinality(Inside(o))
        /\ order[o].prepared <= order[o].quantity
        /\ order[o].status = "ready" => order[o].prepared = order[o].quantity

DeskInv ==
    /\ DeskTyped /\ OrdersLinked
    /\ \A r \in Asker : Working(asker[r])
    /\ mixed \/ severed \/ /\ \A r \in Asker : UpToDate(asker[r])
                           /\ NoOrphan
                           /\ \A o \in Order : Counts(o)

LEMMA DeskImplied == DeskInv => OrdersAccounted
  <1> SUFFICES ASSUME DeskInv, ~mixed, ~severed PROVE OrdersAccounted
    BY DEF OrdersAccounted
  <1>1. NoOrphan /\ \A o \in Order : Counts(o)
    BY DEF DeskInv
  <1>2. ASSUME NEW o \in Order, order[o].status = "ready" PROVE order[o].prepared = order[o].quantity
    BY <1>1, <1>2 DEF Counts
  <1> QED
    BY <1>1, <1>2 DEF NoOrphan, Counts, Inside, OrdersAccounted

LEMMA WaitingFacts ==
    /\ Waiting \in AskRow /\ Waiting.step = "idle" /\ Waiting.made = Nothing
    /\ Waiting.picks = {} /\ Waiting.order = Nothing
  BY DEF Waiting, AskRow

LEMMA NoOrderFacts ==
    /\ NoOrder \in OrderRow /\ NoOrder.status = "absent" /\ NoOrder.shipment = Nothing
    /\ NoOrder.quantity = 0 /\ NoOrder.prepared = 0 /\ NoOrder.packed = 0 /\ NoOrder.removed = 0
  BY DEF NoOrder, OrderRow, Reviews

LEMMA LackingFacts ==
    ASSUME NEW o \in OrderRow
    PROVE  /\ Lacking(o) \in Nat
           /\ o.prepared <= o.quantity => Lacking(o) = o.quantity - o.prepared
           /\ Lacking(o) = 0 => o.quantity <= o.prepared
  BY DEF Lacking, OrderRow

\* Sets of cartons are finite, and count as they are joined.
LEMMA CartonsCount ==
    ASSUME NEW S \in SUBSET ReadyCarton
    PROVE  /\ IsFiniteSet(S) /\ Cardinality(S) \in Nat
           /\ S = {} => Cardinality(S) = 0
           /\ \A T \in SUBSET ReadyCarton : S \cap T = {} =>
                 Cardinality(S \cup T) = Cardinality(S) + Cardinality(T)
           /\ \A c \in ReadyCarton \ S : Cardinality(S \cup {c}) = Cardinality(S) + 1
           /\ \A c \in S : Cardinality(S \ {c}) = Cardinality(S) - 1
  <1>1. \A T \in SUBSET ReadyCarton : IsFiniteSet(T) /\ Cardinality(T) \in Nat
    BY CartonsAreFinite, FS_Subset, FS_CardinalityType
  <1>2. ASSUME NEW T \in SUBSET ReadyCarton, S \cap T = {}
        PROVE  Cardinality(S \cup T) = Cardinality(S) + Cardinality(T)
    <2>1. Cardinality(S \cup T) = Cardinality(S) + Cardinality(T) - Cardinality(S \cap T)
      BY <1>1, FS_Union
    <2>2. Cardinality(S \cap T) = 0
      BY <1>2, FS_EmptySet
    <2> QED
      BY <1>1, <2>1, <2>2
  <1>3. \A c \in ReadyCarton \ S : Cardinality(S \cup {c}) = Cardinality(S) + 1
    BY <1>1, FS_AddElement
  <1>4. \A c \in S : Cardinality(S \ {c}) = Cardinality(S) - 1
    BY <1>1, FS_RemoveElement
  <1> QED
    BY <1>1, <1>2, <1>3, <1>4, FS_EmptySet

LEMMA DeskInitHolds == DeskInit => DeskInv
  <1> SUFFICES ASSUME DeskInit PROVE DeskInv
    OBVIOUS
  <1>1. DeskTyped
    BY WaitingFacts, NoOrderFacts DEF DeskInit, DeskTyped
  <1>2. OrdersLinked
    BY NoOrderFacts DEF DeskInit, OrdersLinked
  <1> QED
    BY <1>1, <1>2, WaitingFacts, NoOrderFacts
    DEF DeskInit, DeskInv, Working, UpToDate, NoOrphan, Counts

(***************************************************************************)
(* What a step leaves of the other requests.                               *)
(***************************************************************************)
\* The requests but those of R are as they were, or are behind now; they are if they
\* work on an order of os or picked a carton of cs.
OthersStay(R, os, cs) ==
    \A x \in Asker \ R :
        \/ asker'[x] = [asker[x] EXCEPT !.behind = TRUE]
        \/ /\ asker'[x] = asker[x]
           /\ asker[x].order \notin os /\ asker[x].picks \cap cs = {}

LEMMA DoneFacts ==
    ASSUME DeskTyped, NEW r \in Asker, NEW o, NEW cs, Done(r, o, cs)
    PROVE  asker' \in [Asker -> AskRow] /\ asker'[r] = Waiting /\ OthersStay({r}, {o}, cs)
  <1>1. \A x \in Asker : asker[x] \in AskRow
    BY DEF DeskTyped
  <1>2. \A x \in Asker : asker'[x] = IF x = r THEN Waiting
                ELSE IF asker[x].order = o \/ asker[x].picks \cap cs # {}
                THEN [asker[x] EXCEPT !.behind = TRUE] ELSE asker[x]
    BY DEF Done
  <1>3. ASSUME NEW x \in Asker PROVE asker'[x] \in AskRow
    <2>1. [asker[x] EXCEPT !.behind = TRUE] \in AskRow
      BY <1>1 DEF AskRow
    <2> QED
      BY <1>1, <1>2, <2>1, WaitingFacts
  <1>4. DOMAIN asker' = Asker /\ asker' = [x \in Asker |-> asker'[x]]
    BY DEF Done
  <1>5. asker' \in [Asker -> AskRow]
    BY <1>3, <1>4
  <1> QED
    BY <1>2, <1>5 DEF OthersStay

LEMMA BesideFacts ==
    ASSUME DeskTyped, NEW os, NEW cs, Beside(os, cs)
    PROVE  asker' \in [Asker -> AskRow] /\ OthersStay({}, os, cs)
  <1>1. \A x \in Asker : asker[x] \in AskRow
    BY DEF DeskTyped
  <1>2. \A x \in Asker : asker'[x] = IF asker[x].order \in os \/ asker[x].picks \cap cs # {}
                THEN [asker[x] EXCEPT !.behind = TRUE] ELSE asker[x]
    BY DEF Beside
  <1>3. ASSUME NEW x \in Asker PROVE asker'[x] \in AskRow
    <2>1. [asker[x] EXCEPT !.behind = TRUE] \in AskRow
      BY <1>1 DEF AskRow
    <2> QED
      BY <1>1, <1>2, <2>1, WaitingFacts
  <1>4. DOMAIN asker' = Asker /\ asker' = [x \in Asker |-> asker'[x]]
    BY DEF Beside
  <1>5. asker' \in [Asker -> AskRow]
    BY <1>3, <1>4
  <1> QED
    BY <1>2, <1>5 DEF OthersStay

\* They stay in order when the step changes nothing but the orders os and takes no
\* carton but those of cs.
LEMMA OthersKeep ==
    ASSUME DeskInv, DeskTyped', NEW R, NEW os, NEW cs, OthersStay(R, os, cs),
           \A o \in Order : order[o].status # "absent" => order'[o].status # "absent",
           \A s \in Parcel : parcel[s] # Nothing => parcel'[s] = parcel[s],
           \A o \in Order \ os : /\ order'[o].shipment = order[o].shipment
                                 /\ order'[o].prepared = order[o].prepared
                                 /\ order'[o].quantity = order[o].quantity,
           Ready \subseteq Ready' \cup cs
    PROVE  \A x \in Asker \ R : /\ Working(asker[x])'
                                /\ mixed \/ severed \/ UpToDate(asker[x])'
                                /\ asker'[x].made = asker[x].made
  <1> SUFFICES ASSUME NEW x \in Asker \ R
               PROVE  /\ Working(asker[x])'
                      /\ mixed \/ severed \/ UpToDate(asker[x])'
                      /\ asker'[x].made = asker[x].made
    OBVIOUS
  <1>1. PICK a, b : a = asker[x] /\ b = asker'[x]
    OBVIOUS
  <1>2. /\ a \in AskRow /\ b \in AskRow /\ Working(a) /\ (mixed \/ severed \/ UpToDate(a))
    BY <1>1 DEF DeskInv, DeskTyped
  <1>3. \/ b = [a EXCEPT !.behind = TRUE]
        \/ b = a /\ a.order \notin os /\ a.picks \cap cs = {}
    BY <1>1 DEF OthersStay
  <1>4. /\ b.step = a.step /\ b.order = a.order /\ b.had = a.had /\ b.counted = a.counted
        /\ b.picks = a.picks /\ b.units = a.units /\ b.made = a.made
        /\ b.behind \/ (a.behind = b.behind /\ a.order \notin os /\ a.picks \cap cs = {})
    BY <1>2, <1>3 DEF AskRow
  <1>5. Working(b)'
    BY <1>2, <1>4, NothingIsNone DEF Working, AskRow
  <1>6. ASSUME ~mixed, ~severed, ~b.behind PROVE UpToDate(b)'
    <2>1. a.step \notin {"idle", "portal"} => a.order \in Order \ os
      BY <1>2, <1>4, <1>6 DEF Working
    <2>2. a.step \notin {"idle", "portal"} =>
             Lacking(order[a.order])' = Lacking(order[a.order])
      BY <2>1 DEF Lacking
    <2> QED
      BY <1>2, <1>4, <1>6, <2>1, <2>2 DEF UpToDate
  <1>7. UpToDate(b)' \/ mixed \/ severed
    BY <1>6 DEF UpToDate
  <1> QED
    BY <1>1, <1>4, <1>5, <1>7 DEF Working, UpToDate, Ready, Lacking

\* A step of the request r that changes its memory alone.
LEMMA MemoryStep ==
    ASSUME DeskInv, NEW r \in Asker, NEW x \in AskRow, asker' = [asker EXCEPT ![r] = x],
           UNCHANGED <<order, parcel, box, mixed>>, severed' \in BOOLEAN, severed => severed',
           Working(x),
           mixed \/ severed' \/ (UpToDate(x) /\ asker[r].made = Nothing)
    PROVE  DeskInv'
  <1>1. asker' \in [Asker -> AskRow] /\ \A q \in Asker : asker'[q] = IF q = r THEN x ELSE asker[q]
    BY DEF DeskInv, DeskTyped
  <1>2. DeskTyped' /\ OrdersLinked'
    BY <1>1 DEF DeskInv, DeskTyped, OrdersLinked
  <1>3. \A q \in Asker : Working(asker'[q])
    BY <1>1 DEF DeskInv
  <1>4. \A q \in Asker : Working(asker[q])'
    BY <1>3 DEF Working
  <1>5. ASSUME ~mixed', ~severed'
        PROVE  /\ \A q \in Asker : UpToDate(asker[q])'
               /\ NoOrphan'
               /\ \A o \in Order : Counts(o)'
    <2>1. \A q \in Asker : UpToDate(asker'[q])
      BY <1>1, <1>5 DEF DeskInv
    <2>2. \A q \in Asker : UpToDate(asker[q])'
      BY <2>1 DEF UpToDate, Ready, Lacking
    <2>3. NoOrphan'
      BY <1>1, <1>5, NothingIsNone DEF DeskInv, NoOrphan
    <2>4. \A o \in Order : Counts(o)'
      BY <1>5 DEF DeskInv, Counts, Inside, MadeFor
    <2> QED
      BY <2>2, <2>3, <2>4
  <1> QED
    BY <1>2, <1>4, <1>5 DEF DeskInv

LEMMA LeavesKeeps ==
    ASSUME DeskInv, NEW r \in Asker, Refused(r) \/ Dies(r)
    PROVE  DeskInv'
  <1>1. Working(Waiting) /\ UpToDate(Waiting)
    BY WaitingFacts DEF Working, UpToDate
  <1>2. asker' = [asker EXCEPT ![r] = Waiting] /\ UNCHANGED <<order, parcel, box, mixed>>
    BY DEF Refused, Dies, Leaves
  <1>3. severed' \in BOOLEAN /\ (severed => severed')
    BY DEF Refused, Dies, DeskInv, DeskTyped
  <1>4. severed' \/ asker[r].made = Nothing
    BY DEF Refused, Dies, DeskInv, Working
  <1> QED
    BY <1>1, <1>2, <1>3, <1>4, WaitingFacts, MemoryStep

LEMMA ChooseKeeps ==
    ASSUME DeskInv, NEW r \in Asker, NEW n \in Nat, NEW units \in Nat, Choose(r, n, units)
    PROVE  DeskInv'
  <1>1. PICK cs \in SUBSET Ready :
           asker' = [asker EXCEPT ![r] = [Waiting EXCEPT !.step = "portal", !.picks = cs, !.units = units]]
    BY DEF Choose
  <1>2. PICK x : x = [Waiting EXCEPT !.step = "portal", !.picks = cs, !.units = units]
    OBVIOUS
  <1>3. cs \subseteq ReadyCarton
    BY DEF Ready
  <1>4. x \in AskRow /\ x.step = "portal" /\ x.order = Nothing /\ x.made = Nothing
    BY <1>2, <1>3, WaitingFacts DEF Waiting, AskRow
  <1>5. Working(x) /\ UpToDate(x)
    BY <1>4 DEF Working, UpToDate
  <1>6. asker[r].made = Nothing
    BY DEF Choose, DeskInv, Working
  <1>7. UNCHANGED <<order, parcel, box, mixed, severed>> /\ severed \in BOOLEAN
    BY DEF Choose, DeskInv, DeskTyped
  <1> QED
    BY <1>1, <1>2, <1>4, <1>5, <1>6, <1>7, MemoryStep

LEMMA LoadOrderKeeps ==
    ASSUME DeskInv, NEW r \in Asker, NEW o \in Order, NEW view \in {"list", "admin", "prepare"},
           LoadOrder(r, o, view)
    PROVE  DeskInv'
  <1>1. PICK x : x = [Waiting EXCEPT !.step = IF view = "prepare" THEN view ELSE "make",
                                     !.order = o, !.had = order[o].shipment]
    OBVIOUS
  <1>2. order[o].shipment \in Parcel \cup {Nothing} /\ order[o].status # "absent"
    BY DEF LoadOrder, DeskInv, DeskTyped, OrderRow
  <1>3. /\ x \in AskRow /\ x.step = IF view = "prepare" THEN "prepare" ELSE "make"
        /\ x.order = o /\ x.had = order[o].shipment /\ x.made = Nothing
    BY <1>1, <1>2, WaitingFacts DEF Waiting, AskRow
  <1>4. view # "prepare" => order[o].shipment = Nothing
    BY DEF LoadOrder, Allowed
  <1>5. Working(x)
    BY <1>2, <1>3 DEF Working, DeskInv, OrdersLinked
  <1>6. UpToDate(x)
    BY <1>3, <1>4 DEF UpToDate
  <1>7. asker[r].made = Nothing
    BY DEF LoadOrder, DeskInv, Working
  <1>8. /\ asker' = [asker EXCEPT ![r] = x]
        /\ UNCHANGED <<order, parcel, box, mixed, severed>> /\ severed \in BOOLEAN
    BY <1>1 DEF LoadOrder, DeskInv, DeskTyped
  <1> QED
    BY <1>3, <1>5, <1>6, <1>7, <1>8, MemoryStep

LEMMA ReadReadyKeeps ==
    ASSUME DeskInv, NEW r \in Asker, ReadReady(r)
    PROVE  DeskInv'
  <1> DEFINE a == asker[r]
             lack == Lacking(order[a.order])
  <1>1. /\ a \in AskRow /\ a.step = "prepare" /\ Working(a)
        /\ order[a.order] \in OrderRow /\ a.order \in Order
    BY DEF ReadReady, DeskInv, DeskTyped, Working
  <1>2. PICK cs \in SUBSET Ready :
           asker' = [asker EXCEPT ![r].step = "txn", ![r].picks = cs, ![r].units = lack,
                                  ![r].counted = order[a.order].prepared]
    BY DEF ReadReady
  <1>3. PICK x : x = [a EXCEPT !.step = "txn", !.picks = cs, !.units = lack,
                               !.counted = order[a.order].prepared]
    OBVIOUS
  <1>4. asker' = [asker EXCEPT ![r] = x]
    BY <1>2, <1>3 DEF DeskInv, DeskTyped
  <1>5. cs \in SUBSET ReadyCarton /\ lack \in Nat /\ order[a.order].prepared \in Nat
    BY <1>1, LackingFacts DEF Ready, OrderRow
  <1>6. /\ x \in AskRow /\ x.step = "txn" /\ x.order = a.order /\ x.had = a.had /\ x.picks = cs
        /\ x.units = lack /\ x.counted = order[a.order].prepared /\ x.made = a.made
        /\ x.behind = a.behind
    BY <1>1, <1>3, <1>5 DEF AskRow
  <1>7. Working(x) /\ a.made = Nothing
    BY <1>1, <1>6 DEF Working
  <1>8. mixed \/ severed \/ UpToDate(x)
    <2>1. mixed \/ severed \/ UpToDate(a)
      BY DEF DeskInv
    <2> QED
      BY <1>1, <1>6, <2>1 DEF UpToDate
  <1>9. UNCHANGED <<order, parcel, box, mixed, severed>> /\ severed \in BOOLEAN
    BY DEF ReadReady, DeskInv, DeskTyped
  <1> QED
    BY <1>4, <1>6, <1>7, <1>8, <1>9, MemoryStep

LEMMA ReviewKeeps ==
    ASSUME DeskInv, NEW o \in Order, NEW review \in Reviews, Review(o, review)
    PROVE  DeskInv'
  <1>1. PICK n : n = [order[o] EXCEPT !.review = review]
    OBVIOUS
  <1>2. /\ n \in OrderRow /\ n.status = order[o].status /\ n.shipment = order[o].shipment
        /\ n.quantity = order[o].quantity /\ n.prepared = order[o].prepared
        /\ n.packed = order[o].packed /\ n.removed = order[o].removed
    BY <1>1 DEF DeskInv, DeskTyped, OrderRow
  <1>3. /\ order' \in [Order -> OrderRow] /\ \A p \in Order : order'[p] = IF p = o THEN n ELSE order[p]
        /\ UNCHANGED <<parcel, box, asker, mixed, severed>>
    BY <1>1, <1>2 DEF Review, DeskInv, DeskTyped
  <1>4. \A p \in Order : /\ order'[p].status = order[p].status /\ order'[p].shipment = order[p].shipment
                         /\ order'[p].quantity = order[p].quantity /\ order'[p].prepared = order[p].prepared
                         /\ order'[p].packed = order[p].packed /\ order'[p].removed = order[p].removed
    BY <1>2, <1>3
  <1>5. DeskTyped'
    BY <1>3 DEF DeskInv, DeskTyped
  <1>6. OrdersLinked'
    BY <1>3, <1>4 DEF DeskInv, DeskTyped, OrdersLinked
  <1>7. OthersStay({}, {}, {})
    BY <1>3 DEF OthersStay
  <1>8. Ready \subseteq Ready' \cup {}
    BY <1>3 DEF Ready
  <1>9. \A x \in Asker \ {} : Working(asker[x])' /\ (mixed \/ severed \/ UpToDate(asker[x])')
    BY <1>3, <1>4, <1>5, <1>7, <1>8, OthersKeep
  <1>10. ASSUME ~mixed, ~severed PROVE NoOrphan'
    BY <1>3, <1>4, <1>10 DEF DeskInv, DeskTyped, NoOrphan
  <1>11. ASSUME ~mixed, ~severed, NEW p \in Order PROVE Counts(p)'
    BY <1>3, <1>4, <1>11 DEF DeskInv, Counts, Inside, MadeFor
  <1> QED
    BY <1>3, <1>5, <1>6, <1>9, <1>10, <1>11 DEF DeskInv

LEMMA EnterKeeps ==
    ASSUME DeskInv, NEW r \in Asker, NEW o \in Order, Enter(r, o)
    PROVE  DeskInv'
  <1>1. PICK n, x : /\ n = [NoOrder EXCEPT !.status = "draft"]
                    /\ x = [Waiting EXCEPT !.step = "entered", !.order = o]
    OBVIOUS
  <1>2. /\ n \in OrderRow /\ n.status = "draft" /\ n.shipment = Nothing
        /\ n.quantity = 0 /\ n.prepared = 0 /\ n.packed = 0 /\ n.removed = 0
    BY <1>1, NoOrderFacts DEF NoOrder, OrderRow
  <1>3. x \in AskRow /\ x.step = "entered" /\ x.order = o /\ x.made = Nothing
    BY <1>1, WaitingFacts DEF Waiting, AskRow
  <1>4. /\ order' \in [Order -> OrderRow] /\ \A p \in Order : order'[p] = IF p = o THEN n ELSE order[p]
        /\ order[o].status = "absent" /\ asker[r].step = "idle"
        /\ UNCHANGED <<parcel, box, mixed, severed>>
    BY <1>1, <1>2 DEF Enter, DeskInv, DeskTyped
  <1>5. asker' \in [Asker -> AskRow] /\ \A q \in Asker : asker'[q] = IF q = r THEN x ELSE asker[q]
    BY <1>1, <1>3 DEF Enter, DeskInv, DeskTyped
  <1>6. DeskTyped'
    BY <1>4, <1>5 DEF DeskInv, DeskTyped
  <1>7. \A s \in Parcel : parcel[s] # o
    BY <1>4, NothingIsNone DEF DeskInv, DeskTyped, OrdersLinked
  <1>8. OrdersLinked'
    BY <1>2, <1>4, <1>7 DEF DeskInv, DeskTyped, OrdersLinked
  <1>9. OthersStay({r}, {o}, {})
    <2>1. \A q \in Asker : asker[q].order # o
      BY <1>4, NothingIsNone DEF DeskInv, Working
    <2> QED
      BY <1>5, <2>1 DEF OthersStay
  <1>10. Ready \subseteq Ready' \cup {}
    BY <1>4 DEF Ready
  <1>11. \A q \in Asker \ {r} : /\ Working(asker[q])' /\ (mixed \/ severed \/ UpToDate(asker[q])')
                                /\ asker'[q].made = asker[q].made
    BY <1>2, <1>4, <1>6, <1>9, <1>10, OthersKeep
  <1>12. Working(asker[r])' /\ UpToDate(asker[r])'
    BY <1>2, <1>3, <1>4, <1>5 DEF Working, UpToDate
  <1>13. ASSUME ~mixed, ~severed PROVE NoOrphan'
    <2>1. NoOrphan /\ asker[r].made = Nothing
      BY <1>4, <1>13 DEF DeskInv, Working
    <2> QED
      BY <1>4, <1>7, <1>11, <2>1, NothingIsNone DEF DeskInv, DeskTyped, NoOrphan
  <1>14. ASSUME ~mixed, ~severed, NEW p \in Order PROVE Counts(p)'
    <2>1. Inside(p)' = Inside(p)
      BY <1>4 DEF Inside, MadeFor
    <2>2. CASE p = o
      <3>1. Inside(o) = {}
        BY <1>7 DEF Inside, MadeFor, DeskInv, DeskTyped
      <3> QED
        BY <1>2, <1>4, <2>1, <2>2, <3>1, CartonsCount DEF Counts
    <2>3. CASE p # o
      BY <1>4, <1>14, <2>1, <2>3 DEF DeskInv, Counts
    <2> QED
      BY <2>2, <2>3
  <1> QED
    BY <1>4, <1>6, <1>8, <1>11, <1>12, <1>13, <1>14 DEF DeskInv

LEMMA MakeShipmentKeeps ==
    ASSUME DeskInv, NEW r \in Asker, NEW s \in Parcel, MakeShipment(r, s)
    PROVE  DeskInv'
  <1> DEFINE a == asker[r]
  <1>1. /\ a \in AskRow /\ Working(a) /\ a.step \in {"entered", "make"} /\ parcel[s] = Nothing
        /\ UNCHANGED <<order, box, mixed, severed>> /\ a.made = Nothing
        /\ a.order \in Order /\ order[a.order].status # "absent"
    BY DEF MakeShipment, Unused, DeskInv, DeskTyped, Working
  <1>2. PICK x : x = [a EXCEPT !.step = "made", !.made = s]
    OBVIOUS
  <1>3. /\ x \in AskRow /\ x.step = "made" /\ x.made = s /\ x.order = a.order /\ x.behind = a.behind
    BY <1>1, <1>2 DEF AskRow
  <1>4. asker' = [asker EXCEPT ![r] = x]
    BY <1>2 DEF MakeShipment, DeskInv, DeskTyped
  <1>5. asker' \in [Asker -> AskRow] /\ \A q \in Asker : asker'[q] = IF q = r THEN x ELSE asker[q]
    BY <1>3, <1>4 DEF DeskInv, DeskTyped
  <1>6. /\ parcel' \in [Parcel -> Order \cup {Nothing}]
        /\ \A t \in Parcel : parcel'[t] = IF t = s THEN a.order ELSE parcel[t]
    BY <1>1 DEF MakeShipment, DeskInv, DeskTyped
  <1>7. DeskTyped'
    BY <1>1, <1>5, <1>6 DEF DeskInv, DeskTyped
  <1>8. OrdersLinked'
    <2>1. \A o \in Order : order[o].shipment \in Parcel \cup {Nothing}
      BY DEF DeskInv, DeskTyped, OrderRow
    <2>2. \A c \in ReadyCarton : box[c] \in Parcel \cup {Nothing}
      BY DEF DeskInv, DeskTyped
    <2> QED
      BY <1>1, <1>6, <2>1, <2>2, NothingIsNone DEF DeskInv, OrdersLinked
  <1>9. OthersStay({r}, {}, {})
    BY <1>5 DEF OthersStay
  <1>10. Ready \subseteq Ready' \cup {}
    BY <1>1 DEF Ready
  <1>11. \A q \in Asker \ {r} : /\ Working(asker[q])' /\ (mixed \/ severed \/ UpToDate(asker[q])')
                                /\ asker'[q].made = asker[q].made
    BY <1>1, <1>6, <1>7, <1>9, <1>10, OthersKeep
  <1>12. Working(asker[r])'
    BY <1>1, <1>3, <1>5, <1>6 DEF Working
  <1>13. mixed \/ severed \/ UpToDate(asker[r])'
    <2>1. mixed \/ severed \/ UpToDate(a)
      BY DEF DeskInv
    <2> QED
      BY <1>1, <1>3, <1>5, <2>1 DEF UpToDate
  <1>14. ASSUME ~mixed, ~severed PROVE NoOrphan'
    <2>1. NoOrphan
      BY <1>14 DEF DeskInv
    <2>2. asker'[r].made = s
      BY <1>3, <1>5
    <2> QED
      BY <1>1, <1>6, <1>11, <2>1, <2>2, NothingIsNone DEF NoOrphan
  <1>15. ASSUME ~mixed, ~severed, NEW p \in Order PROVE Counts(p)'
    <2>1. Inside(p)' = Inside(p)
      <3>1. \A c \in ReadyCarton : box[c] # s
        BY <1>1, NothingIsNone DEF DeskInv, OrdersLinked
      <3>2. \A c \in ReadyCarton : box[c] \in Parcel \cup {Nothing}
        BY DEF DeskInv, DeskTyped
      <3> QED
        BY <1>1, <1>6, <3>1, <3>2 DEF Inside, MadeFor
    <2> QED
      BY <1>1, <1>15, <2>1 DEF DeskInv, Counts
  <1> QED
    BY <1>1, <1>7, <1>8, <1>11, <1>12, <1>13, <1>14, <1>15 DEF DeskInv

LEMMA LinkShipmentKeeps ==
    ASSUME DeskInv, NEW r \in Asker, LinkShipment(r)
    PROVE  DeskInv'
  <1>1. PICK a : a = asker[r]
    OBVIOUS
  <1>2. /\ a \in AskRow /\ Working(a) /\ a.step = "made" /\ a.order \in Order /\ a.made \in Parcel
        /\ parcel[a.made] = a.order /\ order[a.order].status # "absent"
        /\ UNCHANGED <<parcel, box, severed>> /\ mixed' = (mixed \/ a.behind)
        /\ a.behind \in BOOLEAN /\ mixed \in BOOLEAN
    BY <1>1 DEF LinkShipment, DeskInv, DeskTyped, Working, AskRow
  <1>3. PICK n : n = [order[a.order] EXCEPT !.shipment = a.made]
    OBVIOUS
  <1>4. /\ n \in OrderRow /\ n.status = order[a.order].status /\ n.shipment = a.made
        /\ n.quantity = order[a.order].quantity /\ n.prepared = order[a.order].prepared
        /\ n.packed = order[a.order].packed /\ n.removed = order[a.order].removed
    BY <1>2, <1>3 DEF DeskInv, DeskTyped, OrderRow
  <1>5. /\ order' \in [Order -> OrderRow]
        /\ \A p \in Order : order'[p] = IF p = a.order THEN n ELSE order[p]
    BY <1>1, <1>2, <1>3, <1>4 DEF LinkShipment, DeskInv, DeskTyped
  <1>6. Done(r, a.order, {})
    BY <1>1 DEF LinkShipment
  <1>7. asker' \in [Asker -> AskRow] /\ asker'[r] = Waiting /\ OthersStay({r}, {a.order}, {})
    BY <1>6, DoneFacts DEF DeskInv
  <1>8. DeskTyped'
    BY <1>2, <1>5, <1>7 DEF DeskInv, DeskTyped
  <1>9. OrdersLinked'
    BY <1>2, <1>4, <1>5 DEF DeskInv, DeskTyped, OrdersLinked
  <1>10. Ready \subseteq Ready' \cup {}
    BY <1>2 DEF Ready
  <1>11. \A q \in Asker \ {r} : /\ Working(asker[q])' /\ (mixed \/ severed \/ UpToDate(asker[q])')
                                /\ asker'[q].made = asker[q].made
    BY <1>2, <1>4, <1>5, <1>7, <1>8, <1>10, OthersKeep
  <1>12. Working(asker[r])' /\ UpToDate(asker[r])'
    BY <1>7, WaitingFacts DEF Working, UpToDate
  <1>13. ASSUME ~mixed', ~severed PROVE NoOrphan'
    <2>1. NoOrphan /\ order[a.order].shipment = Nothing
      BY <1>1, <1>2, <1>13 DEF DeskInv, UpToDate
    <2> SUFFICES ASSUME NEW s \in Parcel, parcel[s] # Nothing
                 PROVE  order'[parcel[s]].shipment = s \/ \E q \in Asker : asker'[q].made = s
      BY <1>2 DEF NoOrphan
    <2>2. CASE order[parcel[s]].shipment = s
      <3>1. parcel[s] # a.order
        BY <2>1, <2>2, NothingIsNone
      <3> QED
        BY <1>5, <2>2, <3>1 DEF DeskInv, DeskTyped
    <2>3. CASE s = a.made
      BY <1>2, <1>4, <1>5, <2>3
    <2>4. ASSUME NEW q \in Asker, asker[q].made = s, s # a.made
          PROVE  asker'[q].made = s
      BY <1>1, <1>11, <2>4
    <2> QED
      BY <2>1, <2>2, <2>3, <2>4 DEF NoOrphan
  <1>14. ASSUME ~mixed', ~severed, NEW p \in Order PROVE Counts(p)'
    <2>1. Inside(p)' = Inside(p)
      BY <1>2 DEF Inside, MadeFor
    <2> QED
      BY <1>2, <1>4, <1>5, <1>14, <2>1 DEF DeskInv, Counts
  <1> QED
    BY <1>2, <1>8, <1>9, <1>11, <1>12, <1>13, <1>14 DEF DeskInv

LEMMA PlaceOrderKeeps ==
    ASSUME DeskInv, NEW r \in Asker, NEW o \in Order, NEW s \in Parcel, PlaceOrder(r, o, s)
    PROVE  DeskInv'
  <1>1. PICK a : a = asker[r]
    OBVIOUS
  <1>2. /\ a \in AskRow /\ a.step = "portal" /\ a.made = Nothing /\ a.picks \subseteq Ready
        /\ a.picks \subseteq ReadyCarton /\ a.units \in Nat
        /\ parcel[s] = Nothing /\ order[o].status = "absent" /\ UNCHANGED <<mixed, severed>>
    BY <1>1 DEF PlaceOrder, StillReady, Unused, DeskInv, DeskTyped, Working, AskRow
  <1>3. PICK k \in Nat : k = Cardinality(a.picks)
    BY <1>2, CartonsCount
  <1>4. PICK n : n = [NoOrder EXCEPT !.status = IF a.units = 0 THEN "ready" ELSE "reserved",
                                     !.shipment = s, !.quantity = k + a.units, !.prepared = k]
    OBVIOUS
  <1>5. /\ n \in OrderRow /\ n.status = (IF a.units = 0 THEN "ready" ELSE "reserved")
        /\ n.shipment = s /\ n.quantity = k + a.units
        /\ n.prepared = k /\ n.packed = 0 /\ n.removed = 0
    <2>1. PICK st, q : st = (IF a.units = 0 THEN "ready" ELSE "reserved") /\ q = k + a.units
      OBVIOUS
    <2>2. st \in {"reserved", "ready"} /\ q \in Nat
      BY <1>2, <2>1
    <2>3. n = [NoOrder EXCEPT !.status = st, !.shipment = s, !.quantity = q, !.prepared = k]
      BY <1>4, <2>1
    <2> QED
      BY <2>1, <2>2, <2>3, NoOrderFacts DEF OrderRow
  <1>6. /\ order' \in [Order -> OrderRow] /\ \A p \in Order : order'[p] = IF p = o THEN n ELSE order[p]
        /\ parcel' \in [Parcel -> Order \cup {Nothing}]
        /\ \A t \in Parcel : parcel'[t] = IF t = s THEN o ELSE parcel[t]
        /\ box' \in [ReadyCarton -> Parcel \cup {Nothing}]
        /\ \A c \in ReadyCarton : box'[c] = IF c \in a.picks THEN s ELSE box[c]
    BY <1>1, <1>3, <1>4, <1>5 DEF PlaceOrder, DeskInv, DeskTyped
  <1>7. asker' \in [Asker -> AskRow] /\ asker'[r] = Waiting /\ OthersStay({r}, {o}, a.picks)
    <2>1. Done(r, o, a.picks)
      BY <1>1 DEF PlaceOrder
    <2> QED
      BY <2>1, DoneFacts DEF DeskInv
  <1>8. DeskTyped'
    BY <1>2, <1>6, <1>7 DEF DeskInv, DeskTyped
  <1>9. /\ \A t \in Parcel : parcel[t] # o
        /\ \A c \in ReadyCarton : box[c] # s /\ box[c] \in Parcel \cup {Nothing}
        /\ \A p \in Order : order[p].shipment \in Parcel \cup {Nothing}
    BY <1>2, NothingIsNone DEF DeskInv, DeskTyped, OrdersLinked, OrderRow
  <1>10. OrdersLinked'
    <2>1. \A t \in Parcel : parcel'[t] # Nothing => order'[parcel'[t]].status # "absent"
      BY <1>2, <1>5, <1>6, <1>9, NothingIsNone DEF DeskInv, DeskTyped, OrdersLinked
    <2>2. \A c \in ReadyCarton : box'[c] # Nothing => parcel'[box'[c]] # Nothing
      BY <1>2, <1>6, <1>9, NothingIsNone DEF DeskInv, OrdersLinked
    <2>3. \A p \in Order : order'[p].shipment # Nothing => parcel'[order'[p].shipment] = p
      BY <1>2, <1>5, <1>6, <1>9, NothingIsNone DEF DeskInv, OrdersLinked
    <2> QED
      BY <2>1, <2>2, <2>3 DEF OrdersLinked
  <1>11. Ready \subseteq Ready' \cup a.picks
    BY <1>6 DEF Ready
  <1>12. \A q \in Asker \ {r} : /\ Working(asker[q])' /\ (mixed \/ severed \/ UpToDate(asker[q])')
                                /\ asker'[q].made = asker[q].made
    BY <1>2, <1>5, <1>6, <1>7, <1>8, <1>11, NothingIsNone, OthersKeep
  <1>13. Working(asker[r])' /\ UpToDate(asker[r])'
    BY <1>7, WaitingFacts DEF Working, UpToDate
  <1>14. ASSUME ~mixed, ~severed PROVE NoOrphan'
    <2>1. NoOrphan
      BY <1>14 DEF DeskInv
    <2> SUFFICES ASSUME NEW t \in Parcel, parcel'[t] # Nothing
                 PROVE  order'[parcel'[t]].shipment = t \/ \E q \in Asker : asker'[q].made = t
      BY DEF NoOrphan
    <2>2. CASE t = s
      BY <1>5, <1>6, <2>2
    <2>3. CASE t # s
      <3>1. parcel'[t] = parcel[t] /\ parcel[t] # o /\ parcel[t] \in Order
        BY <1>6, <1>9, <2>3 DEF DeskInv, DeskTyped
      <3>2. order'[parcel'[t]] = order[parcel[t]]
        BY <1>6, <3>1
      <3> QED
        BY <1>1, <1>2, <1>12, <2>1, <3>1, <3>2, NothingIsNone DEF NoOrphan
    <2> QED
      BY <2>2, <2>3
  <1>15. ASSUME ~mixed, ~severed, NEW p \in Order PROVE Counts(p)'
    <2>1. CASE p = o
      <3>1. Inside(p)' = a.picks
        BY <1>2, <1>6, <1>9, <2>1, NothingIsNone DEF Inside, MadeFor
      <3> QED
        BY <1>2, <1>3, <1>5, <1>6, <2>1, <3>1 DEF Counts
    <2>2. CASE p # o
      <3>1. Inside(p)' = Inside(p)
        BY <1>2, <1>6, <1>9, <2>2, NothingIsNone DEF Inside, MadeFor, Ready
      <3> QED
        BY <1>6, <1>15, <2>2, <3>1 DEF DeskInv, Counts
    <2> QED
      BY <2>1, <2>2
  <1> QED
    BY <1>2, <1>8, <1>10, <1>12, <1>13, <1>14, <1>15 DEF DeskInv

LEMMA AddUnitKeeps ==
    ASSUME DeskInv, NEW o \in Order, AddUnit(o) \/ PackUnit(o)
    PROVE  DeskInv'
  <1>1. /\ UNCHANGED <<parcel, box, mixed, severed>> /\ order[o] \in OrderRow
        /\ order[o].status # "absent" /\ order[o].status # "ready"
        /\ order[o].quantity + 1 \in Nat /\ order[o].prepared + 1 \in Nat /\ order[o].packed + 1 \in Int
        /\ PackUnit(o) => order[o].prepared < order[o].quantity
    BY DEF AddUnit, PackUnit, DeskInv, DeskTyped, OrderRow, Lacking
  <1>2. PICK n : /\ order' = [order EXCEPT ![o] = n]
                 /\ \/ n = [order[o] EXCEPT !.quantity = @ + 1, !.status = "reserved"]
                    \/ /\ n = [order[o] EXCEPT !.prepared = @ + 1, !.packed = @ + 1]
                       /\ order[o].prepared < order[o].quantity
    <2>1. CASE AddUnit(o)
      <3>1. order' = [order EXCEPT ![o] = [order[o] EXCEPT !.quantity = @ + 1, !.status = "reserved"]]
        BY <2>1 DEF AddUnit, DeskInv, DeskTyped
      <3> QED
        BY <3>1
    <2>2. CASE PackUnit(o)
      <3>1. order' = [order EXCEPT ![o] = [order[o] EXCEPT !.prepared = @ + 1, !.packed = @ + 1]]
        BY <2>2 DEF PackUnit, DeskInv, DeskTyped
      <3> QED
        BY <1>1, <2>2, <3>1
    <2> QED
      BY <2>1, <2>2
  <1>3. /\ n \in OrderRow /\ n.status # "absent" /\ n.status # "ready" /\ n.shipment = order[o].shipment
        /\ n.removed = order[o].removed
        /\ \/ n.quantity = order[o].quantity + 1 /\ n.prepared = order[o].prepared /\ n.packed = order[o].packed
           \/ /\ n.quantity = order[o].quantity /\ n.prepared = order[o].prepared + 1
              /\ n.packed = order[o].packed + 1 /\ order[o].prepared < order[o].quantity
    BY <1>1, <1>2 DEF OrderRow
  <1>4. order' \in [Order -> OrderRow] /\ \A p \in Order : order'[p] = IF p = o THEN n ELSE order[p]
    BY <1>2, <1>3 DEF DeskInv, DeskTyped
  <1>5. asker' \in [Asker -> AskRow] /\ OthersStay({}, {o}, {})
    <2>1. Beside({o}, {})
      BY DEF AddUnit, PackUnit
    <2> QED
      BY <2>1, BesideFacts DEF DeskInv
  <1>6. DeskTyped'
    BY <1>1, <1>4, <1>5 DEF DeskInv, DeskTyped
  <1>7. OrdersLinked'
    BY <1>1, <1>3, <1>4 DEF DeskInv, DeskTyped, OrdersLinked
  <1>8. Ready \subseteq Ready' \cup {}
    BY <1>1 DEF Ready
  <1>9. \A q \in Asker \ {} : /\ Working(asker[q])' /\ (mixed \/ severed \/ UpToDate(asker[q])')
                              /\ asker'[q].made = asker[q].made
    BY <1>1, <1>3, <1>4, <1>5, <1>6, <1>8, OthersKeep
  <1>10. ASSUME ~mixed, ~severed PROVE NoOrphan'
    <2>1. \A p \in Order : order'[p].shipment = order[p].shipment
      BY <1>3, <1>4
    <2> QED
      BY <1>1, <1>9, <1>10, <2>1 DEF DeskInv, DeskTyped, NoOrphan
  <1>11. ASSUME ~mixed, ~severed, NEW p \in Order PROVE Counts(p)'
    <2>1. Inside(p)' = Inside(p) /\ Cardinality(Inside(p)) \in Nat
      <3>1. Inside(p) \in SUBSET ReadyCarton
        BY DEF Inside
      <3>2. Inside(p)' = Inside(p)
        BY <1>1 DEF Inside, MadeFor
      <3> QED
        BY <3>1, <3>2, CartonsCount
    <2>2. Counts(p)
      BY <1>11 DEF DeskInv
    <2>3. CASE p = o
      BY <1>1, <1>3, <1>4, <2>1, <2>2, <2>3 DEF Counts, OrderRow
    <2>4. CASE p # o
      BY <1>4, <2>1, <2>2, <2>4 DEF Counts
    <2> QED
      BY <2>3, <2>4
  <1> QED
    BY <1>1, <1>6, <1>7, <1>9, <1>10, <1>11 DEF DeskInv

LEMMA MoveCartonKeeps ==
    ASSUME DeskInv, NEW c \in ReadyCarton, NEW s \in Parcel \cup {Nothing}, MoveCarton(c, s)
    PROVE  DeskInv'
  <1>1. /\ UNCHANGED <<parcel, mixed, severed>> /\ box[c] # s /\ Nothing \in {box[c], s}
        /\ s # Nothing => parcel[s] # Nothing
        /\ box[c] \in Parcel \cup {Nothing}
    BY DEF MoveCarton, Unused, DeskInv, DeskTyped
  <1>2. /\ box' \in [ReadyCarton -> Parcel \cup {Nothing}]
        /\ \A d \in ReadyCarton : box'[d] = IF d = c THEN s ELSE box[d]
    BY DEF MoveCarton, DeskInv, DeskTyped
  <1>3. ASSUME NEW o \in Order
        PROVE  /\ order'[o] \in OrderRow
               /\ order'[o].status = order[o].status /\ order'[o].shipment = order[o].shipment
               /\ order'[o].quantity = order[o].quantity /\ order'[o].prepared = order[o].prepared
               /\ order'[o].packed = order[o].packed
               /\ order'[o].removed = IF MadeFor(o, box[c]) THEN order[o].removed + 1
                                      ELSE IF MadeFor(o, s) THEN order[o].removed - 1
                                      ELSE order[o].removed
    <2>1. PICK n : n = IF MadeFor(o, box[c]) THEN [order[o] EXCEPT !.removed = @ + 1]
                       ELSE IF MadeFor(o, s) THEN [order[o] EXCEPT !.removed = @ - 1]
                       ELSE order[o]
      OBVIOUS
    <2>2. order'[o] = n
      BY <2>1 DEF MoveCarton
    <2>3. order[o] \in OrderRow
      BY DEF DeskInv, DeskTyped
    <2>4. /\ n \in OrderRow /\ n.status = order[o].status /\ n.shipment = order[o].shipment
          /\ n.quantity = order[o].quantity /\ n.prepared = order[o].prepared
          /\ n.packed = order[o].packed
          /\ n.removed = IF MadeFor(o, box[c]) THEN order[o].removed + 1
                         ELSE IF MadeFor(o, s) THEN order[o].removed - 1
                         ELSE order[o].removed
      BY <2>1, <2>3 DEF OrderRow
    <2> QED
      BY <2>2, <2>4
  <1>4. order' \in [Order -> OrderRow]
    <2>1. DOMAIN order' = Order /\ order' = [o \in Order |-> order'[o]]
      BY DEF MoveCarton
    <2> QED
      BY <1>3, <2>1
  <1>5. asker' \in [Asker -> AskRow] /\ OthersStay({}, {}, {c})
    <2>1. Beside({}, {c})
      BY DEF MoveCarton
    <2> QED
      BY <2>1, BesideFacts DEF DeskInv
  <1>6. DeskTyped'
    BY <1>1, <1>2, <1>4, <1>5 DEF DeskInv, DeskTyped
  <1>7. OrdersLinked'
    BY <1>1, <1>2, <1>3 DEF DeskInv, DeskTyped, OrdersLinked
  <1>8. Ready \subseteq Ready' \cup {c}
    BY <1>2 DEF Ready
  <1>9. \A q \in Asker \ {} : /\ Working(asker[q])' /\ (mixed \/ severed \/ UpToDate(asker[q])')
                              /\ asker'[q].made = asker[q].made
    BY <1>1, <1>3, <1>5, <1>6, <1>8, OthersKeep
  <1>10. ASSUME ~mixed, ~severed PROVE NoOrphan'
    BY <1>1, <1>3, <1>9, <1>10 DEF DeskInv, DeskTyped, NoOrphan
  <1>11. ASSUME ~mixed, ~severed, NEW o \in Order PROVE Counts(o)'
    <2>1. Counts(o)
      BY <1>11 DEF DeskInv
    <2>2. Inside(o) \in SUBSET ReadyCarton /\ Cardinality(Inside(o)) \in Nat
      BY CartonsCount DEF Inside
    <2>3. CASE MadeFor(o, box[c])
      <3>1. Inside(o)' = Inside(o) \ {c} /\ c \in Inside(o)
        BY <1>1, <1>2, <2>3 DEF Inside, MadeFor
      <3>2. Cardinality(Inside(o)') = Cardinality(Inside(o)) - 1
        BY <2>2, <3>1, CartonsCount
      <3> QED
        BY <1>3, <2>1, <2>2, <2>3, <3>2 DEF Counts, OrderRow, DeskInv, DeskTyped
    <2>4. CASE ~MadeFor(o, box[c]) /\ MadeFor(o, s)
      <3>1. Inside(o)' = Inside(o) \cup {c} /\ c \notin Inside(o)
        BY <1>1, <1>2, <2>4 DEF Inside, MadeFor
      <3>2. Cardinality(Inside(o)') = Cardinality(Inside(o)) + 1
        BY <2>2, <3>1, CartonsCount
      <3> QED
        BY <1>3, <2>1, <2>2, <2>4, <3>2 DEF Counts, OrderRow, DeskInv, DeskTyped
    <2>5. CASE ~MadeFor(o, box[c]) /\ ~MadeFor(o, s)
      <3>1. Inside(o)' = Inside(o)
        BY <1>1, <1>2, <2>5 DEF Inside, MadeFor
      <3> QED
        BY <1>3, <2>1, <2>5, <3>1 DEF Counts
    <2> QED
      BY <2>3, <2>4, <2>5
  <1> QED
    BY <1>1, <1>6, <1>7, <1>9, <1>10, <1>11 DEF DeskInv

LEMMA PrepareKeeps ==
    ASSUME DeskInv, NEW r \in Asker, NEW s \in Parcel, Prepare(r, s)
    PROVE  DeskInv'
  <1>1. PICK a, o : a = asker[r] /\ o = a.order
    OBVIOUS
  <1>2. /\ a \in AskRow /\ Working(a) /\ a.step = "txn" /\ o \in Order /\ order[o].status # "absent"
        /\ a.made = Nothing /\ a.picks \subseteq ReadyCarton /\ a.counted \in Nat /\ a.units \in Nat
        /\ a.had \in Parcel \cup {Nothing} /\ (a.had # Nothing => parcel[a.had] = o)
        /\ parcel[s] = Nothing /\ severed' = severed /\ mixed' = (mixed \/ a.behind)
        /\ mixed \in BOOLEAN /\ a.behind \in BOOLEAN /\ order[o] \in OrderRow
    BY <1>1 DEF Prepare, Unused, DeskInv, DeskTyped, Working, AskRow
  <1>3. PICK k \in Nat : k = Cardinality(a.picks)
    BY <1>2, CartonsCount
  <1>4. PICK target : target = IF a.had = Nothing THEN s ELSE a.had
    OBVIOUS
  <1>5. PICK m : m = [order[o] EXCEPT !.shipment = IF a.had = Nothing THEN s ELSE @,
                                      !.prepared = a.counted + a.units,
                                      !.packed = @ + a.units - k]
    OBVIOUS
  <1>6. /\ m \in OrderRow /\ m.status = order[o].status
        /\ m.shipment = (IF a.had = Nothing THEN s ELSE order[o].shipment)
        /\ m.quantity = order[o].quantity /\ m.prepared = a.counted + a.units
        /\ m.packed = order[o].packed + a.units - k /\ m.removed = order[o].removed
    <2>1. PICK h, u, v : /\ h = IF a.had = Nothing THEN s ELSE order[o].shipment
                         /\ u = a.counted + a.units /\ v = order[o].packed + a.units - k
      OBVIOUS
    <2>2. h \in Parcel \cup {Nothing} /\ u \in Nat /\ v \in Int
      BY <1>2, <2>1 DEF OrderRow
    <2>3. m = [order[o] EXCEPT !.shipment = h, !.prepared = u, !.packed = v]
      BY <1>5, <2>1
    <2> QED
      BY <1>2, <2>1, <2>2, <2>3 DEF OrderRow
  <1>7. PICK n : n = [m EXCEPT !.status = IF Lacking(m) = 0 THEN "ready" ELSE "preparing"]
    OBVIOUS
  <1>8. /\ n \in OrderRow /\ n.status = (IF Lacking(m) = 0 THEN "ready" ELSE "preparing")
        /\ n.shipment = m.shipment /\ n.quantity = m.quantity /\ n.prepared = m.prepared
        /\ n.packed = m.packed /\ n.removed = m.removed
    BY <1>6, <1>7 DEF OrderRow
  <1>9. order' = [order EXCEPT ![o] = n]
    BY <1>1, <1>3, <1>5, <1>7 DEF Prepare
  <1>10. order' \in [Order -> OrderRow] /\ \A p \in Order : order'[p] = IF p = o THEN n ELSE order[p]
    BY <1>2, <1>8, <1>9 DEF DeskInv, DeskTyped
  <1>11. /\ parcel' \in [Parcel -> Order \cup {Nothing}]
         /\ \A t \in Parcel : parcel'[t] = IF a.had = Nothing /\ t = s THEN o ELSE parcel[t]
         /\ target \in Parcel /\ parcel'[target] = o
    BY <1>1, <1>2, <1>4 DEF Prepare, DeskInv, DeskTyped
  <1>12. /\ box' \in [ReadyCarton -> Parcel \cup {Nothing}]
         /\ \A c \in ReadyCarton : box'[c] = IF c \in a.picks THEN target ELSE box[c]
    BY <1>1, <1>4, <1>11 DEF Prepare, DeskInv, DeskTyped
  <1>13. asker' \in [Asker -> AskRow] /\ asker'[r] = Waiting /\ OthersStay({r}, {o}, a.picks)
    <2>1. Done(r, o, a.picks)
      BY <1>1 DEF Prepare
    <2> QED
      BY <2>1, DoneFacts DEF DeskInv
  <1>14. DeskTyped'
    BY <1>2, <1>10, <1>11, <1>12, <1>13 DEF DeskInv, DeskTyped
  <1>15. /\ \A c \in ReadyCarton : box[c] # s /\ box[c] \in Parcel \cup {Nothing}
         /\ \A p \in Order : order[p].shipment # s /\ order[p].shipment \in Parcel \cup {Nothing}
    BY <1>2, NothingIsNone DEF DeskInv, DeskTyped, OrdersLinked, OrderRow
  <1>16. OrdersLinked'
    <2>1. \A t \in Parcel : parcel'[t] # Nothing => order'[parcel'[t]].status # "absent"
      BY <1>2, <1>8, <1>10, <1>11 DEF DeskInv, DeskTyped, OrdersLinked
    <2>2. \A c \in ReadyCarton : box'[c] # Nothing => parcel'[box'[c]] # Nothing
      BY <1>2, <1>11, <1>12, <1>15, NothingIsNone DEF DeskInv, OrdersLinked
    <2>3. \A p \in Order : order'[p].shipment # Nothing => parcel'[order'[p].shipment] = p
      BY <1>2, <1>6, <1>8, <1>10, <1>11, <1>15 DEF DeskInv, OrdersLinked
    <2> QED
      BY <2>1, <2>2, <2>3 DEF OrdersLinked
  <1>17. Ready \subseteq Ready' \cup a.picks
    BY <1>12 DEF Ready
  <1>18. \A q \in Asker \ {r} : /\ Working(asker[q])' /\ (mixed \/ severed \/ UpToDate(asker[q])')
                                /\ asker'[q].made = asker[q].made
    BY <1>2, <1>8, <1>10, <1>11, <1>13, <1>14, <1>17, NothingIsNone, OthersKeep
  <1>19. Working(asker[r])' /\ UpToDate(asker[r])'
    BY <1>13, WaitingFacts DEF Working, UpToDate
  <1>20. ASSUME ~mixed', ~severed
         PROVE  /\ NoOrphan /\ a.had = order[o].shipment /\ a.counted = order[o].prepared
                /\ a.units = Lacking(order[o]) /\ a.picks \subseteq Ready
    BY <1>1, <1>2, <1>20 DEF DeskInv, UpToDate
  <1>21. ASSUME ~mixed', ~severed PROVE NoOrphan'
    <2> SUFFICES ASSUME NEW t \in Parcel, parcel'[t] # Nothing
                 PROVE  order'[parcel'[t]].shipment = t \/ \E q \in Asker : asker'[q].made = t
      BY DEF NoOrphan
    <2>1. CASE a.had = Nothing /\ t = s
      BY <1>6, <1>8, <1>10, <1>11, <2>1
    <2>2. CASE ~(a.had = Nothing /\ t = s)
      <3>1. parcel'[t] = parcel[t] /\ parcel[t] \in Order
        BY <1>11, <2>2 DEF DeskInv, DeskTyped
      <3>2. CASE order[parcel[t]].shipment = t
        <4>1. parcel[t] = o => a.had # Nothing
          BY <1>20, <1>21, <3>2, NothingIsNone
        <4> QED
          BY <1>6, <1>8, <1>10, <3>1, <3>2, <4>1
      <3>3. ASSUME NEW q \in Asker, asker[q].made = t PROVE asker'[q].made = t
        BY <1>1, <1>2, <1>18, <3>3, NothingIsNone
      <3> QED
        BY <1>20, <1>21, <3>1, <3>2, <3>3 DEF NoOrphan
    <2> QED
      BY <2>1, <2>2
  <1>22. ASSUME ~mixed', ~severed, NEW p \in Order PROVE Counts(p)'
    <2>1. Counts(p)
      BY <1>2, <1>22 DEF DeskInv
    <2>2. Inside(p) \in SUBSET ReadyCarton /\ Cardinality(Inside(p)) \in Nat
      BY CartonsCount DEF Inside
    <2>3. CASE p = o
      <3>1. Inside(p)' = Inside(p) \cup a.picks /\ Inside(p) \cap a.picks = {}
        BY <1>2, <1>11, <1>12, <1>15, <1>20, <1>22, <2>3, NothingIsNone DEF Inside, MadeFor, Ready
      <3>2. Cardinality(Inside(p)') = Cardinality(Inside(p)) + k
        BY <1>2, <1>3, <2>2, <3>1, CartonsCount
      <3>3. n.prepared = n.quantity
        BY <1>2, <1>6, <1>8, <1>20, <1>22, <2>1, <2>3, LackingFacts DEF Counts, OrderRow
      <3>4. n.prepared = n.packed + n.removed + Cardinality(Inside(p)')
        BY <1>2, <1>3, <1>6, <1>8, <1>20, <1>22, <2>1, <2>2, <2>3, <3>2 DEF Counts, OrderRow
      <3>5. n.prepared \in Nat
        BY <1>8 DEF OrderRow
      <3>6. order'[p] = n
        BY <1>10, <2>3
      <3>7. n.prepared <= n.quantity
        BY <3>3, <3>5
      <3> QED
        BY <3>3, <3>4, <3>6, <3>7 DEF Counts
    <2>4. CASE p # o
      <3>1. Inside(p)' = Inside(p)
        BY <1>2, <1>11, <1>12, <1>15, <1>20, <1>22, <2>4, NothingIsNone DEF Inside, MadeFor, Ready
      <3> QED
        BY <1>10, <2>1, <2>4, <3>1 DEF Counts
    <2> QED
      BY <2>3, <2>4
  <1> QED
    BY <1>2, <1>14, <1>16, <1>18, <1>19, <1>21, <1>22 DEF DeskInv

LEMMA DeskStepKeeps == DeskInv /\ [DeskNext]_deskVars => DeskInv'
  <1> SUFFICES ASSUME DeskInv, [DeskNext]_deskVars PROVE DeskInv'
    OBVIOUS
  <1>1. ASSUME NEW r \in Asker, Refused(r) \/ Dies(r) PROVE DeskInv'
    BY <1>1, LeavesKeeps
  <1>2. ASSUME NEW r \in Asker, LinkShipment(r) \/ ReadReady(r) PROVE DeskInv'
    BY <1>2, LinkShipmentKeeps, ReadReadyKeeps
  <1>3. ASSUME NEW r \in Asker, NEW n \in 0..MaxUnits, NEW units \in 0..MaxUnits, Choose(r, n, units)
        PROVE  DeskInv'
    BY <1>3, ChooseKeeps
  <1>4. ASSUME NEW r \in Asker, NEW o \in Order, Enter(r, o) PROVE DeskInv'
    BY <1>4, EnterKeeps
  <1>5. ASSUME NEW r \in Asker, NEW o \in Order, NEW view \in {"list", "admin", "prepare"},
               LoadOrder(r, o, view)
        PROVE  DeskInv'
    BY <1>5, LoadOrderKeeps
  <1>6. ASSUME NEW r \in Asker, NEW s \in Parcel, MakeShipment(r, s) \/ Prepare(r, s) PROVE DeskInv'
    BY <1>6, MakeShipmentKeeps, PrepareKeeps
  <1>7. ASSUME NEW r \in Asker, NEW s \in Parcel, NEW o \in Order, PlaceOrder(r, o, s) PROVE DeskInv'
    BY <1>7, PlaceOrderKeeps
  <1>8. ASSUME NEW o \in Order, AddUnit(o) \/ PackUnit(o) PROVE DeskInv'
    BY <1>8, AddUnitKeeps
  <1>9. ASSUME NEW o \in Order, NEW review \in Reviews, Review(o, review) PROVE DeskInv'
    BY <1>9, ReviewKeeps
  <1>10. ASSUME NEW c \in ReadyCarton, NEW s \in Parcel \cup {Nothing}, MoveCarton(c, s) PROVE DeskInv'
    BY <1>10, MoveCartonKeeps
  <1>11. CASE UNCHANGED deskVars
    <2>1. UNCHANGED <<order, parcel, box, asker, mixed, severed>>
      BY <1>11 DEF deskVars
    <2>2. DeskTyped' /\ OrdersLinked'
      BY <2>1 DEF DeskInv, DeskTyped, OrdersLinked
    <2>3. \A r \in Asker : Working(asker[r])'
      BY <2>1 DEF DeskInv, Working
    <2>4. ASSUME ~mixed, ~severed
          PROVE  (\A r \in Asker : UpToDate(asker[r])') /\ NoOrphan' /\ (\A o \in Order : Counts(o)')
      BY <2>1, <2>4 DEF DeskInv, UpToDate, NoOrphan, Counts, Inside, MadeFor, Ready, Lacking
    <2> QED
      BY <2>1, <2>2, <2>3, <2>4 DEF DeskInv
  <1> QED
    BY <1>1, <1>2, <1>3, <1>4, <1>5, <1>6, <1>7, <1>8, <1>9, <1>10, <1>11 DEF DeskNext

\* Orders, their shipments and their cartons.
THEOREM OrdersStayAccounted == DeskSpec => []OrdersAccounted
  BY DeskInitHolds, DeskStepKeeps, DeskImplied, PTL DEF DeskSpec

-------------------------------------------------------------------------------
(***************************************************************************)
(* Billing documents: whatever requests overlap and die, payments lead to  *)
(* the status they call for, and an invoice is corrected once, except      *)
(* where a request changed a document behind another's back.               *)
(***************************************************************************)
Unsettled == {"draft", "cancelled_or_corrected"}

\* A page shows a document that exists; a request in progress is about an invoice.
PagesShow ==
    \A c \in Biller :
        /\ page[c].doc # NoDocument => doc[page[c].doc].kind # "none"
        /\ page[c].step # "shown" => page[c].doc \in Document /\ doc[page[c].doc].kind = "invoice"

\* A credit note is about an invoice.
NotesOfInvoices ==
    \A e \in Document : doc[e].kind = "credit_note" =>
        doc[e].of \in Document /\ doc[doc[e].of].kind = "invoice"

\* A draft invoice was not paid.
DraftsUnpaid ==
    \A d \in Document : doc[d].kind = "invoice" /\ doc[d].status = "draft" => doc[d].paid = 0

\* The status a request is about to write is still the right one.
UpdatesRight ==
    \A c \in Biller : page[c].step = "update" =>
        /\ page[c].status \notin Unsettled
        /\ page[c].doc \notin disturbed =>
              /\ doc[page[c].doc].status \notin Unsettled
              /\ page[c].status = NewStatus(doc[page[c].doc].paid, doc[page[c].doc].total)

\* BalancesFollowed, by the operator of the code.
Balanced ==
    \A d \in Document \ disturbed :
        doc[d].kind = "invoice" /\ doc[d].status \notin Unsettled /\ Settled(d) =>
            doc[d].status = NewStatus(doc[d].paid, doc[d].total)

BillInv ==
    /\ BillingTypeOK
    /\ PagesShow
    /\ NotesOfInvoices
    /\ DraftsUnpaid
    /\ UpdatesRight
    /\ Balanced
    /\ CorrectedOnce

(***************************************************************************)
(* One page moves.                                                         *)
(***************************************************************************)
LEMMA NewStatusFacts ==
    ASSUME NEW paid \in Int, NEW total \in Int
    PROVE  /\ NewStatus(paid, total) \in DocStatus \ Unsettled
           /\ NewStatus(0, total) = "issued"
           /\ NewStatus(paid, total) = "paid" <=> 0 < total /\ total <= paid
           /\ NewStatus(paid, total) = "partially_paid" <=> 0 < paid /\ paid < total
  BY DEF NewStatus, DocStatus, Unsettled

\* Which credit notes an invoice has depends on two columns.
LEMMA NotesKept ==
    ASSUME \A e \in Document : doc'[e].kind = doc[e].kind /\ doc'[e].of = doc[e].of
    PROVE  \A d \in Document : CreditNotes(d)' = CreditNotes(d)
  BY DEF CreditNotes

\* A page that shows a document is replaced, and no document changes.
LEMMA PageShown ==
    ASSUME BillInv, NEW c \in Biller, NEW p \in Page, page' = [page EXCEPT ![c] = p],
           p.step = "shown", p.doc # NoDocument => doc[p.doc].kind # "none",
           UNCHANGED doc, disturbed \subseteq disturbed', disturbed' \in SUBSET Document,
           \A d \in Document \ disturbed' :
              page[c].doc = d /\ page[c].step \in {"paid", "update"} /\ doc[d].status \notin Unsettled =>
                 doc[d].status = NewStatus(doc[d].paid, doc[d].total)
    PROVE  BillInv'
  <1>1. /\ page'[c] = p /\ \A q \in Biller : q # c => page'[q] = page[q]
        /\ page' \in [Biller -> Page]
    BY DEF BillInv, BillingTypeOK
  <1>2. BillingTypeOK'
    BY <1>1 DEF BillInv, BillingTypeOK
  <1>3. PagesShow' /\ NotesOfInvoices' /\ DraftsUnpaid'
    BY <1>1 DEF BillInv, PagesShow, NotesOfInvoices, DraftsUnpaid
  <1>4. UpdatesRight'
    BY <1>1 DEF BillInv, UpdatesRight
  <1>5. Balanced'
    <2> SUFFICES ASSUME NEW d \in Document, d \notin disturbed',
                        doc[d].kind = "invoice", doc[d].status \notin Unsettled, Settled(d)'
                 PROVE  doc[d].status = NewStatus(doc[d].paid, doc[d].total)
      BY DEF Balanced
    <2>1. CASE Settled(d)
      BY <2>1 DEF BillInv, Balanced
    <2>2. CASE ~ Settled(d)
      <3>1. page[c].doc = d /\ page[c].step \notin {"shown", "replace"}
        BY <1>1, <2>2 DEF Settled
      <3>2. page[c].step \in {"paid", "update"}
        BY <3>1 DEF BillInv, BillingTypeOK, Page
      <3> QED
        BY <3>1, <3>2
    <2> QED
      BY <2>1, <2>2
  <1>6. CorrectedOnce'
    BY NotesKept DEF BillInv, CorrectedOnce
  <1> QED
    BY <1>2, <1>3, <1>4, <1>5, <1>6 DEF BillInv

\* A free document is filled in as a draft that is no credit note, by a page that
\* then shows it.
LEMMA DraftMade ==
    ASSUME BillInv, NEW c \in Biller, NEW d \in Document, NEW row \in Doc, NEW p \in Page,
           doc[d].kind = "none", row.kind \in {"quote", "invoice"}, row.status = "draft",
           row.paid = 0, doc' = [doc EXCEPT ![d] = row],
           page' = [page EXCEPT ![c] = p], p.step = "shown", p.doc = d,
           page[c].step \in {"shown", "replace"}, UNCHANGED disturbed
    PROVE  BillInv'
  <1>1. /\ page'[c] = p /\ \A q \in Biller : q # c => page'[q] = page[q]
        /\ page' \in [Biller -> Page]
    BY DEF BillInv, BillingTypeOK
  <1>2. /\ doc'[d] = row /\ \A e \in Document : e # d => doc'[e] = doc[e]
        /\ doc' \in [Document -> Doc]
    BY DEF BillInv, BillingTypeOK
  <1>3. \A q \in Biller : page[q].doc = d => page[q].doc = NoDocument /\ page[q].step = "shown"
    BY DEF BillInv, PagesShow
  <1>4. d # NoDocument /\ \A q \in Biller : page[q].doc # d
    BY <1>3, NoDocumentIsNone
  <1>5. \A q \in Biller : page[q].doc \in Document \cup {NoDocument}
    BY DEF BillInv, BillingTypeOK, Page
  <1>6. BillingTypeOK'
    BY <1>1, <1>2 DEF BillInv, BillingTypeOK
  <1>7. PagesShow'
    BY <1>1, <1>2, <1>4, <1>5 DEF BillInv, PagesShow
  <1>8. NotesOfInvoices'
    BY <1>2 DEF BillInv, NotesOfInvoices
  <1>9. DraftsUnpaid'
    BY <1>2 DEF BillInv, DraftsUnpaid
  <1>10. UpdatesRight'
    <2>1. \A q \in Biller : page[q].step = "update" => page[q].doc \in Document
      BY DEF BillInv, PagesShow
    <2> QED
      BY <1>1, <1>2, <1>4, <2>1 DEF BillInv, UpdatesRight
  <1>11. Balanced'
    <2>1. \A e \in Document : e # d /\ Settled(e)' => Settled(e)
      BY <1>1 DEF Settled
    <2> QED
      BY <1>2, <2>1 DEF BillInv, Balanced, Unsettled
  <1>12. CorrectedOnce'
    <2>1. \A e \in Document : CreditNotes(e)' = CreditNotes(e)
      BY <1>2 DEF CreditNotes
    <2>2. CreditNotes(d) = {}
      BY DEF CreditNotes, BillInv, NotesOfInvoices
    <2> QED
      BY <1>2, <2>1, <2>2 DEF BillInv, CorrectedOnce
  <1> QED
    BY <1>6, <1>7, <1>8, <1>9, <1>10, <1>11, <1>12 DEF BillInv

(***************************************************************************)
(* One lemma per action.                                                   *)
(***************************************************************************)
LEMMA OpenKeeps ==
    ASSUME BillInv, NEW c \in Biller, NEW d \in Document, Open(c, d)
    PROVE  BillInv'
  <1>1. PICK p : p = [step |-> "shown", doc |-> d, status |-> doc[d].status]
    OBVIOUS
  <1>2. p \in Page
    BY <1>1 DEF BillInv, BillingTypeOK, Page, Doc
  <1>3. /\ page' = [page EXCEPT ![c] = p] /\ UNCHANGED <<doc, disturbed>>
        /\ doc[d].kind # "none" /\ page[c].step = "shown" /\ disturbed \in SUBSET Document
    BY <1>1 DEF Open, Shows, BillInv, BillingTypeOK
  <1> QED
    BY <1>1, <1>2, <1>3, PageShown

LEMMA CrashKeeps ==
    ASSUME BillInv, NEW c \in Biller, Crash(c)
    PROVE  BillInv'
  <1>1. NoPage \in Page /\ NoPage.step = "shown" /\ NoPage.doc = NoDocument
    BY DEF NoPage, Page, DocStatus
  <1>2. /\ page' = [page EXCEPT ![c] = NoPage] /\ UNCHANGED doc
        /\ disturbed' = IF page[c].step # "replace" THEN disturbed \cup {page[c].doc} ELSE disturbed
        /\ page[c].doc \in Document /\ disturbed \in SUBSET Document
    BY DEF Crash, BillInv, BillingTypeOK, PagesShow
  <1>3. /\ disturbed \subseteq disturbed' /\ disturbed' \in SUBSET Document
        /\ page[c].step \in {"paid", "update"} => page[c].doc \in disturbed'
    BY <1>2
  <1> QED
    BY <1>1, <1>2, <1>3, PageShown

LEMMA BuildDraftKeeps ==
    ASSUME BillInv, NEW c \in Biller, NEW d \in Document, NEW kind \in {"quote", "invoice"},
           NEW ships \in SUBSET Shipment, NEW total \in Totals,
           BuildDraft(c, d, kind, ships, total)
    PROVE  BillInv'
  <1>1. PICK row : row = [NoDoc EXCEPT !.kind = kind, !.ships = ships, !.total = total]
    OBVIOUS
  <1>2. /\ row \in Doc /\ row.kind = kind /\ row.status = "draft" /\ row.paid = 0
    <2>1. total \in Int
      BY AmountsWhole
    <2>2. row = [kind |-> kind, status |-> "draft", of |-> NoDocument, ships |-> ships,
                 total |-> total, paid |-> 0]
      BY <1>1 DEF NoDoc
    <2>3. kind \in Kind /\ "draft" \in DocStatus
      BY DEF Kind, DocStatus
    <2> QED
      BY <2>1, <2>2, <2>3 DEF Doc
  <1>3. PICK p : p = [step |-> "shown", doc |-> d, status |-> "draft"]
    OBVIOUS
  <1>4. p \in Page /\ p.step = "shown" /\ p.doc = d
    BY <1>3 DEF Page, DocStatus
  <1>5. /\ doc' = [doc EXCEPT ![d] = row] /\ page' = [page EXCEPT ![c] = p]
        /\ doc[d].kind = "none" /\ page[c].step = "shown" /\ UNCHANGED disturbed
    BY <1>1, <1>3 DEF BuildDraft, Shows, Free
  <1> QED
    BY <1>2, <1>4, <1>5, DraftMade

LEMMA ReplaceKeeps ==
    ASSUME BillInv, NEW c \in Biller, NEW d \in Document, Replace(c, d)
    PROVE  BillInv'
  <1>1. PICK i : i = page[c].doc
    OBVIOUS
  <1>2. i \in Document /\ page[c].step = "replace"
    BY <1>1 DEF Replace, BillInv, PagesShow
  <1>3. PICK row : row = [NoDoc EXCEPT !.kind = "invoice", !.of = i,
                             !.ships = doc[i].ships, !.total = doc[i].total]
    OBVIOUS
  <1>4. row \in Doc /\ row.kind = "invoice" /\ row.status = "draft" /\ row.paid = 0
    <2>1. doc[i] \in Doc
      BY <1>2 DEF BillInv, BillingTypeOK
    <2>2. row = [kind |-> "invoice", status |-> "draft", of |-> i, ships |-> doc[i].ships,
                 total |-> doc[i].total, paid |-> 0]
      BY <1>3 DEF NoDoc
    <2>3. "invoice" \in Kind /\ "draft" \in DocStatus
      BY DEF Kind, DocStatus
    <2> QED
      BY <1>2, <2>1, <2>2, <2>3 DEF Doc
  <1>5. PICK p : p = [step |-> "shown", doc |-> d, status |-> "draft"]
    OBVIOUS
  <1>6. p \in Page /\ p.step = "shown" /\ p.doc = d
    BY <1>5 DEF Page, DocStatus
  <1>7. /\ doc' = [doc EXCEPT ![d] = row] /\ page' = [page EXCEPT ![c] = p]
        /\ doc[d].kind = "none" /\ UNCHANGED disturbed
    BY <1>1, <1>3, <1>5 DEF Replace, Shows, Free
  <1> QED
    BY <1>2, <1>4, <1>6, <1>7, DraftMade

\* What another request is about to write, when nobody is.
LEMMA NoWriter ==
    ASSUME NEW c \in Biller, NEW d, ~ AboutToWrite(c, d)
    PROVE  \A q \in Biller : q # c /\ page[q].step = "update" => page[q].doc # d
  BY DEF AboutToWrite

LEMMA IssueKeeps ==
    ASSUME BillInv, NEW c \in Biller, Issue(c)
    PROVE  BillInv'
  <1>1. PICK d : d = page[c].doc
    OBVIOUS
  <1>2. /\ page[c].step = "shown" /\ d \in Document
        /\ doc' = [doc EXCEPT ![d].status = "issued"]
        /\ disturbed' = IF doc[d].status # "draft" \/ AboutToWrite(c, d)
                        THEN disturbed \cup {d} ELSE disturbed
        /\ page' = [page EXCEPT ![c] = [step |-> "shown", doc |-> d, status |-> "issued"]]
        /\ doc[d].kind # "none"
    BY <1>1 DEF Issue, Shows, BillInv, BillingTypeOK, PagesShow, Page
  <1>3. PICK p : p = [step |-> "shown", doc |-> d, status |-> "issued"]
    OBVIOUS
  <1>4. p \in Page /\ p.step = "shown" /\ p.doc = d
    BY <1>2, <1>3 DEF Page, DocStatus
  <1>5. /\ page'[c] = p /\ \A q \in Biller : q # c => page'[q] = page[q]
        /\ page' \in [Biller -> Page]
    BY <1>2, <1>3, <1>4 DEF BillInv, BillingTypeOK
  <1>6. PICK row : row = [doc[d] EXCEPT !.status = "issued"]
    OBVIOUS
  <1>7. /\ row \in Doc /\ row.status = "issued" /\ row.kind = doc[d].kind /\ row.of = doc[d].of
        /\ row.paid = doc[d].paid /\ row.total = doc[d].total /\ doc[d].total \in Int
    BY <1>2, <1>6 DEF BillInv, BillingTypeOK, Doc, DocStatus
  <1>8. doc' = [doc EXCEPT ![d] = row]
    BY <1>2, <1>6
  <1>9. /\ doc'[d] = row /\ \A e \in Document : e # d => doc'[e] = doc[e]
        /\ doc' \in [Document -> Doc]
    BY <1>2, <1>7, <1>8 DEF BillInv, BillingTypeOK
  <1>10. /\ disturbed \subseteq disturbed' /\ disturbed' \in SUBSET Document
         /\ d \notin disturbed' => doc[d].status = "draft" /\ ~ AboutToWrite(c, d)
    BY <1>2 DEF BillInv, BillingTypeOK
  <1>11. BillingTypeOK'
    BY <1>5, <1>9, <1>10 DEF BillInv, BillingTypeOK
  <1>12. PagesShow' /\ NotesOfInvoices' /\ DraftsUnpaid'
    BY <1>2, <1>4, <1>5, <1>7, <1>9 DEF BillInv, PagesShow, NotesOfInvoices, DraftsUnpaid
  <1>13. UpdatesRight'
    <2>1. \A q \in Biller : page[q].step = "update" => page[q].doc \in Document
      BY DEF BillInv, PagesShow
    <2>2. \A q \in Biller : page'[q].step = "update" /\ page'[q].doc \notin disturbed' =>
             page[q].doc # d
      BY <1>4, <1>5, <1>10, NoWriter
    <2> QED
      BY <1>4, <1>5, <1>9, <1>10, <2>1, <2>2 DEF BillInv, UpdatesRight
  <1>14. Balanced'
    <2>1. \A e \in Document : Settled(e)' => Settled(e)
      BY <1>2, <1>5 DEF Settled
    <2>2. d \notin disturbed' /\ doc[d].kind = "invoice" => row.status = NewStatus(row.paid, row.total)
      BY <1>2, <1>7, <1>10, NewStatusFacts DEF BillInv, DraftsUnpaid
    <2> QED
      BY <1>7, <1>9, <1>10, <2>1, <2>2 DEF BillInv, Balanced
  <1>15. CorrectedOnce'
    <2>1. \A e \in Document : CreditNotes(e)' = CreditNotes(e)
      BY <1>7, <1>9, NotesKept
    <2>2. d \notin disturbed' => CreditNotes(d) = {}
      BY <1>2, <1>10 DEF BillInv, CorrectedOnce
    <2> QED
      BY <1>7, <1>9, <1>10, <2>1, <2>2 DEF BillInv, CorrectedOnce
  <1> QED
    BY <1>11, <1>12, <1>13, <1>14, <1>15 DEF BillInv

LEMMA PayKeeps ==
    ASSUME BillInv, NEW c \in Biller, NEW amount \in Amounts, Pay(c, amount)
    PROVE  BillInv'
  <1>1. PICK d : d = page[c].doc
    OBVIOUS
  <1>2. /\ page[c].step = "shown" /\ d \in Document /\ doc[d].kind = "invoice"
        /\ doc[d].status # "draft"
        /\ doc' = [doc EXCEPT ![d].paid = @ + amount]
        /\ page' = [page EXCEPT ![c].step = "paid"]
        /\ disturbed' = IF AboutToWrite(c, d) THEN disturbed \cup {d} ELSE disturbed
    BY <1>1 DEF Pay, OffersInvoiceForms, BillInv, BillingTypeOK, Page
  <1>3. PICK p : p = [page[c] EXCEPT !.step = "paid"]
    OBVIOUS
  <1>4. p \in Page /\ p.step = "paid" /\ p.doc = d
    BY <1>1, <1>3 DEF Page, BillInv, BillingTypeOK
  <1>5. page' = [page EXCEPT ![c] = p]
    BY <1>2, <1>3
  <1>6. /\ page'[c] = p /\ \A q \in Biller : q # c => page'[q] = page[q]
        /\ page' \in [Biller -> Page]
    BY <1>4, <1>5 DEF BillInv, BillingTypeOK
  <1>7. PICK row : row = [doc[d] EXCEPT !.paid = doc[d].paid + amount]
    OBVIOUS
  <1>8. /\ row \in Doc /\ row.status = doc[d].status /\ row.kind = "invoice" /\ row.of = doc[d].of
        /\ doc' = [doc EXCEPT ![d] = row]
    <2>1. doc[d].paid + amount \in Int
      BY <1>2, AmountsWhole DEF BillInv, BillingTypeOK, Doc
    <2>2. doc[d] \in Doc
      BY <1>2 DEF BillInv, BillingTypeOK
    <2> QED
      BY <1>2, <1>7, <2>1, <2>2 DEF Doc
  <1>9. /\ doc'[d] = row /\ \A e \in Document : e # d => doc'[e] = doc[e]
        /\ doc' \in [Document -> Doc]
    BY <1>2, <1>8 DEF BillInv, BillingTypeOK
  <1>10. /\ disturbed \subseteq disturbed' /\ disturbed' \in SUBSET Document
         /\ d \notin disturbed' => ~ AboutToWrite(c, d)
    BY <1>2 DEF BillInv, BillingTypeOK
  <1>11. BillingTypeOK'
    BY <1>6, <1>9, <1>10 DEF BillInv, BillingTypeOK
  <1>12. PagesShow' /\ NotesOfInvoices' /\ DraftsUnpaid'
    <2>1. \A e \in Document : doc'[e].kind = doc[e].kind /\ doc'[e].of = doc[e].of
      BY <1>2, <1>8, <1>9
    <2>2. \A q \in Biller : page'[q].doc = page[q].doc
                            /\ (page'[q].step # "shown" => page[q].step # "shown" \/ q = c)
      BY <1>1, <1>4, <1>6
    <2>3. \A q \in Biller : page[q].doc \in Document \cup {NoDocument}
      BY DEF BillInv, BillingTypeOK, Page
    <2>4. PagesShow'
      BY <1>1, <1>2, <2>1, <2>2, <2>3 DEF BillInv, PagesShow
    <2>5. NotesOfInvoices'
      BY <2>1 DEF BillInv, NotesOfInvoices
    <2>6. DraftsUnpaid'
      BY <1>2, <1>8, <1>9 DEF BillInv, DraftsUnpaid
    <2> QED
      BY <2>4, <2>5, <2>6
  <1>13. UpdatesRight'
    <2>1. \A q \in Biller : page[q].step = "update" => page[q].doc \in Document
      BY DEF BillInv, PagesShow
    <2>2. \A q \in Biller : page'[q].step = "update" /\ page'[q].doc \notin disturbed' =>
             page[q].doc # d
      BY <1>4, <1>6, <1>10, NoWriter
    <2> QED
      BY <1>4, <1>6, <1>9, <1>10, <2>1, <2>2 DEF BillInv, UpdatesRight
  <1>14. Balanced'
    <2>1. \A e \in Document : Settled(e)' => e # d /\ Settled(e)
      BY <1>2, <1>4, <1>6 DEF Settled
    <2> QED
      BY <1>9, <1>10, <2>1 DEF BillInv, Balanced
  <1>15. CorrectedOnce'
    <2>1. \A e \in Document : CreditNotes(e)' = CreditNotes(e)
      BY <1>2, <1>8, <1>9, NotesKept
    <2> QED
      BY <1>8, <1>9, <1>10, <2>1 DEF BillInv, CorrectedOnce
  <1> QED
    BY <1>11, <1>12, <1>13, <1>14, <1>15 DEF BillInv

LEMMA RecomputeReadKeeps ==
    ASSUME BillInv, NEW c \in Biller, RecomputeRead(c)
    PROVE  BillInv'
  <1>1. PICK d : d = page[c].doc
    OBVIOUS
  <1>2. PICK new : new = NewStatus(doc[d].paid, doc[d].total)
    OBVIOUS
  <1>3. /\ page[c].step = "paid" /\ d \in Document /\ doc[d].kind = "invoice"
        /\ doc[d].paid \in Int /\ doc[d].total \in Int /\ doc[d].status \in DocStatus
        /\ UNCHANGED <<doc, disturbed>> /\ disturbed \in SUBSET Document
    BY <1>1 DEF RecomputeRead, BillInv, BillingTypeOK, PagesShow, Doc
  <1>4. CASE doc[d].status \in {"draft", "cancelled_or_corrected", new}
    <2>1. PICK p : p = [step |-> "shown", doc |-> d, status |-> doc[d].status]
      OBVIOUS
    <2>2. p \in Page /\ p.step = "shown" /\ p.doc = d
      BY <1>3, <2>1 DEF Page
    <2>3. page' = [page EXCEPT ![c] = p]
      BY <1>1, <1>2, <1>4, <2>1 DEF RecomputeRead, Shows
    <2>4. \A e \in Document \ disturbed' :
             page[c].doc = e /\ doc[e].status \notin Unsettled =>
                doc[e].status = NewStatus(doc[e].paid, doc[e].total)
      BY <1>1, <1>2, <1>4 DEF Unsettled
    <2> QED
      BY <1>3, <2>2, <2>3, <2>4, PageShown
  <1>5. CASE doc[d].status \notin {"draft", "cancelled_or_corrected", new}
    <2>1. PICK p : p = [page[c] EXCEPT !.step = "update", !.status = new]
      OBVIOUS
    <2>2. new \in DocStatus \ Unsettled
      BY <1>2, <1>3, NewStatusFacts
    <2>3. p \in Page /\ p.step = "update" /\ p.doc = d /\ p.status = new
      BY <1>1, <2>1, <2>2 DEF Page, BillInv, BillingTypeOK
    <2>4. page' = [page EXCEPT ![c] = p]
      BY <1>1, <1>2, <1>5, <2>1 DEF RecomputeRead
    <2>5. /\ page'[c] = p /\ \A q \in Biller : q # c => page'[q] = page[q]
          /\ page' \in [Biller -> Page]
      BY <2>3, <2>4 DEF BillInv, BillingTypeOK
    <2>6. BillingTypeOK'
      BY <1>3, <2>5 DEF BillInv, BillingTypeOK
    <2>7. PagesShow' /\ NotesOfInvoices' /\ DraftsUnpaid'
      BY <1>3, <2>3, <2>5 DEF BillInv, PagesShow, NotesOfInvoices, DraftsUnpaid
    <2>8. UpdatesRight'
      BY <1>2, <1>3, <1>5, <2>2, <2>3, <2>5 DEF BillInv, UpdatesRight, Unsettled
    <2>9. Balanced'
      <3>1. \A e \in Document : Settled(e)' => Settled(e)
        BY <1>1, <2>3, <2>5 DEF Settled
      <3> QED
        BY <1>3, <3>1 DEF BillInv, Balanced
    <2>10. CorrectedOnce'
      BY <1>3, NotesKept DEF BillInv, CorrectedOnce
    <2> QED
      BY <2>6, <2>7, <2>8, <2>9, <2>10 DEF BillInv
  <1> QED
    BY <1>4, <1>5

LEMMA RecomputeWriteKeeps ==
    ASSUME BillInv, NEW c \in Biller, RecomputeWrite(c)
    PROVE  BillInv'
  <1>1. PICK d : d = page[c].doc
    OBVIOUS
  <1>2. PICK new : new = page[c].status
    OBVIOUS
  <1>3. /\ page[c].step = "update" /\ d \in Document /\ doc[d].kind = "invoice"
        /\ doc' = [doc EXCEPT ![d].status = new] /\ UNCHANGED disturbed
        /\ page' = [page EXCEPT ![c] = [step |-> "shown", doc |-> d, status |-> new]]
        /\ new \in DocStatus \ Unsettled
        /\ d \notin disturbed => /\ doc[d].status \notin Unsettled
                                 /\ new = NewStatus(doc[d].paid, doc[d].total)
    BY <1>1, <1>2 DEF RecomputeWrite, Shows, BillInv, BillingTypeOK, PagesShow, UpdatesRight, Page
  <1>4. PICK p : p = [step |-> "shown", doc |-> d, status |-> new]
    OBVIOUS
  <1>5. p \in Page /\ p.step = "shown" /\ p.doc = d
    BY <1>3, <1>4 DEF Page
  <1>6. /\ page'[c] = p /\ \A q \in Biller : q # c => page'[q] = page[q]
        /\ page' \in [Biller -> Page]
    BY <1>3, <1>4, <1>5 DEF BillInv, BillingTypeOK
  <1>7. PICK row : row = [doc[d] EXCEPT !.status = new]
    OBVIOUS
  <1>8. /\ row \in Doc /\ row.status = new /\ row.kind = "invoice" /\ row.of = doc[d].of
        /\ row.paid = doc[d].paid /\ row.total = doc[d].total /\ doc' = [doc EXCEPT ![d] = row]
    BY <1>3, <1>7 DEF BillInv, BillingTypeOK, Doc
  <1>9. /\ doc'[d] = row /\ \A e \in Document : e # d => doc'[e] = doc[e]
        /\ doc' \in [Document -> Doc]
    BY <1>3, <1>8 DEF BillInv, BillingTypeOK
  <1>10. BillingTypeOK'
    BY <1>3, <1>6, <1>9 DEF BillInv, BillingTypeOK
  <1>11. PagesShow' /\ NotesOfInvoices' /\ DraftsUnpaid'
    BY <1>3, <1>5, <1>6, <1>8, <1>9
       DEF BillInv, PagesShow, NotesOfInvoices, DraftsUnpaid, Unsettled
  <1>12. UpdatesRight'
    <2>1. \A q \in Biller : page[q].step = "update" => page[q].doc \in Document
      BY DEF BillInv, PagesShow
    <2> QED
      BY <1>3, <1>5, <1>6, <1>8, <1>9, <2>1 DEF BillInv, UpdatesRight
  <1>13. Balanced'
    <2>1. \A e \in Document : e # d /\ Settled(e)' => Settled(e)
      BY <1>1, <1>6 DEF Settled
    <2> QED
      BY <1>3, <1>8, <1>9, <2>1 DEF BillInv, Balanced
  <1>14. CorrectedOnce'
    <2>1. \A e \in Document : CreditNotes(e)' = CreditNotes(e)
      BY <1>3, <1>8, <1>9, NotesKept
    <2>2. d \notin disturbed => CreditNotes(d) = {}
      BY <1>3 DEF BillInv, CorrectedOnce, Unsettled
    <2> QED
      BY <1>3, <1>8, <1>9, <2>1, <2>2 DEF BillInv, CorrectedOnce, Unsettled
  <1> QED
    BY <1>10, <1>11, <1>12, <1>13, <1>14 DEF BillInv

LEMMA CorrectKeeps ==
    ASSUME BillInv, NEW c \in Biller, NEW d \in Document, NEW replace \in BOOLEAN,
           Correct(c, d, replace)
    PROVE  BillInv'
  <1>1. PICK i : i = page[c].doc
    OBVIOUS
  <1>2. /\ page[c].step = "shown" /\ i \in Document /\ doc[i].kind = "invoice"
        /\ doc[d].kind = "none" /\ i # d /\ doc[i] \in Doc
        /\ disturbed' = IF doc[i].status = "cancelled_or_corrected" \/ AboutToWrite(c, i)
                        THEN disturbed \cup {i} ELSE disturbed
    BY <1>1 DEF Correct, OffersInvoiceForms, BillInv, BillingTypeOK, Page, Free
  <1>3. PICK note : note = [NoDoc EXCEPT !.kind = "credit_note", !.status = "issued",
                              !.of = i, !.ships = doc[i].ships, !.total = -doc[i].total]
    OBVIOUS
  <1>4. note \in Doc /\ note.kind = "credit_note" /\ note.of = i
    <2>1. - doc[i].total \in Int
      BY <1>2 DEF Doc
    <2>2. note = [kind |-> "credit_note", status |-> "issued", of |-> i, ships |-> doc[i].ships,
                  total |-> - doc[i].total, paid |-> 0]
      BY <1>3 DEF NoDoc
    <2>3. "credit_note" \in Kind /\ "issued" \in DocStatus
      BY DEF Kind, DocStatus
    <2> QED
      BY <1>2, <2>1, <2>2, <2>3 DEF Doc
  <1>5. PICK row : row = Corrected(doc[i])
    OBVIOUS
  <1>6. /\ row \in Doc /\ row.kind = "invoice" /\ row.of = doc[i].of
        /\ row.status = "cancelled_or_corrected"
    BY <1>2, <1>5 DEF Corrected, Doc, DocStatus
  <1>7. doc' = [doc EXCEPT ![d] = note, ![i] = row]
    BY <1>1, <1>3, <1>5 DEF Correct
  <1>8. /\ doc'[d] = note /\ doc'[i] = row
        /\ \A e \in Document : e # d /\ e # i => doc'[e] = doc[e]
        /\ doc' \in [Document -> Doc]
    BY <1>2, <1>4, <1>6, <1>7 DEF BillInv, BillingTypeOK
  <1>9. PICK p \in Page : /\ page' = [page EXCEPT ![c] = p]
                           /\ \/ p.step = "replace" /\ p.doc = i
                              \/ p.step = "shown" /\ p.doc = d
    <2>1. CASE replace
      <3>1. PICK p : p = [page[c] EXCEPT !.step = "replace"]
        OBVIOUS
      <3>2. p \in Page /\ p.step = "replace" /\ p.doc = i
        BY <1>1, <3>1 DEF Page, BillInv, BillingTypeOK
      <3>3. page' = [page EXCEPT ![c] = p]
        BY <2>1, <3>1 DEF Correct
      <3> QED
        BY <3>2, <3>3
    <2>2. CASE ~ replace
      <3>1. PICK p : p = [step |-> "shown", doc |-> d, status |-> "issued"]
        OBVIOUS
      <3>2. p \in Page /\ p.step = "shown" /\ p.doc = d
        BY <3>1 DEF Page, DocStatus
      <3>3. page' = [page EXCEPT ![c] = p]
        BY <2>2, <3>1 DEF Correct, Shows
      <3> QED
        BY <3>2, <3>3
    <2> QED
      BY <2>1, <2>2
  <1>10. /\ page'[c] = p /\ \A q \in Biller : q # c => page'[q] = page[q]
         /\ page' \in [Biller -> Page]
    BY <1>9 DEF BillInv, BillingTypeOK
  <1>11. /\ disturbed \subseteq disturbed' /\ disturbed' \in SUBSET Document
         /\ i \notin disturbed' =>
               doc[i].status # "cancelled_or_corrected" /\ ~ AboutToWrite(c, i)
    BY <1>2 DEF BillInv, BillingTypeOK
  \* Nobody is on a document that is free.
  <1>12. d # NoDocument /\ \A q \in Biller : page[q].doc # d
    <2>1. d # NoDocument
      BY NoDocumentIsNone
    <2> QED
      BY <1>2, <2>1 DEF BillInv, PagesShow
  <1>13. \A q \in Biller : page[q].doc \in Document \cup {NoDocument}
    BY DEF BillInv, BillingTypeOK, Page
  <1>14. BillingTypeOK'
    BY <1>8, <1>10, <1>11 DEF BillInv, BillingTypeOK
  <1>15. PagesShow'
    <2>1. \A e \in Document : doc[e].kind # "none" => doc'[e].kind # "none"
      BY <1>4, <1>6, <1>8
    <2>2. \A e \in Document : doc[e].kind = "invoice" => doc'[e].kind = "invoice"
      BY <1>2, <1>6, <1>8
    <2>3. doc'[p.doc].kind # "none" /\ (p.step # "shown" => p.doc = i)
      BY <1>4, <1>6, <1>8, <1>9
    <2> QED
      BY <1>2, <1>6, <1>8, <1>10, <1>13, <2>1, <2>2, <2>3 DEF BillInv, PagesShow
  <1>16. NotesOfInvoices'
    <2>1. \A e \in Document : doc[e].kind = "invoice" => doc'[e].kind = "invoice"
      BY <1>2, <1>6, <1>8
    <2> QED
      BY <1>2, <1>4, <1>6, <1>8, <2>1 DEF BillInv, NotesOfInvoices
  <1>17. DraftsUnpaid'
    BY <1>4, <1>6, <1>8 DEF BillInv, DraftsUnpaid
  <1>18. UpdatesRight'
    <2>1. \A q \in Biller : page[q].step = "update" => page[q].doc \in Document
      BY DEF BillInv, PagesShow
    <2>2. \A q \in Biller : page'[q].step = "update" =>
             /\ q # c /\ page[q].doc # d
             /\ page'[q].doc \notin disturbed' => page[q].doc # i
      BY <1>9, <1>10, <1>11, <1>12, NoWriter
    <2> QED
      BY <1>8, <1>10, <1>11, <2>1, <2>2 DEF BillInv, UpdatesRight
  <1>19. Balanced'
    <2>1. \A e \in Document : Settled(e)' => Settled(e)
      BY <1>2, <1>10 DEF Settled
    <2> QED
      BY <1>4, <1>6, <1>8, <1>11, <2>1 DEF BillInv, Balanced, Unsettled
  <1>20. CorrectedOnce'
    <2>1. CreditNotes(i)' = CreditNotes(i) \cup {d}
      BY <1>2, <1>4, <1>6, <1>8 DEF CreditNotes
    <2>2. \A e \in Document : e # i => CreditNotes(e)' = CreditNotes(e)
      BY <1>2, <1>4, <1>6, <1>8 DEF CreditNotes
    <2>3. CreditNotes(d) = {}
      BY <1>2 DEF CreditNotes, BillInv, NotesOfInvoices
    <2>4. i \notin disturbed' => CreditNotes(i) = {}
      BY <1>2, <1>11 DEF BillInv, CorrectedOnce
    <2>5. note.status = "issued"
      BY <1>3 DEF NoDoc
    <2>6. ASSUME NEW e \in Document
          PROVE  /\ doc'[e].status = "cancelled_or_corrected" => CreditNotes(e)' # {}
                 /\ e \notin disturbed' /\ CreditNotes(e)' # {} =>
                       /\ doc'[e].status = "cancelled_or_corrected"
                       /\ \A f, g \in CreditNotes(e)' : f = g
      <3>1. CASE e = i
        BY <1>6, <1>8, <2>1, <2>4, <3>1
      <3>2. CASE e = d
        BY <1>2, <1>8, <2>2, <2>3, <2>5, <3>2
      <3>3. CASE e # i /\ e # d
        BY <1>8, <1>11, <2>2, <3>3 DEF BillInv, CorrectedOnce
      <3> QED
        BY <3>1, <3>2, <3>3
    <2> QED
      BY <2>6 DEF CorrectedOnce
  <1> QED
    BY <1>14, <1>15, <1>16, <1>17, <1>18, <1>19, <1>20 DEF BillInv

LEMMA BillingInitHolds == BillingInit => BillInv
  <1> SUFFICES ASSUME BillingInit PROVE BillInv
    OBVIOUS
  <1>1. /\ NoDoc \in Doc /\ NoDoc.kind = "none" /\ NoDoc.status = "draft"
        /\ NoPage \in Page /\ NoPage.step = "shown" /\ NoPage.doc = NoDocument
    BY DEF NoDoc, Doc, Kind, DocStatus, NoPage, Page
  <1>2. /\ \A d \in Document : doc[d] = NoDoc
        /\ \A c \in Biller : page[c] = NoPage
        /\ doc \in [Document -> Doc] /\ page \in [Biller -> Page] /\ disturbed = {}
    BY <1>1 DEF BillingInit
  <1>3. BillingTypeOK /\ PagesShow /\ NotesOfInvoices /\ DraftsUnpaid /\ UpdatesRight /\ Balanced
    BY <1>1, <1>2 DEF BillingTypeOK, PagesShow, NotesOfInvoices, DraftsUnpaid, UpdatesRight, Balanced
  <1>4. CorrectedOnce
    BY <1>1, <1>2 DEF CorrectedOnce, CreditNotes
  <1> QED
    BY <1>3, <1>4 DEF BillInv

LEMMA BillingStepKeeps == BillInv /\ [BillingNext]_billingVars => BillInv'
  <1> SUFFICES ASSUME BillInv, [BillingNext]_billingVars PROVE BillInv'
    OBVIOUS
  <1>1. ASSUME NEW c \in Biller,
               Issue(c) \/ RecomputeRead(c) \/ RecomputeWrite(c) \/ Crash(c)
        PROVE  BillInv'
    BY <1>1, IssueKeeps, RecomputeReadKeeps, RecomputeWriteKeeps, CrashKeeps
  <1>2. ASSUME NEW c \in Biller, NEW amount \in Amounts, Pay(c, amount) PROVE BillInv'
    BY <1>2, PayKeeps
  <1>3. ASSUME NEW c \in Biller, NEW d \in Document,
               Open(c, d) \/ Replace(c, d) \/ \E replace \in BOOLEAN : Correct(c, d, replace)
        PROVE  BillInv'
    BY <1>3, OpenKeeps, ReplaceKeeps, CorrectKeeps
  <1>4. ASSUME NEW c \in Biller, NEW d \in Document, NEW kind \in {"quote", "invoice"},
               NEW ships \in SUBSET Shipment, NEW t \in Totals, BuildDraft(c, d, kind, ships, t)
        PROVE  BillInv'
    BY <1>4, BuildDraftKeeps
  <1>5. CASE UNCHANGED billingVars
    BY <1>5 DEF billingVars, BillInv, BillingTypeOK, PagesShow, NotesOfInvoices, DraftsUnpaid,
                UpdatesRight, Balanced, Settled, CorrectedOnce, CreditNotes
  <1> QED
    BY <1>1, <1>2, <1>3, <1>4, <1>5 DEF BillingNext

(***************************************************************************)
(* Theorems.                                                               *)
(***************************************************************************)
\* The invariant of the billing documents and of the pages that clerks have open.
THEOREM BillingInvariant == BillingSpec => []BillInv
  BY BillingInitHolds, BillingStepKeeps, PTL DEF BillingSpec

\* Documents and pages hold what their fields may hold.
THEOREM BillingTypeCorrect == BillingSpec => []BillingTypeOK
  <1>1. BillInv => BillingTypeOK
    BY DEF BillInv
  <1> QED
    BY <1>1, BillingInvariant, PTL

\* Once its payments are settled, an invoice has the status they call for, however
\* the clerks paid, gave back, corrected and issued it, unless one of them wrote
\* over what another had just changed or died before the update.
THEOREM BalancesStayFollowed == BillingSpec => []BalancesFollowed
  <1>1. ASSUME BillInv PROVE BalancesFollowed
    <2>1. \A d \in Document : /\ doc[d].paid \in Int /\ doc[d].total \in Int
                              /\ doc[d].status \notin {"draft", "cancelled_or_corrected"} =>
                                    doc[d].status \notin Unsettled
      BY <1>1 DEF BillInv, BillingTypeOK, Doc, Unsettled
    <2> QED
      BY <1>1, <2>1, NewStatusFacts DEF BillInv, Balanced, BalancesFollowed
  <1> QED
    BY <1>1, BillingInvariant, PTL

\* An invoice is corrected by one credit note and stays corrected, unless a page
\* that no longer told the truth issued, paid or corrected it.
THEOREM InvoicesCorrectedOnce == BillingSpec => []CorrectedOnce
  <1>1. BillInv => CorrectedOnce
    BY DEF BillInv
  <1> QED
    BY <1>1, BillingInvariant, PTL

-------------------------------------------------------------------------------
(***************************************************************************)
(* The registry of parties: rows hang together, and merges lose nothing.   *)
(***************************************************************************)
Book == [sends : SUBSET Sender, org : [Receiver -> Structure],
         home : [Person -> Receiver \cup {NoHome}], living : SUBSET Person, strayed : SUBSET Person,
         seat : SUBSET (Receiver \X Person), link : SUBSET (Sender \X Receiver),
         auth : SUBSET Authorization, first : SUBSET Authorization]

\* An authorization joins a link to a seat, who was not moved sits at home, and nothing
\* hangs on a structure that is off.
Hangs(sends, org, home, strayed, seat, link, auth) ==
    /\ \A a \in auth : /\ a.at = a.to /\ a.from \in sends
                       /\ <<a.from, a.to>> \in link /\ <<a.at, a.who>> \in seat
    /\ \A o \in Receiver, p \in Person : <<o, p>> \in seat =>
          org[o].on /\ (p \notin strayed => home[p] = o)
    /\ \A s \in Sender, o \in Receiver : <<s, o>> \in link => org[o].on

\* One default on a link.
OneFirst(auth, first) ==
    /\ first \subseteq auth
    /\ \A a, c \in first : a.from = c.from /\ a.to = c.to => a = c

\* One correspondent, and a structure that is on has a row.
Organized(org) ==
    /\ \A x, y \in Receiver : org[x].on /\ org[x].corr /\ org[y].on /\ org[y].corr => x = y
    /\ \A o \in Receiver : org[o].on => org[o].row

Coherent(b) ==
    /\ b \in Book
    /\ Hangs(b.sends, b.org, b.home, b.strayed, b.seat, b.link, b.auth)
    /\ OneFirst(b.auth, b.first)
    /\ Organized(b.org)

\* What authorizing more persons leaves.
Grown(b, c) ==
    /\ c.sends = b.sends /\ c.org = b.org /\ c.home = b.home /\ c.living = b.living /\ c.strayed = b.strayed
    /\ c.seat = b.seat /\ b.link \subseteq c.link /\ b.auth \subseteq c.auth
    /\ \A s \in Sender, o \in Receiver :
          OnLink(b.first, s, o) # {} => OnLink(c.first, s, o) # {}
OthersFirst(b, c, s) ==
    \A r \in Sender \ {s}, o \in Receiver : OnLink(c.first, r, o) = OnLink(b.first, r, o)

LEMMA BookMade ==
    ASSUME NEW b, NEW sends \in SUBSET Sender, NEW org \in [Receiver -> Structure],
           NEW home \in [Person -> Receiver \cup {NoHome}], NEW living \in SUBSET Person, NEW strayed \in SUBSET Person,
           NEW seat \in SUBSET (Receiver \X Person), NEW link \in SUBSET (Sender \X Receiver),
           NEW auth \in SUBSET Authorization, NEW first \in SUBSET Authorization,
           b = [sends |-> sends, org |-> org, home |-> home, living |-> living, strayed |-> strayed,
                seat |-> seat, link |-> link, auth |-> auth, first |-> first],
           Hangs(sends, org, home, strayed, seat, link, auth), OneFirst(auth, first), Organized(org)
    PROVE  Coherent(b)
  BY DEF Coherent, Book

LEMMA BookFields ==
    ASSUME NEW b \in Book
    PROVE  /\ b.sends \in SUBSET Sender /\ b.org \in [Receiver -> Structure]
           /\ b.home \in [Person -> Receiver \cup {NoHome}] /\ b.living \in SUBSET Person
           /\ b.strayed \in SUBSET Person
           /\ b.seat \in SUBSET (Receiver \X Person) /\ b.link \in SUBSET (Sender \X Receiver)
           /\ b.auth \in SUBSET Authorization /\ b.first \in SUBSET Authorization
           /\ b = [sends |-> b.sends, org |-> b.org, home |-> b.home, living |-> b.living, strayed |-> b.strayed,
                   seat |-> b.seat, link |-> b.link, auth |-> b.auth, first |-> b.first]
  BY DEF Book

\* A person of the structure is authorized on a link.
LEMMA AuthorizeKeeps ==
    ASSUME NEW b, Coherent(b), NEW s \in b.sends, NEW o \in Receiver, NEW p \in Person,
           <<o, p>> \in b.seat, NEW asDefault \in BOOLEAN, NEW c, c = Authorize(b, s, o, p, asDefault)
    PROVE  Coherent(c) /\ Grown(b, c) /\ OthersFirst(b, c, s)
  <1>1. PICK a : a = [from |-> s, to |-> o, at |-> o, who |-> p]
    OBVIOUS
  <1>2. PICK becomes \in BOOLEAN :
            becomes = (asDefault \/ a \in b.first \/ OnLink(b.first, s, o) = {})
    OBVIOUS
  <1>3. PICK link, auth, first :
           /\ link = b.link \cup {<<s, o>>} /\ auth = b.auth \cup {a}
           /\ first = IF becomes THEN (b.first \ OnLink(b.first, s, o)) \cup {a} ELSE b.first
    OBVIOUS
  <1>4. b \in Book /\ s \in Sender
    BY BookFields DEF Coherent
  <1>5. c = [sends |-> b.sends, org |-> b.org, home |-> b.home, living |-> b.living, strayed |-> b.strayed,
             seat |-> b.seat, link |-> link, auth |-> auth, first |-> first]
    <2>1. c = [b EXCEPT !.link = link, !.auth = auth, !.first = first]
      BY <1>1, <1>2, <1>3 DEF Authorize
    <2>2. PICK sends, org, home, living, strayed, seat, l, t, f :
             b = [sends |-> sends, org |-> org, home |-> home, living |-> living, strayed |-> strayed,
                  seat |-> seat, link |-> l, auth |-> t, first |-> f]
      BY <1>4, BookFields
    <2> QED
      BY <2>1, <2>2
  <1>6. a \in Authorization /\ a.from = s /\ a.to = o /\ a.at = o /\ a.who = p
    BY <1>1, <1>4 DEF Authorization
  <1>7. /\ link \in SUBSET (Sender \X Receiver) /\ auth \in SUBSET Authorization
        /\ first \in SUBSET Authorization
    BY <1>3, <1>4, <1>6, BookFields
  <1>8. Hangs(b.sends, b.org, b.home, b.strayed, b.seat, link, auth)
    BY <1>3, <1>6 DEF Coherent, Hangs
  <1>9. OneFirst(auth, first)
    <2>1. OneFirst(b.auth, b.first)
      BY DEF Coherent
    <2>2. CASE becomes
      BY <1>3, <1>6, <2>1, <2>2 DEF OneFirst, OnLink
    <2>3. CASE ~ becomes
      BY <1>3, <2>1, <2>3 DEF OneFirst
    <2> QED
      BY <2>2, <2>3
  <1>10. Coherent(c)
    BY <1>4, <1>5, <1>7, <1>8, <1>9, BookFields, BookMade DEF Coherent
  <1>11. \A r \in Sender, x \in Receiver :
            /\ OnLink(b.first, r, x) # {} => OnLink(first, r, x) # {}
            /\ r # s => OnLink(first, r, x) = OnLink(b.first, r, x)
    <2>1. CASE becomes
      <3>1. first = (b.first \ OnLink(b.first, s, o)) \cup {a}
        BY <1>3, <2>1
      <3>2. \A r, x : ~ (r = s /\ x = o) => OnLink(first, r, x) = OnLink(b.first, r, x)
        BY <1>6, <3>1 DEF OnLink
      <3>3. a \in OnLink(first, s, o)
        BY <1>6, <3>1 DEF OnLink
      <3> QED
        BY <3>2, <3>3
    <2>2. CASE ~ becomes
      BY <1>3, <2>2
    <2> QED
      BY <2>1, <2>2
  <1>12. Grown(b, c) /\ OthersFirst(b, c, s)
    <2>1. /\ c.sends = b.sends /\ c.org = b.org /\ c.home = b.home /\ c.living = b.living /\ c.strayed = b.strayed
          /\ c.seat = b.seat /\ c.link = link /\ c.auth = auth /\ c.first = first
      BY <1>5
    <2>2. b.link \subseteq link /\ b.auth \subseteq auth
      BY <1>3
    <2> QED
      BY <1>11, <2>1, <2>2 DEF Grown, OthersFirst
  <1> QED
    BY <1>10, <1>12

LEMMA GrownTwice ==
    ASSUME NEW b, NEW c, NEW d, Grown(b, c), Grown(c, d), NEW s, OthersFirst(b, c, s), OthersFirst(c, d, s)
    PROVE  Grown(b, d) /\ OthersFirst(b, d, s)
  BY DEF Grown, OthersFirst

LEMMA GrownNone ==
    ASSUME NEW b, NEW s
    PROVE  Grown(b, b) /\ OthersFirst(b, b, s)
  BY DEF Grown, OthersFirst

\* The default shipper's link.
LEMMA BindKeeps ==
    ASSUME NEW b, Coherent(b), DefaultSender \in b.sends, NEW o \in Receiver, b.org[o].on, NEW p,
           Answering(b, o) # {} => p \in Answering(b, o), NEW d, d = BindDefaultSender(b, o, p)
    PROVE  Coherent(d) /\ Grown(b, d) /\ OthersFirst(b, d, DefaultSender)
  <1>1. PICK link, c : link = b.link \cup {<<DefaultSender, o>>} /\ c = [b EXCEPT !.link = link]
    OBVIOUS
  <1>2. b \in Book
    BY DEF Coherent
  <1>3. c = [sends |-> b.sends, org |-> b.org, home |-> b.home, living |-> b.living, strayed |-> b.strayed,
             seat |-> b.seat, link |-> link, auth |-> b.auth, first |-> b.first]
    <2>1. PICK sends, org, home, living, strayed, seat, l, t, f :
             b = [sends |-> sends, org |-> org, home |-> home, living |-> living, strayed |-> strayed,
                  seat |-> seat, link |-> l, auth |-> t, first |-> f]
      BY <1>2, BookFields
    <2> QED
      BY <1>1, <2>1
  <1>4. /\ c.sends = b.sends /\ c.org = b.org /\ c.home = b.home /\ c.living = b.living /\ c.strayed = b.strayed
        /\ c.seat = b.seat /\ c.link = link /\ c.auth = b.auth /\ c.first = b.first
    BY <1>3
  <1>5. link \in SUBSET (Sender \X Receiver)
    BY <1>1, <1>2, BookFields
  <1>6. Hangs(b.sends, b.org, b.home, b.strayed, b.seat, link, b.auth)
    BY <1>1 DEF Coherent, Hangs
  <1>7. Coherent(c)
    BY <1>2, <1>3, <1>5, <1>6, BookFields, BookMade DEF Coherent
  <1>8. Grown(b, c) /\ OthersFirst(b, c, DefaultSender)
    BY <1>1, <1>4 DEF Grown, OthersFirst
  <1>9. CASE Answering(b, o) = {}
    <2>1. d = c
      BY <1>1, <1>9 DEF BindDefaultSender
    <2> QED
      BY <1>7, <1>8, <2>1
  <1>10. CASE Answering(b, o) # {}
    <2>1. p \in Person /\ <<o, p>> \in c.seat
      BY <1>4, <1>10 DEF Answering
    <2>2. PICK asDefault \in BOOLEAN : asDefault = (OnLink(b.first, DefaultSender, o) = {})
      OBVIOUS
    <2>3. d = Authorize(c, DefaultSender, o, p, asDefault)
      BY <1>1, <1>10, <2>2 DEF BindDefaultSender
    <2>4. Coherent(d) /\ Grown(c, d) /\ OthersFirst(c, d, DefaultSender)
      BY <1>4, <1>7, <2>1, <2>3, AuthorizeKeeps
    <2> QED
      BY <1>8, <2>4, GrownTwice
  <1> QED
    BY <1>9, <1>10

\* What the hooks may make of a registry.
After(b, s) == {c \in Book : Coherent(c) /\ Grown(b, c) /\ OthersFirst(b, c, s)}

LEMMA HooksKeep ==
    ASSUME NEW b, Coherent(b), NEW bound \in SUBSET Receiver, NEW pick,
           \A o \in bound : Bound(b, o) /\ DefaultSender \in b.sends,
           \A o \in bound : Answering(b, o) # {} => pick[o] \in Answering(b, o)
    PROVE  Hooks(b, bound, pick) \in After(b, DefaultSender)
  <1> DEFINE Good == After(b, DefaultSender)
             next == [s \in SUBSET bound |-> CHOOSE x \in s : TRUE]
             step == [z \in bound \X Good |-> BindDefaultSender(z[2], z[1], pick[z[1]])]
             body(g) == [s \in SUBSET bound |-> IF s = {} THEN b
                         ELSE BindDefaultSender(g[s \ {CHOOSE x \in s : TRUE}], CHOOSE x \in s : TRUE,
                                                pick[CHOOSE x \in s : TRUE])]
             iter == CHOOSE g : g = body(g)
  <1>1. Hooks(b, bound, pick) = iter[bound]
    BY DEF Hooks, FoldSet, MapThenFoldSet
  <1>2. IsFiniteSet(bound)
    BY PartiesAssumption, FS_Subset
  <1>3. Picks(next, bound)
    BY DEF Picks
  <1>4. b \in Good
    BY GrownNone DEF After, Coherent
  <1>5. ASSUME NEW o \in bound, NEW c \in Good
        PROVE  BindDefaultSender(c, o, pick[o]) \in Good
    <2>1. Coherent(c) /\ Grown(b, c) /\ OthersFirst(b, c, DefaultSender)
      BY DEF After
    <2>2. /\ DefaultSender \in c.sends /\ o \in Receiver /\ c.org[o].on
          /\ Answering(c, o) = Answering(b, o)
      BY <2>1 DEF Grown, Bound, Answering
    <2>3. PICK d : d = BindDefaultSender(c, o, pick[o])
      OBVIOUS
    <2>4. Coherent(d) /\ Grown(c, d) /\ OthersFirst(c, d, DefaultSender)
      <3>1. Answering(c, o) # {} => pick[o] \in Answering(c, o)
        BY <2>2
      <3> QED
        BY <2>1, <2>2, <2>3, <3>1, BindKeeps
    <2>5. d \in Book
      BY <2>4 DEF Coherent
    <2> QED
      BY <2>1, <2>3, <2>4, <2>5, GrownTwice DEF After
  <1>6. step \in [bound \X Good -> Good]
    <2> HIDE DEF Good
    <2> QED
      BY <1>5
  <1>7. PICK h \in [SUBSET bound -> Good] : Folds(h, SUBSET bound, b, step, next)
    <2> HIDE DEF step, Good, next
    <2> QED
      BY <1>2, <1>3, <1>4, <1>6, FoldExists
  <1>8. ASSUME NEW s \in SUBSET bound, s # {}
        PROVE  next[s] = (CHOOSE x \in s : TRUE) /\ next[s] \in bound /\ s \ {next[s]} \in SUBSET bound
    <2>1. next[s] = (CHOOSE x \in s : TRUE)
      <3> QED
        OBVIOUS
    <2> HIDE DEF next
    <2> QED
      BY <1>3, <1>8, <2>1 DEF Picks
  <1>9. h = body(h)
    <2>1. ASSUME NEW s \in SUBSET bound
          PROVE  h[s] = IF s = {} THEN b
                        ELSE BindDefaultSender(h[s \ {CHOOSE x \in s : TRUE}], CHOOSE x \in s : TRUE,
                                               pick[CHOOSE x \in s : TRUE])
      <3>1. CASE s = {}
        BY <1>7, <3>1 DEF Folds
      <3>2. CASE s # {}
        <4>1. PICK o : o = next[s]
          OBVIOUS
        <4>2. o = (CHOOSE x \in s : TRUE) /\ o \in bound /\ h[s \ {o}] \in Good
          <5> HIDE DEF next, Good
          <5> QED
            BY <1>7, <1>8, <3>2, <4>1
        <4>3. h[s] = step[<<o, h[s \ {o}]>>]
          <5> HIDE DEF next, step
          <5> QED
            BY <1>7, <3>2, <4>1 DEF Folds
        <4>4. h[s] = BindDefaultSender(h[s \ {o}], o, pick[o])
          <5>1. PICK c \in Good : c = h[s \ {o}]
            BY <4>2
          <5>2. <<o, c>> \in bound \X Good
            <6> HIDE DEF Good, step, next, body, iter
            <6>1. o \in bound
              BY <4>2
            <6> QED
              BY <6>1
          <5>3. step[<<o, c>>] = BindDefaultSender(c, o, pick[o])
            <6> HIDE DEF Good
            <6> QED
              BY <5>2
          <5> HIDE DEF Good, step
          <5> QED
            BY <4>3, <5>1, <5>3
        <4> QED
          BY <3>2, <4>2, <4>4
      <3> QED
        BY <3>1, <3>2
    <2> QED
      BY <1>7, <2>1
  <1>10. iter = body(iter)
    <2> HIDE DEF body
    <2> QED
      BY <1>9
  <1>11. iter[{}] \in Good
    <2> HIDE DEF iter, Good
    <2> QED
      BY <1>4, <1>10
  <1>12. ASSUME NEW s \in SUBSET bound, s # {}, iter[s \ {next[s]}] \in Good
         PROVE  iter[s] \in Good
    <2>1. PICK o : o = next[s]
      OBVIOUS
    <2>2. o = (CHOOSE x \in s : TRUE) /\ o \in bound
      <3> HIDE DEF next
      <3> QED
        BY <1>8, <1>12, <2>1
    <2>3. iter[s] = BindDefaultSender(iter[s \ {o}], o, pick[o])
      <3> HIDE DEF iter, next
      <3> QED
        BY <1>10, <1>12, <2>2
    <2> HIDE DEF iter, Good
    <2> QED
      BY <1>5, <1>12, <2>1, <2>2, <2>3
  <1>13. iter[bound] \in Good
    <2> HIDE DEF iter, Good, next
    <2> QED
      BY <1>2, <1>3, <1>11, <1>12, FoldLands
  <1> QED
    BY <1>1, <1>13

LEMMA CommitKeeps ==
    ASSUME NEW b, Coherent(b), NEW saved \in SUBSET Receiver, Commit(b, saved)
    PROVE  Coherent(book') /\ Grown(b, book') /\ OthersFirst(b, book', DefaultSender)
  <1>1. PICK bound \in {Hooked(b, saved), {}} :
           \E pick \in [{o \in bound : Answering(b, o) # {}} -> Person] :
              /\ \A o \in DOMAIN pick : pick[o] \in Answering(b, o)
              /\ book' = Hooks(b, bound, pick)
    BY DEF Commit
  <1>2. PICK pick \in [{o \in bound : Answering(b, o) # {}} -> Person] :
           /\ \A o \in DOMAIN pick : pick[o] \in Answering(b, o)
           /\ book' = Hooks(b, bound, pick)
    BY <1>1
  <1>3. bound \in SUBSET Receiver /\ \A o \in bound : Bound(b, o) /\ DefaultSender \in b.sends
    BY <1>1 DEF Hooked
  <1>4. \A o \in bound : Answering(b, o) # {} => pick[o] \in Answering(b, o)
    BY <1>2
  <1>5. Hooks(b, bound, pick) \in After(b, DefaultSender)
    BY <1>3, <1>4, HooksKeep
  <1> QED
    BY <1>2, <1>5 DEF After

\* Several links of one structure.
LEMMA GrantsKeep ==
    ASSUME NEW b, Coherent(b), NEW bound \in SUBSET b.sends, NEW o \in Receiver, NEW p \in Person,
           <<o, p>> \in b.seat
    PROVE  Coherent(Granted(b, o, p, bound))
  <1> DEFINE Good == {c \in Book : Coherent(c) /\ Grown(b, c)}
             next == [s \in SUBSET bound |-> CHOOSE x \in s : TRUE]
             step == [z \in bound \X Good |-> Authorize(z[2], z[1], o, p, TRUE)]
             body(g) == [r \in SUBSET bound |-> IF r = {} THEN b
                         ELSE Authorize(g[r \ {CHOOSE x \in r : TRUE}], CHOOSE x \in r : TRUE, o, p, TRUE)]
             iter == CHOOSE g : g = body(g)
  <1>1. Granted(b, o, p, bound) = iter[bound]
    BY DEF Granted, FoldSet, MapThenFoldSet
  <1>2. IsFiniteSet(bound)
    <2>1. bound \in SUBSET Sender
      BY BookFields DEF Coherent
    <2> QED
      BY <2>1, PartiesAssumption, FS_Subset
  <1>3. Picks(next, bound)
    BY DEF Picks
  <1>4. b \in Good
    BY GrownNone DEF Coherent
  <1>5. ASSUME NEW s \in bound, NEW c \in Good
        PROVE  Authorize(c, s, o, p, TRUE) \in Good
    <2>1. s \in c.sends /\ <<o, p>> \in c.seat
      BY DEF Grown
    <2>2. PICK d : d = Authorize(c, s, o, p, TRUE)
      OBVIOUS
    <2>3. Coherent(d) /\ Grown(c, d) /\ OthersFirst(c, d, s)
      BY <2>1, <2>2, AuthorizeKeeps
    <2>4. Grown(b, d) /\ d \in Book
      BY <2>3 DEF Grown, Coherent
    <2> QED
      BY <2>2, <2>3, <2>4
  <1>6. step \in [bound \X Good -> Good]
    <2> HIDE DEF Good
    <2> QED
      BY <1>5
  <1>7. PICK h \in [SUBSET bound -> Good] : Folds(h, SUBSET bound, b, step, next)
    <2> HIDE DEF step, Good, next
    <2> QED
      BY <1>2, <1>3, <1>4, <1>6, FoldExists
  <1>8. ASSUME NEW r \in SUBSET bound, r # {}
        PROVE  next[r] = (CHOOSE x \in r : TRUE) /\ next[r] \in bound /\ r \ {next[r]} \in SUBSET bound
    <2>1. next[r] = (CHOOSE x \in r : TRUE)
      <3> QED
        OBVIOUS
    <2> HIDE DEF next
    <2> QED
      BY <1>3, <1>8, <2>1 DEF Picks
  <1>9. h = body(h)
    <2>1. ASSUME NEW r \in SUBSET bound
          PROVE  h[r] = IF r = {} THEN b
                        ELSE Authorize(h[r \ {CHOOSE x \in r : TRUE}], CHOOSE x \in r : TRUE, o, p, TRUE)
      <3>1. CASE r = {}
        BY <1>7, <3>1 DEF Folds
      <3>2. CASE r # {}
        <4>1. PICK s : s = next[r]
          OBVIOUS
        <4>2. s = (CHOOSE x \in r : TRUE) /\ s \in bound /\ h[r \ {s}] \in Good
          <5> HIDE DEF next, Good
          <5> QED
            BY <1>7, <1>8, <3>2, <4>1
        <4>3. h[r] = step[<<s, h[r \ {s}]>>]
          <5> HIDE DEF next, step
          <5> QED
            BY <1>7, <3>2, <4>1 DEF Folds
        <4>4. h[r] = Authorize(h[r \ {s}], s, o, p, TRUE)
          <5>1. PICK c \in Good : c = h[r \ {s}]
            BY <4>2
          <5>2. <<s, c>> \in bound \X Good
            <6> HIDE DEF Good, step, next, body, iter
            <6>1. s \in bound
              BY <4>2
            <6> QED
              BY <6>1
          <5>3. step[<<s, c>>] = Authorize(c, s, o, p, TRUE)
            <6> HIDE DEF Good
            <6> QED
              BY <5>2
          <5> HIDE DEF Good, step
          <5> QED
            BY <4>3, <5>1, <5>3
        <4> QED
          BY <3>2, <4>2, <4>4
      <3> QED
        BY <3>1, <3>2
    <2> QED
      BY <1>7, <2>1
  <1>10. iter = body(iter)
    <2> HIDE DEF body
    <2> QED
      BY <1>9
  <1>11. iter[{}] \in Good
    <2> HIDE DEF iter, Good
    <2> QED
      BY <1>4, <1>10
  <1>12. ASSUME NEW r \in SUBSET bound, r # {}, iter[r \ {next[r]}] \in Good
         PROVE  iter[r] \in Good
    <2>1. PICK s : s = next[r]
      OBVIOUS
    <2>2. s = (CHOOSE x \in r : TRUE) /\ s \in bound
      <3> HIDE DEF next
      <3> QED
        BY <1>8, <1>12, <2>1
    <2>3. iter[r] = Authorize(iter[r \ {s}], s, o, p, TRUE)
      <3> HIDE DEF iter, next
      <3> QED
        BY <1>10, <1>12, <2>2
    <2> HIDE DEF iter, Good
    <2> QED
      BY ZenonT(30), <1>5, <1>12, <2>1, <2>2, <2>3
  <1>13. iter[bound] \in Good
    <2> HIDE DEF iter, Good, next
    <2> QED
      BY <1>2, <1>3, <1>11, <1>12, FoldLands
  <1> HIDE DEF iter
  <1> QED
    BY <1>1, <1>13

(* The operations of the portal, the contact form and the cockpit.           *)

\* A person takes a seat at a structure that is on.
LEMMA SeatKeeps ==
    ASSUME NEW now, Coherent(now), NEW o \in Receiver, NEW p \in Person, now.home[p] \in {NoHome, o},
           NEW org \in [Receiver -> Structure], Organized(org), org[o].on,
           \A x \in Receiver : now.org[x].on => org[x].on,
           NEW b, b = Seat([now EXCEPT !.org = org], o, p)
    PROVE  Coherent(b) /\ b.sends = now.sends /\ b.org = org /\ <<o, p>> \in b.seat
  <1>1. now \in Book /\ OneFirst(now.auth, now.first)
        /\ Hangs(now.sends, now.org, now.home, now.strayed, now.seat, now.link, now.auth)
    BY DEF Coherent
  <1>2. PICK home, living, seat :
           /\ home = [now.home EXCEPT ![p] = o] /\ living = now.living \cup {p}
           /\ seat = now.seat \cup {<<o, p>>}
    OBVIOUS
  <1>3. b = [sends |-> now.sends, org |-> org, home |-> home, living |-> living, strayed |-> now.strayed,
             seat |-> seat, link |-> now.link, auth |-> now.auth, first |-> now.first]
    <2>1. PICK sends, g, h, l, w, e, k, t, f :
             now = [sends |-> sends, org |-> g, home |-> h, living |-> l, strayed |-> w,
                     seat |-> e, link |-> k, auth |-> t, first |-> f]
      BY <1>1, BookFields
    <2>2. PICK c : c = [now EXCEPT !.org = org]
      OBVIOUS
    <2>3. c = [sends |-> sends, org |-> org, home |-> h, living |-> l, strayed |-> w,
               seat |-> e, link |-> k, auth |-> t, first |-> f]
      BY <2>1, <2>2
    <2>4. b = Seat(c, o, p)
      BY <2>2
    <2>5. b = [c EXCEPT !.home = [c.home EXCEPT ![p] = o], !.living = c.living \cup {p},
                        !.seat = c.seat \cup {<<o, p>>}]
      BY <2>3, <2>4 DEF Seat
    <2>6. c.home = h /\ c.living = l /\ c.seat = e
      BY <2>3
    <2>7. b = [c EXCEPT !.home = home, !.living = living, !.seat = seat]
      BY <1>2, <2>1, <2>5, <2>6
    <2> QED
      BY <2>1, <2>3, <2>7
  <1>4. /\ home \in [Person -> Receiver \cup {NoHome}] /\ living \in SUBSET Person
        /\ seat \in SUBSET (Receiver \X Person)
    BY <1>1, <1>2, BookFields
  <1>5. Hangs(now.sends, org, home, now.strayed, seat, now.link, now.auth)
    <2>1. ASSUME NEW x \in Receiver, NEW q \in Person, <<x, q>> \in seat PROVE org[x].on /\ (q \notin now.strayed => home[q] = x)
      <3>1. home[q] = IF q = p THEN o ELSE now.home[q]
        BY <1>1, <1>2, BookFields
      <3>2. CASE x = o /\ q = p
        BY <3>1, <3>2
      <3>3. CASE ~ (x = o /\ q = p)
        <4>1. <<x, q>> \in now.seat
          BY <1>2, <2>1, <3>3
        <4>2. now.org[x].on /\ (q \notin now.strayed => now.home[q] = x)
          BY <1>1, <4>1 DEF Hangs
        <4>3. q = p /\ q \notin now.strayed => x = o
          BY <4>2, PartiesAssumption
        <4> QED
          BY <3>1, <4>2, <4>3
      <3> QED
        BY <3>2, <3>3
    <2> QED
      BY <1>1, <1>2, <2>1 DEF Hangs
  <1>6. Coherent(b)
    BY <1>1, <1>3, <1>4, <1>5, BookFields, BookMade
  <1>7. b.sends = now.sends /\ b.org = org /\ b.seat = seat
    BY <1>3
  <1> QED
    BY <1>2, <1>6, <1>7

\* A person's contact is given another structure.
LEMMA RehomedKeeps ==
    ASSUME Coherent(book), NEW p \in Person, NEW o \in Receiver, NEW b, b = Rehomed(book, p, o)
    PROVE  Coherent(b) /\ b.sends = book.sends /\ b.org = book.org /\ b.home[p] = o
           /\ b.living = book.living
  <1>1. book \in Book /\ OneFirst(book.auth, book.first) /\ Organized(book.org)
        /\ Hangs(book.sends, book.org, book.home, book.strayed, book.seat, book.link, book.auth)
    BY DEF Coherent
  <1>2. PICK left, home, strayed :
           /\ left = {x \in book.seat : x[2] = p /\ x[1] # o}
           /\ home = [book.home EXCEPT ![p] = o]
           /\ strayed = IF left = {} THEN book.strayed ELSE book.strayed \cup {p}
    OBVIOUS
  <1>3. b = [sends |-> book.sends, org |-> book.org, home |-> home, living |-> book.living,
             strayed |-> strayed, seat |-> book.seat, link |-> book.link, auth |-> book.auth,
             first |-> book.first]
    <2>1. PICK sends, g, h, l, w, e, k, t, f :
             book = [sends |-> sends, org |-> g, home |-> h, living |-> l, strayed |-> w,
                     seat |-> e, link |-> k, auth |-> t, first |-> f]
      BY <1>1, BookFields
    <2>2. b = [book EXCEPT !.home = home, !.strayed = strayed]
      BY <1>2, <2>1 DEF Rehomed
    <2> QED
      BY <2>1, <2>2
  <1>4. /\ home \in [Person -> Receiver \cup {NoHome}] /\ strayed \in SUBSET Person
        /\ \A q \in Person : home[q] = IF q = p THEN o ELSE book.home[q]
    BY <1>1, <1>2, BookFields
  <1>5. Hangs(book.sends, book.org, home, strayed, book.seat, book.link, book.auth)
    <2>1. ASSUME NEW x \in Receiver, NEW q \in Person, <<x, q>> \in book.seat, q \notin strayed
          PROVE  home[q] = x
      <3>1. CASE q = p
        <4>1. left = {}
          BY <1>2, <2>1, <3>1
        <4>2. PICK z \in book.seat : z = <<x, q>>
          BY <2>1
        <4>3. z[2] = q /\ z[1] = x
          BY <4>2
        <4> QED
          BY <1>2, <1>4, <3>1, <4>1, <4>3
      <3>2. CASE q # p
        <4>1. q \notin book.strayed
          BY <1>2, <2>1
        <4> QED
          BY <1>1, <1>4, <2>1, <3>2, <4>1 DEF Hangs
      <3> QED
        BY <3>1, <3>2
    <2> QED
      BY <1>1, <2>1 DEF Hangs
  <1>6. Coherent(b)
    BY <1>1, <1>3, <1>4, <1>5, BookFields, BookMade
  <1> QED
    BY <1>3, <1>4, <1>6

\* Only who is active changes.
LEMMA LivingChanges ==
    ASSUME NEW now, Coherent(now), NEW living \in SUBSET Person,
           NEW b, b = [now EXCEPT !.living = living]
    PROVE  Coherent(b)
  <1>1. now \in Book
    BY DEF Coherent
  <1>2. b = [sends |-> now.sends, org |-> now.org, home |-> now.home, living |-> living,
             strayed |-> now.strayed, seat |-> now.seat, link |-> now.link, auth |-> now.auth,
             first |-> now.first]
    <2>1. PICK sends, g, h, l, w, e, k, t, f :
             now = [sends |-> sends, org |-> g, home |-> h, living |-> l, strayed |-> w,
                    seat |-> e, link |-> k, auth |-> t, first |-> f]
      BY <1>1, BookFields
    <2> QED
      BY <2>1
  <1> QED
    BY <1>1, <1>2, BookFields, BookMade DEF Coherent

LEMMA PortalSyncKeeps ==
    ASSUME Coherent(book), NEW s \in Sender, NEW o \in Receiver, NEW p \in Person,
           NEW asDefault \in BOOLEAN, PortalSync(s, o, p, asDefault)
    PROVE  Coherent(book')
  <1>1. PICK known, org, b :
           /\ known = (book.org[o].row /\ book.org[o].on) /\ org = Entered(book.org, o)
           /\ b = Seat([book EXCEPT !.org = org], o, p)
    OBVIOUS
  <1>2. /\ s \in book.sends /\ book.home[p] \in {NoHome, o} /\ (known \/ RowSaves(org, o))
        /\ Commit(Authorize(b, s, o, p, asDefault), IF known THEN {} ELSE {o})
    BY <1>1 DEF PortalSync
  <1>3. book \in Book /\ Organized(book.org) /\ book.org \in [Receiver -> Structure]
    BY BookFields DEF Coherent
  <1>4. /\ org \in [Receiver -> Structure] /\ org[o].row /\ org[o].on /\ org[o].corr = book.org[o].corr
        /\ \A x \in Receiver \ {o} : org[x] = book.org[x]
    BY <1>1, <1>3 DEF Entered, Structure
  <1>5. Organized(org)
    <2>1. CASE known
      BY <1>1, <1>3, <1>4, <2>1 DEF Organized
    <2>2. CASE RowSaves(org, o)
      BY <1>3, <1>4, <2>2 DEF Organized, RowSaves, OtherCorrespondent
    <2> QED
      BY <1>2, <2>1, <2>2
  <1>6. Coherent(b) /\ b.sends = book.sends /\ <<o, p>> \in b.seat
    BY <1>1, <1>2, <1>4, <1>5, SeatKeeps
  <1>7. PICK c : c = Authorize(b, s, o, p, asDefault)
    OBVIOUS
  <1>8. Coherent(c)
    BY <1>2, <1>6, <1>7, AuthorizeKeeps
  <1> QED
    BY <1>2, <1>7, <1>8, CommitKeeps

LEMMA FormRecipientKeeps ==
    ASSUME Coherent(book), NEW o \in Receiver, NEW p \in Person, NEW corr \in BOOLEAN,
           NEW allowed \in SUBSET Sender, FormRecipient(o, p, corr, allowed)
    PROVE  Coherent(book')
  <1>1. PICK org, demoted :
           /\ org = [book.org EXCEPT ![o] = [alive |-> TRUE, row |-> TRUE, on |-> TRUE,
                                             valid |-> TRUE, corr |-> corr]]
           /\ demoted = [x \in Receiver |-> [org[x] EXCEPT !.corr = @ /\ (x = o \/ ~corr)]]
    OBVIOUS
  <1>2. PICK m, b : m = Rehomed(book, p, o) /\ b = Seat([m EXCEPT !.org = demoted], o, p)
    OBVIOUS
  <1>3. /\ allowed \subseteq book.sends /\ RowSaves(org, o)
        /\ Commit(Granted(b, o, p, allowed), IF corr THEN Receiver ELSE {o})
    BY <1>1, <1>2 DEF FormRecipient
  <1>4. book \in Book /\ Organized(book.org) /\ book.org \in [Receiver -> Structure]
    BY BookFields DEF Coherent
  <1>5. /\ org \in [Receiver -> Structure]
        /\ org[o] = [alive |-> TRUE, row |-> TRUE, on |-> TRUE, valid |-> TRUE, corr |-> corr]
        /\ \A x \in Receiver \ {o} : org[x] = book.org[x]
    BY <1>1, <1>4 DEF Structure
  <1>6. \A x \in Receiver : demoted[x] \in Structure /\ demoted[x].on = org[x].on
                            /\ demoted[x].row = org[x].row
                            /\ demoted[x].corr = (org[x].corr /\ (x = o \/ ~corr))
    <2> TAKE x \in Receiver
    <2>1. org[x] \in Structure
      BY <1>5
    <2>2. PICK alive, row, on, valid, c :
             /\ alive \in BOOLEAN /\ row \in BOOLEAN /\ on \in BOOLEAN /\ valid \in BOOLEAN
             /\ c \in BOOLEAN
             /\ org[x] = [alive |-> alive, row |-> row, on |-> on, valid |-> valid, corr |-> c]
      BY <2>1 DEF Structure
    <2>3. PICK d \in BOOLEAN : d = (c /\ (x = o \/ ~corr))
      OBVIOUS
    <2>4. demoted[x] = [alive |-> alive, row |-> row, on |-> on, valid |-> valid, corr |-> d]
      <3>1. demoted[x] = [org[x] EXCEPT !.corr = (org[x].corr /\ (x = o \/ ~corr))]
        BY <1>1
      <3> QED
        BY <2>2, <2>3, <3>1
    <2> QED
      BY <2>2, <2>3, <2>4 DEF Structure
  <1>7. demoted \in [Receiver -> Structure]
    BY <1>1, <1>6
  <1>8. Organized(demoted) /\ demoted[o].on /\ \A x \in Receiver : book.org[x].on => demoted[x].on
    <2>1. demoted[o].on /\ \A x \in Receiver : book.org[x].on => demoted[x].on
      BY <1>5, <1>6
    <2>2. \A x \in Receiver : demoted[x].on => demoted[x].row
      BY <1>4, <1>5, <1>6 DEF Organized
    <2>3. CASE corr
      BY <1>6, <2>1, <2>2, <2>3 DEF Organized
    <2>4. CASE ~ corr
      BY <1>4, <1>5, <1>6, <2>1, <2>2, <2>4 DEF Organized
    <2> QED
      BY <2>3, <2>4
  <1>9. Coherent(b) /\ b.sends = book.sends /\ <<o, p>> \in b.seat
    <2>1. Coherent(m) /\ m.sends = book.sends /\ m.org = book.org /\ m.home[p] = o
      BY <1>2, RehomedKeeps
    <2>2. m.home[p] \in {NoHome, o} /\ \A x \in Receiver : m.org[x].on => demoted[x].on
      BY <1>8, <2>1
    <2>3. Coherent(b) /\ b.sends = m.sends /\ <<o, p>> \in b.seat
      BY <1>2, <1>7, <1>8, <2>1, <2>2, SeatKeeps
    <2> QED
      BY <2>1, <2>3
  <1>10. Coherent(Granted(b, o, p, allowed))
    <2>1. allowed \in SUBSET b.sends
      BY <1>3, <1>9
    <2> QED
      BY <1>9, <2>1, GrantsKeep
  <1>11. PICK saved \in SUBSET Receiver : saved = IF corr THEN Receiver ELSE {o}
    OBVIOUS
  <1> QED
    BY <1>3, <1>10, <1>11, CommitKeeps

\* Only what structures are changes.
LEMMA OrgChanges ==
    ASSUME Coherent(book), NEW org \in [Receiver -> Structure], Organized(org),
           \A x \in Receiver : book.org[x].on => org[x].on,
           NEW b, b = [book EXCEPT !.org = org]
    PROVE  Coherent(b)
  <1>1. book \in Book /\ OneFirst(book.auth, book.first)
        /\ Hangs(book.sends, book.org, book.home, book.strayed, book.seat, book.link, book.auth)
    BY DEF Coherent
  <1>2. b = [sends |-> book.sends, org |-> org, home |-> book.home, living |-> book.living, strayed |-> book.strayed,
             seat |-> book.seat, link |-> book.link, auth |-> book.auth, first |-> book.first]
    <2>1. PICK sends, g, h, l, w, e, k, t, f :
             book = [sends |-> sends, org |-> g, home |-> h, living |-> l, strayed |-> w,
                     seat |-> e, link |-> k, auth |-> t, first |-> f]
      BY <1>1, BookFields
    <2> QED
      BY <2>1
  <1>3. Hangs(book.sends, org, book.home, book.strayed, book.seat, book.link, book.auth)
    BY <1>1 DEF Hangs
  <1> QED
    BY <1>1, <1>2, <1>3, BookFields, BookMade

LEMMA DeactivateStructureKeeps ==
    ASSUME Coherent(book), NEW o \in Receiver, DeactivateStructure(o)
    PROVE  Coherent(book')
  <1>1. book \in Book /\ Organized(book.org) /\ book.org \in [Receiver -> Structure]
    BY BookFields DEF Coherent
  <1>2. PICK org : org = [book.org EXCEPT ![o].alive = FALSE]
    OBVIOUS
  <1>3. book' = [book EXCEPT !.org = org]
    BY <1>1, <1>2 DEF DeactivateStructure
  <1>4. \A x \in Receiver : /\ org[x] \in Structure /\ org[x].on = book.org[x].on
                            /\ org[x].corr = book.org[x].corr /\ org[x].row = book.org[x].row
    BY <1>1, <1>2 DEF Structure
  <1>5. org \in [Receiver -> Structure]
    BY <1>1, <1>2, <1>4
  <1>6. Organized(org)
    BY <1>1, <1>4 DEF Organized
  <1> QED
    BY <1>3, <1>4, <1>5, <1>6, OrgChanges

LEMMA DeactivatePersonKeeps ==
    ASSUME Coherent(book), NEW p \in Person, DeactivatePerson(p)
    PROVE  Coherent(book')
  <1>1. PICK living : living = book.living \ {p} /\ book' = [book EXCEPT !.living = living]
    BY DEF DeactivatePerson
  <1>2. living \in SUBSET Person
    BY <1>1, BookFields DEF Coherent
  <1> QED
    BY <1>1, <1>2, LivingChanges

LEMMA FormPersonKeeps ==
    ASSUME Coherent(book), NEW p \in Person, NEW o \in Receiver, NEW active \in BOOLEAN,
           FormPerson(p, o, active)
    PROVE  Coherent(book')
  <1>1. PICK b : b = Rehomed(book, p, o)
    OBVIOUS
  <1>2. Coherent(b)
    BY <1>1, RehomedKeeps
  <1>3. PICK living : living = IF active THEN b.living \cup {p} ELSE b.living \ {p}
    OBVIOUS
  <1>4. book' = [b EXCEPT !.living = living]
    BY <1>1, <1>3 DEF FormPerson
  <1>5. living \in SUBSET Person
    BY <1>2, <1>3, BookFields DEF Coherent
  <1> QED
    BY <1>2, <1>4, <1>5, LivingChanges

LEMMA SetDefaultKeeps ==
    ASSUME Coherent(book), NEW a \in book.auth, SetDefault(a)
    PROVE  Coherent(book')
  <1>1. book \in Book /\ OneFirst(book.auth, book.first)
    BY DEF Coherent
  <1>2. PICK first : /\ first = (book.first \ OnLink(book.first, a.from, a.to)) \cup {a}
                     /\ book' = [book EXCEPT !.first = first]
    BY DEF SetDefault
  <1>3. book' = [sends |-> book.sends, org |-> book.org, home |-> book.home, living |-> book.living, strayed |-> book.strayed,
                 seat |-> book.seat, link |-> book.link, auth |-> book.auth, first |-> first]
    <2>1. PICK sends, g, h, l, w, e, k, t, f :
             book = [sends |-> sends, org |-> g, home |-> h, living |-> l, strayed |-> w,
                     seat |-> e, link |-> k, auth |-> t, first |-> f]
      BY <1>1, BookFields
    <2> QED
      BY <1>2, <2>1
  <1>4. OneFirst(book.auth, first)
    BY <1>1, <1>2 DEF OneFirst, OnLink
  <1>5. first \in SUBSET Authorization
    BY <1>1, <1>2, BookFields
  <1> QED
    BY <1>1, <1>3, <1>4, <1>5, BookFields, BookMade DEF Coherent

LEMMA SetCorrespondentKeeps ==
    ASSUME Coherent(book), NEW o \in Receiver, SetCorrespondent(o)
    PROVE  Coherent(book')
  <1>1. book \in Book /\ Organized(book.org) /\ book.org \in [Receiver -> Structure]
    BY BookFields DEF Coherent
  <1>2. PICK org : org = [x \in Receiver |-> [book.org[x] EXCEPT !.corr = x = o]]
    OBVIOUS
  <1>3. PICK b : b = [book EXCEPT !.org = org]
    OBVIOUS
  <1>4. Commit(b, Receiver)
    BY <1>2, <1>3 DEF SetCorrespondent
  <1>5. \A x \in Receiver : /\ org[x] \in Structure /\ org[x].on = book.org[x].on
                            /\ org[x].corr = (x = o) /\ org[x].row = book.org[x].row
    BY <1>1, <1>2 DEF Structure
  <1>6. org \in [Receiver -> Structure]
    BY <1>2, <1>5
  <1>7. Organized(org)
    BY <1>1, <1>5 DEF Organized
  <1>8. Coherent(b)
    BY <1>3, <1>5, <1>6, <1>7, OrgChanges
  <1> QED
    BY <1>4, <1>8, CommitKeeps

LEMMA NameCorrespondentKeeps ==
    ASSUME Coherent(book), NEW x \in Receiver \cup Person, NameCorrespondent(x)
    PROVE  Coherent(book')
  <1>1. book \in Book /\ Organized(book.org) /\ book.org \in [Receiver -> Structure]
    BY BookFields DEF Coherent
  <1>2. PICK o, org :
           /\ o = IF x \in Person THEN book.home[x] ELSE x
           /\ org = [book.org EXCEPT ![o] = [alive |-> TRUE, row |-> TRUE, on |-> TRUE,
                                             valid |-> TRUE, corr |-> TRUE]]
    OBVIOUS
  <1>3. PICK b : b = [book EXCEPT !.org = org]
    OBVIOUS
  <1>4. /\ o # NoHome
        /\ \/ Commit(book, Receiver)
           \/ Commit(b, Receiver) /\ \A y \in Receiver : ~book.org[y].corr
    BY <1>2, <1>3 DEF NameCorrespondent
  <1>5. o \in Receiver
    <2>1. book.home \in [Person -> Receiver \cup {NoHome}]
      BY <1>1, BookFields
    <2> QED
      BY <1>2, <1>4, <2>1
  <1>6. CASE Commit(book, Receiver)
    BY <1>6, CommitKeeps
  <1>7. CASE Commit(b, Receiver) /\ \A y \in Receiver : ~book.org[y].corr
    <2>1. /\ org \in [Receiver -> Structure] /\ org[o].on /\ org[o].row
          /\ \A y \in Receiver \ {o} : org[y] = book.org[y]
      BY <1>1, <1>2, <1>5 DEF Structure
    <2>2. Organized(org)
      BY <1>1, <1>7, <2>1 DEF Organized
    <2>3. Coherent(b)
      BY <1>3, <2>1, <2>2, OrgChanges
    <2> QED
      BY <1>7, <2>3, CommitKeeps
  <1> QED
    BY <1>4, <1>6, <1>7

(* The merges.                                                               *)

LEMMA MovedFacts ==
    ASSUME NEW a \in Authorization, NEW o \in Receiver, NEW t \in Receiver
    PROVE  /\ Moved(a, o, t) \in Authorization
           /\ Moved(a, o, t).from = a.from /\ Moved(a, o, t).who = a.who
           /\ Moved(a, o, t).to = (IF a.to = o THEN t ELSE a.to)
           /\ Moved(a, o, t).at = (IF a.at = o THEN t ELSE a.at)
  <1>1. PICK from \in Sender, to \in Receiver, at \in Receiver, who \in Person :
           a = [from |-> from, to |-> to, at |-> at, who |-> who]
    BY DEF Authorization
  <1>2. PICK too \in Receiver, aat \in Receiver :
           too = (IF to = o THEN t ELSE to) /\ aat = (IF at = o THEN t ELSE at)
    OBVIOUS
  <1>3. Moved(a, o, t) = [a EXCEPT !.to = too, !.at = aat]
    BY <1>1, <1>2 DEF Moved
  <1>4. Moved(a, o, t) = [from |-> from, to |-> too, at |-> aat, who |-> who]
    BY <1>1, <1>3
  <1> QED
    BY <1>1, <1>2, <1>4 DEF Authorization

LEMMA MovedLinks ==
    ASSUME NEW S \in SUBSET Authorization, NEW o \in Receiver, NEW t \in Receiver, NEW s \in Sender
    PROVE  /\ MovedAll(S, o, t) \in SUBSET Authorization
           /\ o # t => (OnLink(MovedAll(S, o, t), s, t) = {}
                          <=> OnLink(S, s, o) = {} /\ OnLink(S, s, t) = {})
  <1>1. MovedAll(S, o, t) \in SUBSET Authorization
    BY MovedFacts DEF MovedAll
  <1>2. ASSUME NEW a \in S PROVE Moved(a, o, t).from = a.from
                                 /\ Moved(a, o, t).to = (IF a.to = o THEN t ELSE a.to)
    BY MovedFacts
  <1>3. ASSUME NEW a \in OnLink(S, s, o) \cup OnLink(S, s, t)
        PROVE  Moved(a, o, t) \in OnLink(MovedAll(S, o, t), s, t)
    BY <1>2 DEF OnLink, MovedAll
  <1>4. ASSUME NEW c \in OnLink(MovedAll(S, o, t), s, t)
        PROVE  \E a \in S : a \in OnLink(S, s, o) \cup OnLink(S, s, t)
    <2>1. PICK a \in S : c = Moved(a, o, t)
      BY DEF OnLink, MovedAll
    <2>2. a.from = s /\ (a.to = o \/ a.to = t)
      BY <1>2, <2>1 DEF OnLink
    <2> QED
      BY <2>2 DEF OnLink
  <1> QED
    BY <1>1, <1>3, <1>4

\* The rows of structure o go to t, and the defaults in kept with them.
Joins(kept, org, home, o, t) ==
    /\ o # t /\ o \in Receiver /\ t \in Receiver
    /\ org \in [Receiver -> Structure] /\ home \in [Person -> Receiver \cup {NoHome}]
    /\ Organized(org)
    /\ \A p \in Person : <<o, p>> \in book.seat =>
          org[t].on /\ (p \notin book.strayed => home[p] = t)
    /\ \A x \in Receiver \ {o}, p \in Person :
          <<x, p>> \in book.seat /\ p \notin book.strayed => home[p] = x
    /\ \A s \in Sender : <<s, o>> \in book.link => org[t].on
    /\ \A x \in Receiver \ {o} : book.org[x].on => org[x].on
    /\ kept \subseteq book.first
    /\ \A a, c \in kept : a.from = c.from /\ a.to = o => c.to # t

LEMMA JoinKeeps ==
    ASSUME Coherent(book), NEW kept, NEW org, NEW home, NEW o, NEW t, Joins(kept, org, home, o, t),
           NEW b, b = [sends |-> book.sends, org |-> org, home |-> home, living |-> book.living, strayed |-> book.strayed,
                       seat |-> Reseated(book.seat, o, t), link |-> Rehung(book.link, o, t),
                       auth |-> MovedAll(book.auth, o, t), first |-> MovedAll(kept, o, t)]
    PROVE  Coherent(b)
  <1>1. book \in Book /\ OneFirst(book.auth, book.first)
        /\ Hangs(book.sends, book.org, book.home, book.strayed, book.seat, book.link, book.auth)
    BY DEF Coherent
  <1>2. /\ o \in Receiver /\ t \in Receiver /\ kept \subseteq book.auth
        /\ kept \in SUBSET Authorization /\ book.auth \in SUBSET Authorization
    BY <1>1, BookFields DEF Joins, OneFirst
  <1>3. /\ MovedAll(book.auth, o, t) \in SUBSET Authorization
        /\ MovedAll(kept, o, t) \in SUBSET Authorization
    BY <1>2, MovedFacts DEF MovedAll
  <1>4. PICK seat, link : seat = Reseated(book.seat, o, t) /\ link = Rehung(book.link, o, t)
    OBVIOUS
  <1>5. /\ seat \in SUBSET (Receiver \X Person)
        /\ \A x \in Receiver, p \in Person :
              <<x, p>> \in seat <=> \/ x # o /\ <<x, p>> \in book.seat
                                    \/ x = t /\ <<o, p>> \in book.seat
    <2>1. book.seat \in SUBSET (Receiver \X Person) /\ o # t
      BY <1>1, BookFields DEF Joins
    <2>2. ASSUME NEW y \in seat PROVE \E x \in Receiver, p \in Person :
             y = <<x, p>> /\ (\/ x # o /\ <<x, p>> \in book.seat
                              \/ x = t /\ <<o, p>> \in book.seat)
      <3>1. PICK z \in book.seat : y = IF z[1] = o THEN <<t, z[2]>> ELSE z
        BY <1>4 DEF Reseated
      <3>2. PICK x \in Receiver, p \in Person : z = <<x, p>>
        BY <2>1
      <3> QED
        BY <1>2, <3>1, <3>2
    <2>3. ASSUME NEW x \in Receiver, NEW p \in Person, x # o, <<x, p>> \in book.seat
          PROVE  <<x, p>> \in seat
      <3>1. PICK z \in book.seat : z = <<x, p>>
        BY <2>3
      <3>2. z[1] = x
        BY <3>1
      <3> QED
        BY <1>4, <2>3, <3>1, <3>2 DEF Reseated
    <2>4. ASSUME NEW p \in Person, <<o, p>> \in book.seat PROVE <<t, p>> \in seat
      <3>1. PICK z \in book.seat : z = <<o, p>>
        BY <2>4
      <3>2. z[1] = o /\ z[2] = p
        BY <3>1
      <3> QED
        BY <1>4, <3>2 DEF Reseated
    <2>5. seat \in SUBSET (Receiver \X Person)
      <3>1. ASSUME NEW y \in seat PROVE y \in Receiver \X Person
        <4>1. PICK x \in Receiver, p \in Person : y = <<x, p>>
          BY <2>2
        <4> QED
          BY <4>1
      <3> QED
        BY <3>1
    <2>6. ASSUME NEW x \in Receiver, NEW p \in Person, <<x, p>> \in seat
          PROVE  (x # o /\ <<x, p>> \in book.seat) \/ (x = t /\ <<o, p>> \in book.seat)
      BY <2>2, <2>6
    <2>7. ASSUME NEW x \in Receiver, NEW p \in Person
          PROVE  <<x, p>> \in seat <=> (x # o /\ <<x, p>> \in book.seat) \/ (x = t /\ <<o, p>> \in book.seat)
      BY <2>3, <2>4, <2>6
    <2> QED
      BY <2>5, <2>7
  <1>6. /\ link \in SUBSET (Sender \X Receiver)
        /\ \A s \in Sender, x \in Receiver :
              <<s, x>> \in link <=> \/ x # o /\ <<s, x>> \in book.link
                                    \/ x = t /\ <<s, o>> \in book.link
    <2>1. book.link \in SUBSET (Sender \X Receiver) /\ o # t
      BY <1>1, BookFields DEF Joins
    <2>2. ASSUME NEW y \in link PROVE \E s \in Sender, x \in Receiver :
             y = <<s, x>> /\ (\/ x # o /\ <<s, x>> \in book.link
                              \/ x = t /\ <<s, o>> \in book.link)
      <3>1. PICK z \in book.link : y = IF z[2] = o THEN <<z[1], t>> ELSE z
        BY <1>4 DEF Rehung
      <3>2. PICK s \in Sender, x \in Receiver : z = <<s, x>>
        BY <2>1
      <3> QED
        BY <1>2, <3>1, <3>2
    <2>3. ASSUME NEW s \in Sender, NEW x \in Receiver, x # o, <<s, x>> \in book.link
          PROVE  <<s, x>> \in link
      <3>1. PICK z \in book.link : z = <<s, x>>
        BY <2>3
      <3>2. z[2] = x
        BY <3>1
      <3> QED
        BY <1>4, <2>3, <3>1, <3>2 DEF Rehung
    <2>4. ASSUME NEW s \in Sender, <<s, o>> \in book.link PROVE <<s, t>> \in link
      <3>1. PICK z \in book.link : z = <<s, o>>
        BY <2>4
      <3>2. z[1] = s /\ z[2] = o
        BY <3>1
      <3> QED
        BY <1>4, <3>2 DEF Rehung
    <2>5. link \in SUBSET (Sender \X Receiver)
      <3>1. ASSUME NEW y \in link PROVE y \in Sender \X Receiver
        <4>1. PICK s \in Sender, x \in Receiver : y = <<s, x>>
          BY <2>2
        <4> QED
          BY <4>1
      <3> QED
        BY <3>1
    <2>6. ASSUME NEW s \in Sender, NEW x \in Receiver, <<s, x>> \in link
          PROVE  (x # o /\ <<s, x>> \in book.link) \/ (x = t /\ <<s, o>> \in book.link)
      BY <2>2, <2>6
    <2>7. ASSUME NEW s \in Sender, NEW x \in Receiver
          PROVE  <<s, x>> \in link <=> (x # o /\ <<s, x>> \in book.link) \/ (x = t /\ <<s, o>> \in book.link)
      BY <2>3, <2>4, <2>6
    <2> QED
      BY <2>5, <2>7
  <1>7. Hangs(book.sends, org, home, book.strayed, seat, link, MovedAll(book.auth, o, t))
    <2>1. ASSUME NEW c \in MovedAll(book.auth, o, t)
          PROVE  /\ c.at = c.to /\ c.from \in book.sends
                 /\ <<c.from, c.to>> \in link /\ <<c.at, c.who>> \in seat
      <3>1. PICK a \in book.auth : c = Moved(a, o, t)
        BY DEF MovedAll
      <3>2. /\ a.from \in Sender /\ a.to \in Receiver /\ a.who \in Person
            /\ c.from = a.from /\ c.who = a.who
            /\ c.to = (IF a.to = o THEN t ELSE a.to) /\ c.at = (IF a.at = o THEN t ELSE a.at)
        BY <1>2, <3>1, MovedFacts DEF Authorization
      <3>3. /\ a.at = a.to /\ a.from \in book.sends
            /\ <<a.from, a.to>> \in book.link /\ <<a.at, a.who>> \in book.seat
        BY <1>1 DEF Hangs
      <3> QED
        BY <1>2, <1>5, <1>6, <3>2, <3>3
    <2>2. ASSUME NEW x \in Receiver, NEW p \in Person, <<x, p>> \in seat
          PROVE  org[x].on /\ (p \notin book.strayed => home[p] = x)
      <3>1. CASE x # o /\ <<x, p>> \in book.seat
        BY <1>1, <3>1 DEF Hangs, Joins
      <3>2. CASE x = t /\ <<o, p>> \in book.seat
        BY <3>2 DEF Joins
      <3> QED
        BY <1>5, <2>2, <3>1, <3>2
    <2>3. ASSUME NEW s \in Sender, NEW x \in Receiver, <<s, x>> \in link PROVE org[x].on
      <3>1. CASE x # o /\ <<s, x>> \in book.link
        <4>1. book.org[x].on
          BY <1>1, <3>1 DEF Hangs
        <4> QED
          BY <3>1, <4>1 DEF Joins
      <3>2. CASE x = t /\ <<s, o>> \in book.link
        BY <3>2 DEF Joins
      <3> QED
        BY <1>6, <2>3, <3>1, <3>2
    <2> QED
      BY <2>1, <2>2, <2>3 DEF Hangs
  <1>8. OneFirst(MovedAll(book.auth, o, t), MovedAll(kept, o, t))
    <2>1. ASSUME NEW c \in MovedAll(kept, o, t), NEW d \in MovedAll(kept, o, t),
                 c.from = d.from, c.to = d.to
          PROVE  c = d
      <3>1. PICK a \in kept, e \in kept : c = Moved(a, o, t) /\ d = Moved(e, o, t)
        BY DEF MovedAll
      <3>2. /\ c.from = a.from /\ c.to = (IF a.to = o THEN t ELSE a.to)
            /\ d.from = e.from /\ d.to = (IF e.to = o THEN t ELSE e.to)
        BY <1>2, <3>1, MovedFacts
      <3>3. a.from = e.from /\ a.to = e.to
        BY <2>1, <3>1, <3>2 DEF Joins
      <3>4. a = e
        BY <1>1, <3>1, <3>3 DEF OneFirst, Joins
      <3> QED
        BY <3>1, <3>4
    <2>2. MovedAll(kept, o, t) \subseteq MovedAll(book.auth, o, t)
      BY <1>2 DEF MovedAll
    <2> QED
      BY <2>1, <2>2 DEF OneFirst
  <1>9. Organized(org) /\ org \in [Receiver -> Structure] /\ home \in [Person -> Receiver \cup {NoHome}]
    BY DEF Joins
  <1>10. b = [sends |-> book.sends, org |-> org, home |-> home, living |-> book.living, strayed |-> book.strayed,
              seat |-> seat, link |-> link, auth |-> MovedAll(book.auth, o, t),
              first |-> MovedAll(kept, o, t)]
    BY <1>4
  <1> QED
    BY <1>1, <1>3, <1>5, <1>6, <1>7, <1>8, <1>9, <1>10, BookFields, BookMade

\* What a merge keeps of the authorizations on the links to both structures.
CarriesOver(o, t) ==
    /\ AuthorizationsKept(o, t)
    /\ \A s \in Sender : DefaultKept(s, o, t)

LEMMA JoinCommits ==
    ASSUME Coherent(book), NEW kept, NEW org, NEW home, NEW o, NEW t, Joins(kept, org, home, o, t),
           NEW b, b = [sends |-> book.sends, org |-> org, home |-> home, living |-> book.living, strayed |-> book.strayed,
                       seat |-> Reseated(book.seat, o, t), link |-> Rehung(book.link, o, t),
                       auth |-> MovedAll(book.auth, o, t), first |-> MovedAll(kept, o, t)],
           NEW saved \in SUBSET Receiver, Commit(b, saved)
    PROVE  /\ Coherent(book') /\ AuthorizationsKept(o, t)
           /\ \A s \in Sender :
                 /\ OnLink(kept, s, o) \cup OnLink(kept, s, t) # {} => OnLink(book'.first, s, t) # {}
                 /\ s # DefaultSender /\ OnLink(kept, s, o) \cup OnLink(kept, s, t) = {}
                       => OnLink(book'.first, s, t) = {}
  <1>1. Coherent(b)
    BY JoinKeeps
  <1>2. Coherent(book') /\ Grown(b, book') /\ OthersFirst(b, book', DefaultSender)
    BY <1>1, CommitKeeps
  <1>3. b.auth = MovedAll(book.auth, o, t) /\ b.first = MovedAll(kept, o, t)
    OBVIOUS
  <1>4. AuthorizationsKept(o, t)
    BY <1>2, <1>3 DEF Grown, AuthorizationsKept
  <1>5. /\ o \in Receiver /\ t \in Receiver /\ o # t /\ kept \in SUBSET Authorization
    BY BookFields DEF Joins, Coherent
  <1>6. ASSUME NEW s \in Sender
        PROVE  /\ OnLink(kept, s, o) \cup OnLink(kept, s, t) # {} => OnLink(book'.first, s, t) # {}
               /\ s # DefaultSender /\ OnLink(kept, s, o) \cup OnLink(kept, s, t) = {}
                     => OnLink(book'.first, s, t) = {}
    <2>1. OnLink(b.first, s, t) = {} <=> OnLink(kept, s, o) = {} /\ OnLink(kept, s, t) = {}
      BY <1>3, <1>5, MovedLinks
    <2>2. OnLink(b.first, s, t) # {} => OnLink(book'.first, s, t) # {}
      BY <1>2, <1>5 DEF Grown
    <2>3. s # DefaultSender => OnLink(book'.first, s, t) = OnLink(b.first, s, t)
      BY <1>2, <1>5 DEF OthersFirst
    <2> QED
      BY <2>1, <2>2, <2>3
  <1> QED
    BY <1>2, <1>4, <1>6

\* What a merge of o into t does to the authorizations.
LosesNothing(o, t) == AuthorizationsKept(o, t) /\ \A s \in Sender : DefaultKept(s, o, t)
LosesMoved(o, t) ==
    /\ AuthorizationsKept(o, t)
    /\ \A s \in Sender :
          /\ <<s, t>> \in book.link => DefaultKept(s, o, t)
          /\ <<s, t>> \notin book.link /\ s # DefaultSender => OnLink(book'.first, s, t) = {}

LEMMA MembersFollow ==
    ASSUME Coherent(book), NEW o \in Receiver, NEW t \in Receiver, o # t,
           NEW home, home = MergedMembers(o, t)
    PROVE  /\ home \in [Person -> Receiver \cup {NoHome}]
           /\ \A p \in Person : <<o, p>> \in book.seat /\ p \notin book.strayed => home[p] = t
           /\ \A x \in Receiver \ {o}, p \in Person :
                 <<x, p>> \in book.seat /\ p \notin book.strayed => home[p] = x
  <1>1. book.home \in [Person -> Receiver \cup {NoHome}]
        /\ \A x \in Receiver, p \in Person :
              <<x, p>> \in book.seat /\ p \notin book.strayed => book.home[p] = x
    BY BookFields DEF Coherent, Hangs
  <1>2. home = [p \in Person |-> IF book.home[p] = o THEN t ELSE book.home[p]]
    BY DEF MergedMembers
  <1> QED
    BY <1>1, <1>2

LEMMA CockpitMergeKeeps ==
    ASSUME Coherent(book), NEW o \in Receiver, NEW t \in Receiver, CockpitMerge(o, t)
    PROVE  Coherent(book') /\ LosesMoved(o, t)
  <1> DEFINE moves == \E x \in book.seat \cup book.link :
                         x \in {<<o, p>> : p \in Person} \cup {<<s, o>> : s \in Sender}
             promoted == book.org[o].corr /\ ~book.org[t].corr
  <1>1. PICK org, home, kept :
           /\ org = [x \in Receiver |->
                       [book.org[x] EXCEPT
                            !.alive = @ /\ x # o,
                            !.on = @ /\ x # o,
                            !.corr = IF promoted THEN x = t ELSE @ /\ x # o]]
           /\ home = [p \in Person |-> IF <<o, p>> \in book.seat THEN t ELSE book.home[p]]
           /\ kept = KeptDefaults(o, t)
    OBVIOUS
  <1>2. PICK b : b = [book EXCEPT !.org = org, !.home = home, !.seat = Reseated(@, o, t),
                                  !.link = Rehung(@, o, t), !.auth = MovedAll(@, o, t),
                                  !.first = MovedAll(kept, o, t)]
    OBVIOUS
  <1>3. PICK saved : saved = IF promoted THEN {t} ELSE {}
    OBVIOUS
  <1>4. o # t /\ (moves => book.org[t].on) /\ Commit(b, saved) /\ saved \in SUBSET Receiver
    BY <1>1, <1>2, <1>3 DEF CockpitMerge
  <1>5. /\ book \in Book /\ Organized(book.org) /\ book.org \in [Receiver -> Structure]
        /\ Hangs(book.sends, book.org, book.home, book.strayed, book.seat, book.link, book.auth)
        /\ OneFirst(book.auth, book.first) /\ book.home \in [Person -> Receiver \cup {NoHome}]
        /\ book.auth \in SUBSET Authorization
    BY BookFields DEF Coherent
  <1>6. b = [sends |-> book.sends, org |-> org, home |-> home, living |-> book.living, strayed |-> book.strayed,
             seat |-> Reseated(book.seat, o, t), link |-> Rehung(book.link, o, t),
             auth |-> MovedAll(book.auth, o, t), first |-> MovedAll(kept, o, t)]
    <2>1. PICK sends, g, h, l, w, e, k, u, f :
             book = [sends |-> sends, org |-> g, home |-> h, living |-> l, strayed |-> w,
                     seat |-> e, link |-> k, auth |-> u, first |-> f]
      BY <1>5, BookFields
    <2>2. PICK ee, kk, uu, ff : /\ ee = Reseated(e, o, t) /\ kk = Rehung(k, o, t)
                                /\ uu = MovedAll(u, o, t) /\ ff = MovedAll(kept, o, t)
      OBVIOUS
    <2>3. b = [book EXCEPT !.org = org, !.home = home, !.seat = ee, !.link = kk, !.auth = uu,
                           !.first = ff]
      BY <1>2, <2>1, <2>2
    <2> QED
      BY <2>1, <2>2, <2>3
  <1>7. \A x \in Receiver :
           /\ org[x] \in Structure
           /\ org[x].on = (book.org[x].on /\ x # o) /\ org[x].row = book.org[x].row
           /\ promoted => (org[x].corr <=> x = t)
           /\ ~ promoted => (org[x].corr <=> book.org[x].corr /\ x # o)
    <2> TAKE x \in Receiver
    <2>1. PICK alive, row, on, valid, corr :
             /\ alive \in BOOLEAN /\ row \in BOOLEAN /\ on \in BOOLEAN /\ valid \in BOOLEAN
             /\ corr \in BOOLEAN
             /\ book.org[x] = [alive |-> alive, row |-> row, on |-> on, valid |-> valid, corr |-> corr]
      BY <1>5 DEF Structure
    <2>2. PICK a \in BOOLEAN, n \in BOOLEAN, c \in BOOLEAN :
             /\ a = (alive /\ x # o) /\ n = (on /\ x # o)
             /\ c = IF promoted THEN x = t ELSE corr /\ x # o
      BY <2>1
    <2> HIDE DEF promoted
    <2>3. org[x] = [alive |-> a, row |-> row, on |-> n, valid |-> valid, corr |-> c]
      <3>1. PICK r : r = book.org[x]
        OBVIOUS
      <3>2. r.alive = alive /\ r.on = on /\ r.corr = corr
        BY <2>1, <3>1
      <3>3. org[x] = [r EXCEPT !.alive = r.alive /\ x # o, !.on = r.on /\ x # o,
                               !.corr = IF promoted THEN x = t ELSE r.corr /\ x # o]
        BY <1>1, <3>1
      <3>4. /\ (r.alive /\ x # o) = a /\ (r.on /\ x # o) = n
            /\ (IF promoted THEN x = t ELSE r.corr /\ x # o) = c
        BY <2>2, <3>2
      <3>5. org[x] = [r EXCEPT !.alive = a, !.on = n, !.corr = c]
        BY <3>3, <3>4
      <3>6. r = [alive |-> alive, row |-> row, on |-> on, valid |-> valid, corr |-> corr]
        BY <2>1, <3>1
      <3> QED
        BY <3>5, <3>6
    <2> QED
      BY <2>1, <2>2, <2>3 DEF Structure
  <1>8. \A p \in Person : <<o, p>> \in book.seat => moves
    OBVIOUS
  <1>9. \A s \in Sender : <<s, o>> \in book.link => moves
    OBVIOUS
  <1> HIDE DEF moves, promoted
  <1>10. Organized(org)
    <2>1. \A x \in Receiver : org[x].on => org[x].row
      BY <1>5, <1>7 DEF Organized
    <2>2. CASE promoted
      BY <1>7, <2>1, <2>2 DEF Organized
    <2>3. CASE ~ promoted
      BY <1>5, <1>7, <2>1, <2>3 DEF Organized
    <2> QED
      BY <2>2, <2>3
  <1>11. \A a \in book.first : <<a.from, a.to>> \in book.link /\ a.from \in Sender
    <2> TAKE a \in book.first
    <2>1. a \in book.auth /\ a \in Authorization
      BY <1>5 DEF OneFirst
    <2> QED
      BY <1>5, <2>1 DEF Hangs, Authorization
  <1>12. kept \subseteq book.first /\ \A a \in book.first :
            a \in kept <=> (a.to = o => <<a.from, t>> \in book.link /\ OnLink(book.first, a.from, t) = {})
    BY <1>1 DEF KeptDefaults
  <1>13. Joins(kept, org, home, o, t)
    <2>1. org \in [Receiver -> Structure] /\ home \in [Person -> Receiver \cup {NoHome}]
      BY <1>1, <1>5, <1>7
    <2>2. \A p \in Person : <<o, p>> \in book.seat => home[p] = t /\ org[t].on
      BY <1>1, <1>4, <1>7, <1>8
    <2>3. \A x \in Receiver \ {o}, p \in Person :
             <<x, p>> \in book.seat /\ p \notin book.strayed => home[p] = x
      BY <1>1, <1>5 DEF Hangs
    <2>4. \A s \in Sender : <<s, o>> \in book.link => org[t].on
      BY <1>4, <1>7, <1>9
    <2>5. \A x \in Receiver \ {o} : book.org[x].on => org[x].on
      BY <1>7
    <2>6. \A a, c \in kept : a.from = c.from /\ a.to = o => c.to # t
      BY <1>12 DEF OnLink
    <2> QED
      BY <1>4, <1>10, <1>12, <2>1, <2>2, <2>3, <2>4, <2>5, <2>6 DEF Joins
  <1>14. /\ Coherent(book') /\ AuthorizationsKept(o, t)
         /\ \A s \in Sender :
               /\ OnLink(kept, s, o) \cup OnLink(kept, s, t) # {} => OnLink(book'.first, s, t) # {}
               /\ s # DefaultSender /\ OnLink(kept, s, o) \cup OnLink(kept, s, t) = {}
                     => OnLink(book'.first, s, t) = {}
    BY <1>4, <1>6, <1>13, JoinCommits
  <1>15. ASSUME NEW s \in Sender
         PROVE  /\ <<s, t>> \in book.link => DefaultKept(s, o, t)
                /\ <<s, t>> \notin book.link /\ s # DefaultSender => OnLink(book'.first, s, t) = {}
    <2>1. OnLink(kept, s, t) = OnLink(book.first, s, t)
      BY <1>4, <1>12 DEF OnLink
    <2>2. CASE <<s, t>> \in book.link
      <3>1. OnLink(book.first, s, t) = {} => OnLink(kept, s, o) = OnLink(book.first, s, o)
        BY <1>12, <2>2 DEF OnLink
      <3> QED
        BY <1>14, <2>1, <2>2, <3>1 DEF DefaultKept
    <2>3. CASE <<s, t>> \notin book.link
      <3>1. OnLink(kept, s, o) = {}
        BY <1>12, <2>3 DEF OnLink
      <3>2. OnLink(book.first, s, t) = {}
        BY <1>11, <2>3 DEF OnLink
      <3> QED
        BY <1>14, <2>1, <2>3, <3>1, <3>2
    <2> QED
      BY <2>2, <2>3
  <1> QED
    BY <1>14, <1>15 DEF LosesMoved

\* Where the source has no row, or none hangs on it, everything stays in its place.
LEMMA NothingMoves ==
    ASSUME Coherent(book), NEW o \in Receiver, NEW t \in Receiver, ~ book.org[o].on,
           book'.auth = book.auth, book'.first = book.first
    PROVE  LosesNothing(o, t)
  <1>1. /\ Hangs(book.sends, book.org, book.home, book.strayed, book.seat, book.link, book.auth)
        /\ OneFirst(book.auth, book.first) /\ book.auth \in SUBSET Authorization
    BY BookFields DEF Coherent
  <1>2. ASSUME NEW a \in book.auth PROVE a.to # o /\ a.at # o
    <2>1. a.from \in Sender /\ a.to \in Receiver
      BY <1>1 DEF Authorization
    <2> QED
      BY <1>1, <2>1 DEF Hangs
  <1>3. ASSUME NEW a \in book.auth PROVE Moved(a, o, t) = a
    <2>1. PICK from, to, at, who : a = [from |-> from, to |-> to, at |-> at, who |-> who]
      BY <1>1 DEF Authorization
    <2>2. to # o /\ at # o
      BY <1>2, <2>1
    <2>3. Moved(a, o, t) = [a EXCEPT !.to = to, !.at = at]
      BY <2>1, <2>2 DEF Moved
    <2> QED
      BY <2>1, <2>3
  <1>4. AuthorizationsKept(o, t)
    BY <1>3 DEF AuthorizationsKept, MovedAll
  <1>5. ASSUME NEW s \in Sender PROVE DefaultKept(s, o, t)
    BY <1>1, <1>2 DEF DefaultKept, OnLink, OneFirst
  <1> QED
    BY <1>4, <1>5 DEF LosesNothing

LEMMA JoinAll ==
    ASSUME Coherent(book), NEW org, NEW home, NEW o, NEW t, Joins(book.first, org, home, o, t),
           NEW b, b = [sends |-> book.sends, org |-> org, home |-> home, living |-> book.living, strayed |-> book.strayed,
                       seat |-> Reseated(book.seat, o, t), link |-> Rehung(book.link, o, t),
                       auth |-> MovedAll(book.auth, o, t), first |-> MovedAll(book.first, o, t)],
           NEW saved \in SUBSET Receiver, Commit(b, saved)
    PROVE  Coherent(book') /\ LosesNothing(o, t)
  <1>1. PICK kept : kept = book.first
    OBVIOUS
  <1>2. Joins(kept, org, home, o, t)
    BY <1>1
  <1>3. b = [sends |-> book.sends, org |-> org, home |-> home, living |-> book.living, strayed |-> book.strayed,
             seat |-> Reseated(book.seat, o, t), link |-> Rehung(book.link, o, t),
             auth |-> MovedAll(book.auth, o, t), first |-> MovedAll(kept, o, t)]
    BY <1>1
  <1>4. /\ Coherent(book') /\ AuthorizationsKept(o, t)
        /\ \A s \in Sender :
              OnLink(kept, s, o) \cup OnLink(kept, s, t) # {} => OnLink(book'.first, s, t) # {}
    BY <1>2, <1>3, JoinCommits
  <1> QED
    BY <1>1, <1>4 DEF LosesNothing, DefaultKept

LEMMA MergeIntoContactKeeps ==
    ASSUME Coherent(book), NEW o \in Receiver, NEW t \in Receiver, MergeIntoContact(o, t)
    PROVE  Coherent(book') /\ LosesNothing(o, t)
  <1>1. PICK alive, org, home :
           /\ alive = MergedAlive(o, t) /\ home = MergedMembers(o, t)
           /\ org = [book.org EXCEPT ![o] = NoRow(FALSE),
                                     ![t] = IF book.org[o].row
                                            THEN [book.org[o] EXCEPT !.alive = alive]
                                            ELSE [@ EXCEPT !.alive = alive]]
    OBVIOUS
  <1>2. PICK merged : merged = [book EXCEPT !.org = org, !.home = home]
    OBVIOUS
  <1>3. PICK b : b = [merged EXCEPT !.seat = Reseated(@, o, t), !.link = Rehung(@, o, t),
                                    !.auth = MovedAll(@, o, t), !.first = MovedAll(@, o, t)]
    OBVIOUS
  <1>4. /\ o # t /\ ~ (book.org[o].row /\ book.org[t].row)
        /\ book.org[o].row => Commit(b, {t})
        /\ ~ book.org[o].row => book' = merged
    BY <1>1, <1>2, <1>3 DEF MergeIntoContact
  <1>5. /\ book \in Book /\ Organized(book.org) /\ book.org \in [Receiver -> Structure]
        /\ Hangs(book.sends, book.org, book.home, book.strayed, book.seat, book.link, book.auth)
        /\ OneFirst(book.auth, book.first)
        /\ book.auth \in SUBSET Authorization
    BY BookFields DEF Coherent
  <1>6. /\ home \in [Person -> Receiver \cup {NoHome}]
        /\ \A p \in Person : <<o, p>> \in book.seat /\ p \notin book.strayed => home[p] = t
        /\ \A x \in Receiver \ {o}, p \in Person :
              <<x, p>> \in book.seat /\ p \notin book.strayed => home[p] = x
    BY <1>1, <1>4, MembersFollow
  <1>7. alive \in BOOLEAN
    BY <1>1, <1>5 DEF MergedAlive, Structure
  <1>8. /\ \A x \in Receiver \ {o, t} : org[x] = book.org[x]
        /\ org[o] = NoRow(FALSE)
        /\ book.org[o].row => org[t] = [book.org[o] EXCEPT !.alive = alive]
        /\ ~ book.org[o].row => org[t] = [book.org[t] EXCEPT !.alive = alive]
    BY <1>1, <1>4, <1>5
  <1>9. /\ NoRow(FALSE) \in Structure /\ ~ NoRow(FALSE).on
        /\ \A x \in Receiver : LET s == [book.org[x] EXCEPT !.alive = alive] IN
              /\ s \in Structure
              /\ s.on = book.org[x].on /\ s.row = book.org[x].row /\ s.corr = book.org[x].corr
    BY <1>5, <1>7 DEF NoRow, Structure
  <1>10. org \in [Receiver -> Structure]
    <2>1. \A x \in Receiver : org[x] \in Structure
      BY <1>5, <1>8, <1>9
    <2>2. org = [x \in Receiver |-> org[x]]
      BY <1>1, <1>5
    <2> QED
      BY <2>1, <2>2
  <1>11. CASE book.org[o].row
    <2>1. /\ ~ book.org[t].on /\ org[t].on = book.org[o].on /\ org[t].row = book.org[o].row
          /\ org[t].corr = book.org[o].corr /\ ~ org[o].on
      BY ZenonT(30), <1>4, <1>5, <1>8, <1>9, <1>11 DEF Organized
    <2>2. Organized(org)
      BY ZenonT(30), <1>5, <1>8, <1>11, <2>1 DEF Organized
    <2>3. \A a \in book.first : a.to # t
      <3> TAKE a \in book.first
      <3>1. a \in book.auth /\ a \in Authorization
        BY <1>5 DEF OneFirst
      <3> QED
        BY <1>5, <2>1, <3>1 DEF Hangs, Authorization
    <2>4. Joins(book.first, org, home, o, t)
      BY <1>4, <1>5, <1>6, <1>8, <1>10, <2>1, <2>2, <2>3 DEF Joins, Hangs
    <2>5. b = [sends |-> book.sends, org |-> org, home |-> home, living |-> book.living, strayed |-> book.strayed,
               seat |-> Reseated(book.seat, o, t), link |-> Rehung(book.link, o, t),
               auth |-> MovedAll(book.auth, o, t), first |-> MovedAll(book.first, o, t)]
      <3>1. PICK sends, g, h, l, w, e, k, u, f :
               book = [sends |-> sends, org |-> g, home |-> h, living |-> l, strayed |-> w,
                       seat |-> e, link |-> k, auth |-> u, first |-> f]
        BY <1>5, BookFields
      <3>2. PICK ee, kk, uu, ff : /\ ee = Reseated(e, o, t) /\ kk = Rehung(k, o, t)
                                  /\ uu = MovedAll(u, o, t) /\ ff = MovedAll(f, o, t)
        OBVIOUS
      <3>3. merged = [sends |-> sends, org |-> org, home |-> home, living |-> l, strayed |-> w,
                      seat |-> e, link |-> k, auth |-> u, first |-> f]
        BY <1>2, <3>1
      <3>4. b = [merged EXCEPT !.seat = ee, !.link = kk, !.auth = uu, !.first = ff]
        BY <1>3, <3>2, <3>3
      <3>5. b = [sends |-> sends, org |-> org, home |-> home, living |-> l, strayed |-> w,
                 seat |-> ee, link |-> kk, auth |-> uu, first |-> ff]
        BY <3>3, <3>4
      <3> QED
        BY <3>1, <3>2, <3>5
    <2> QED
      BY <1>4, <1>11, <2>4, <2>5, JoinAll
  <1>12. CASE ~ book.org[o].row
    <2>1. /\ ~ book.org[o].on /\ org[t].on = book.org[t].on /\ org[t].row = book.org[t].row
          /\ org[t].corr = book.org[t].corr /\ ~ org[o].on
      BY <1>5, <1>8, <1>9, <1>12 DEF Organized
    <2>2. Organized(org)
      BY <1>5, <1>8, <2>1 DEF Organized
    <2>3. \A x \in Receiver : book.org[x].on => org[x].on
      BY <1>8, <2>1
    <2>4. merged = [sends |-> book.sends, org |-> org, home |-> home, living |-> book.living, strayed |-> book.strayed,
                    seat |-> book.seat, link |-> book.link, auth |-> book.auth, first |-> book.first]
      <3>1. PICK sends, g, h, l, w, e, k, u, f :
               book = [sends |-> sends, org |-> g, home |-> h, living |-> l, strayed |-> w,
                       seat |-> e, link |-> k, auth |-> u, first |-> f]
        BY <1>5, BookFields
      <3> QED
        BY <1>2, <3>1
    <2>5. Hangs(book.sends, org, home, book.strayed, book.seat, book.link, book.auth)
      BY <1>5, <1>6, <2>1, <2>3 DEF Hangs
    <2>6. Coherent(merged)
      BY <1>5, <1>6, <1>10, <2>2, <2>4, <2>5, BookFields, BookMade
    <2>7. merged.auth = book.auth /\ merged.first = book.first
      BY <2>4
    <2> QED
      BY <1>4, <1>12, <2>1, <2>6, <2>7, NothingMoves
  <1> QED
    BY <1>11, <1>12

LEMMA MergeRowsKeeps ==
    ASSUME Coherent(book), NEW o \in Receiver, NEW t \in Receiver, MergeRows(o, t)
    PROVE  Coherent(book') /\ LosesNothing(o, t)
  <1>1. PICK from, to, row, org, home :
           /\ from = book.org[o] /\ to = book.org[t] /\ home = MergedMembers(o, t)
           /\ row = [alive |-> MergedAlive(o, t), row |-> TRUE, on |-> from.on \/ to.on,
                     valid |-> from.valid \/ to.valid, corr |-> from.corr \/ to.corr]
           /\ org = [book.org EXCEPT ![o] = NoRow(FALSE), ![t] = row]
    OBVIOUS
  <1>2. PICK b : b = [book EXCEPT !.org = org, !.home = home, !.seat = Reseated(@, o, t),
                                  !.link = Rehung(@, o, t), !.auth = MovedAll(@, o, t),
                                  !.first = MovedAll(@, o, t)]
    OBVIOUS
  <1>3. PICK saved : saved = IF row # [to EXCEPT !.alive = row.alive] THEN {t} ELSE {}
    OBVIOUS
  <1>4. /\ o # t /\ from.row /\ to.row
        /\ row # [to EXCEPT !.alive = row.alive] => RowSaves([book.org EXCEPT ![t] = row], t)
        /\ \A s \in {s \in Sender : <<s, o>> \in book.link} : <<s, t>> \in book.link =>
              OnLink(book.first, s, o) = {} \/ OnLink(book.first, s, t) = {}
        /\ Commit(b, saved)
    BY <1>1, <1>2, <1>3 DEF MergeRows
  <1>5. /\ book \in Book /\ Organized(book.org) /\ book.org \in [Receiver -> Structure]
        /\ Hangs(book.sends, book.org, book.home, book.strayed, book.seat, book.link, book.auth)
        /\ OneFirst(book.auth, book.first)
        /\ book.auth \in SUBSET Authorization
    BY BookFields DEF Coherent
  <1>6. /\ home \in [Person -> Receiver \cup {NoHome}]
        /\ \A p \in Person : <<o, p>> \in book.seat /\ p \notin book.strayed => home[p] = t
        /\ \A x \in Receiver \ {o}, p \in Person :
              <<x, p>> \in book.seat /\ p \notin book.strayed => home[p] = x
    BY <1>1, <1>4, MembersFollow
  <1>7. row \in Structure /\ row.on = (from.on \/ to.on) /\ row.row /\ row.corr = (from.corr \/ to.corr)
    BY <1>1, <1>5 DEF MergedAlive, Structure
  <1>8. /\ org[t] = row /\ org[o] = NoRow(FALSE) /\ \A x \in Receiver \ {o, t} : org[x] = book.org[x]
        /\ org \in [Receiver -> Structure] /\ ~ org[o].on
    <2>1. NoRow(FALSE) \in Structure /\ ~ NoRow(FALSE).on
      BY DEF NoRow, Structure
    <2> QED
      BY <1>1, <1>4, <1>5, <1>7, <2>1
  <1>9. row.on /\ row.corr => \A x \in Receiver \ {o, t} : ~ (book.org[x].on /\ book.org[x].corr)
    <2>1. CASE row = [to EXCEPT !.alive = row.alive]
      <3>1. to \in Structure
        BY <1>1, <1>5
      <3>2. row.on = to.on /\ row.corr = to.corr
        BY <2>1, <3>1 DEF Structure
      <3> QED
        BY <1>1, <1>5, <3>2 DEF Organized
    <2>2. CASE RowSaves([book.org EXCEPT ![t] = row], t)
      <3>1. PICK new : new = [book.org EXCEPT ![t] = row]
        OBVIOUS
      <3>2. new[t] = row /\ \A x \in Receiver \ {t} : new[x] = book.org[x]
        BY <1>5, <3>1
      <3>3. RowSaves(new, t)
        BY <2>2, <3>1
      <3> QED
        BY <3>2, <3>3 DEF RowSaves, OtherCorrespondent
    <2> QED
      BY <1>4, <2>1, <2>2
  <1>10. Organized(org)
    BY <1>5, <1>7, <1>8, <1>9 DEF Organized
  <1>11. \A x \in Receiver \ {o} : book.org[x].on => org[x].on
    BY <1>1, <1>7, <1>8
  <1>12. book.org[o].on => org[t].on
    BY <1>1, <1>7, <1>8
  <1>13. \A a, c \in book.first : a.from = c.from /\ a.to = o => c.to # t
    <2> SUFFICES ASSUME NEW a \in book.first, NEW c \in book.first, a.from = c.from, a.to = o, c.to = t
                 PROVE  FALSE
      OBVIOUS
    <2>1. a \in book.auth /\ c \in book.auth /\ a \in Authorization
      BY <1>5 DEF OneFirst
    <2>2. a.from \in Sender /\ <<a.from, o>> \in book.link /\ <<a.from, t>> \in book.link
      BY <1>5, <2>1 DEF Hangs, Authorization
    <2>3. a \in OnLink(book.first, a.from, o) /\ c \in OnLink(book.first, a.from, t)
      BY DEF OnLink
    <2> QED
      BY <1>4, <2>2, <2>3
  <1>14. Joins(book.first, org, home, o, t)
    BY <1>4, <1>5, <1>6, <1>8, <1>10, <1>11, <1>12, <1>13 DEF Joins, Hangs
  <1>15. b = [sends |-> book.sends, org |-> org, home |-> home, living |-> book.living, strayed |-> book.strayed,
              seat |-> Reseated(book.seat, o, t), link |-> Rehung(book.link, o, t),
              auth |-> MovedAll(book.auth, o, t), first |-> MovedAll(book.first, o, t)]
    <2>1. PICK sends, g, h, l, w, e, k, u, f :
             book = [sends |-> sends, org |-> g, home |-> h, living |-> l, strayed |-> w,
                     seat |-> e, link |-> k, auth |-> u, first |-> f]
      BY <1>5, BookFields
    <2>2. PICK ee, kk, uu, ff : /\ ee = Reseated(e, o, t) /\ kk = Rehung(k, o, t)
                                /\ uu = MovedAll(u, o, t) /\ ff = MovedAll(f, o, t)
      OBVIOUS
    <2>3. b = [book EXCEPT !.org = org, !.home = home, !.seat = ee, !.link = kk, !.auth = uu,
                           !.first = ff]
      BY <1>2, <2>1, <2>2
    <2> QED
      BY <2>1, <2>2, <2>3
  <1> QED
    BY <1>3, <1>4, <1>14, <1>15, JoinAll

LEMMA MergePersonsKeeps ==
    ASSUME Coherent(book), NEW p \in Person, NEW q \in Person, MergePersons(p, q)
    PROVE  Coherent(book')
  <1> DEFINE renamed(a) == IF a.who = p THEN [a EXCEPT !.who = q] ELSE a
  <1>1. PICK living, seat, auth, first :
           /\ living = (book.living \ {p}) \cup (IF p \in book.living THEN {q} ELSE {})
           /\ seat = {IF x[2] = p THEN <<x[1], q>> ELSE x : x \in book.seat}
           /\ auth = {renamed(a) : a \in book.auth} /\ first = {renamed(a) : a \in book.first}
    OBVIOUS
  <1>2. /\ p # q
        /\ \A o \in Receiver : <<o, p>> \in book.seat /\ <<o, q>> \notin book.seat => book.home[q] = o
        /\ book' = [book EXCEPT !.living = living, !.seat = seat, !.auth = auth, !.first = first]
    BY <1>1 DEF MergePersons
  <1>3. /\ book \in Book /\ OneFirst(book.auth, book.first)
        /\ Hangs(book.sends, book.org, book.home, book.strayed, book.seat, book.link, book.auth)
        /\ book.auth \in SUBSET Authorization /\ book.seat \in SUBSET (Receiver \X Person)
        /\ book.living \in SUBSET Person
    BY BookFields DEF Coherent
  <1>4. book' = [sends |-> book.sends, org |-> book.org, home |-> book.home, living |-> living, strayed |-> book.strayed,
                 seat |-> seat, link |-> book.link, auth |-> auth, first |-> first]
    <2>1. PICK sends, g, h, l, w, e, k, u, f :
             book = [sends |-> sends, org |-> g, home |-> h, living |-> l, strayed |-> w,
                     seat |-> e, link |-> k, auth |-> u, first |-> f]
      BY <1>3, BookFields
    <2> QED
      BY <1>2, <2>1
  <1>5. \A a \in book.auth :
           /\ renamed(a) \in Authorization /\ renamed(a).from = a.from /\ renamed(a).to = a.to
           /\ renamed(a).at = a.at /\ renamed(a).who = IF a.who = p THEN q ELSE a.who
    <2> TAKE a \in book.auth
    <2>1. PICK from \in Sender, to \in Receiver, at \in Receiver, who \in Person :
             a = [from |-> from, to |-> to, at |-> at, who |-> who]
      BY <1>3 DEF Authorization
    <2>2. PICK x \in Person : x = IF who = p THEN q ELSE who
      OBVIOUS
    <2>3. renamed(a) = [from |-> from, to |-> to, at |-> at, who |-> x]
      BY <2>1, <2>2
    <2> QED
      BY <2>1, <2>2, <2>3 DEF Authorization
  <1> HIDE DEF renamed
  <1>6. auth \in SUBSET Authorization /\ first \subseteq auth
    BY <1>1, <1>3, <1>5 DEF OneFirst
  <1>7. OneFirst(auth, first)
    <2>1. ASSUME NEW c \in first, NEW d \in first, c.from = d.from, c.to = d.to PROVE c = d
      <3>1. PICK a \in book.first, e \in book.first : c = renamed(a) /\ d = renamed(e)
        BY <1>1
      <3>2. a \in book.auth /\ e \in book.auth
        BY <1>3 DEF OneFirst
      <3>3. a.from = e.from /\ a.to = e.to
        BY <1>5, <2>1, <3>1, <3>2
      <3> QED
        BY <1>3, <3>1, <3>3 DEF OneFirst
    <2> QED
      BY <1>6, <2>1 DEF OneFirst
  <1>8. /\ seat \in SUBSET (Receiver \X Person)
        /\ \A o \in Receiver, x \in Person : <<o, x>> \in seat =>
              \E y \in Person : <<o, y>> \in book.seat /\ (x = y \/ book.home[x] = o)
        /\ \A o \in Receiver, x \in Person :
              <<o, x>> \in book.seat => <<o, IF x = p THEN q ELSE x>> \in seat
    <2>1. ASSUME NEW z \in seat
          PROVE  \E o \in Receiver, x, y \in Person :
                    z = <<o, x>> /\ <<o, y>> \in book.seat /\ (x = y \/ book.home[x] = o)
      <3>1. PICK w \in book.seat : z = IF w[2] = p THEN <<w[1], q>> ELSE w
        BY <1>1
      <3>2. PICK o \in Receiver, y \in Person : w = <<o, y>>
        BY <1>3
      <3>3. w[1] = o /\ w[2] = y /\ <<o, y>> \in book.seat
        BY <3>1, <3>2
      <3>4. CASE y = p
        <4>1. z = <<o, q>>
          BY <3>1, <3>3, <3>4
        <4> QED
          BY <1>2, <3>3, <3>4, <4>1
      <3>5. CASE y # p
        BY <3>1, <3>2, <3>3, <3>5
      <3> QED
        BY <3>4, <3>5
    <2>2. seat \in SUBSET (Receiver \X Person)
      <3>1. ASSUME NEW z \in seat PROVE z \in Receiver \X Person
        <4>1. PICK o \in Receiver, x \in Person : z = <<o, x>>
          BY <2>1
        <4> QED
          BY <4>1
      <3> QED
        BY <3>1
    <2>3. ASSUME NEW o \in Receiver, NEW x \in Person, <<o, x>> \in seat
          PROVE  \E y \in Person : <<o, y>> \in book.seat /\ (x = y \/ book.home[x] = o)
      BY <2>1, <2>3
    <2>4. ASSUME NEW o \in Receiver, NEW x \in Person, <<o, x>> \in book.seat
          PROVE  <<o, IF x = p THEN q ELSE x>> \in seat
      <3>1. PICK w \in book.seat : w = <<o, x>>
        BY <2>4
      <3>2. w[1] = o /\ w[2] = x
        BY <3>1
      <3>3. (IF w[2] = p THEN <<w[1], q>> ELSE w) \in seat
        BY <1>1
      <3> QED
        BY <3>1, <3>2, <3>3
    <2> QED
      BY <2>2, <2>3, <2>4
  <1>9. Hangs(book.sends, book.org, book.home, book.strayed, seat, book.link, auth)
    <2>1. ASSUME NEW c \in auth
          PROVE  /\ c.at = c.to /\ c.from \in book.sends
                 /\ <<c.from, c.to>> \in book.link /\ <<c.at, c.who>> \in seat
      <3>1. PICK a \in book.auth : c = renamed(a)
        BY <1>1
      <3>2. a.at \in Receiver /\ a.who \in Person
        BY <1>3 DEF Authorization
      <3>3. /\ a.at = a.to /\ a.from \in book.sends
            /\ <<a.from, a.to>> \in book.link /\ <<a.at, a.who>> \in book.seat
        BY <1>3 DEF Hangs
      <3>4. <<a.at, IF a.who = p THEN q ELSE a.who>> \in seat
        BY <1>8, <3>2, <3>3
      <3> QED
        BY <1>5, <3>1, <3>3, <3>4
    <2>2. ASSUME NEW o \in Receiver, NEW x \in Person, <<o, x>> \in seat
          PROVE  book.org[o].on /\ (x \notin book.strayed => book.home[x] = o)
      <3>1. PICK y \in Person : <<o, y>> \in book.seat /\ (x = y \/ book.home[x] = o)
        BY <1>8, <2>2
      <3> QED
        BY <1>3, <3>1 DEF Hangs
    <2> QED
      BY <1>3, <2>1, <2>2 DEF Hangs
  <1>10. living \in SUBSET Person /\ first \in SUBSET Authorization
    BY <1>1, <1>3, <1>6
  <1> QED
    BY <1>3, <1>4, <1>6, <1>7, <1>8, <1>9, <1>10, BookFields, BookMade DEF Coherent

LEMMA MergeShippersKeeps ==
    ASSUME Coherent(book), NEW s \in Sender, NEW t \in Sender, MergeShippers(s, t)
    PROVE  Coherent(book')
  <1> DEFINE handed(a) == IF a.from = s THEN [a EXCEPT !.from = t] ELSE a
             theirs(S, o) == {handed(a) : a \in OnLink(S, s, o)}
             beaten(a) == a.from = t /\ theirs(book.first, a.to) # {}
  <1>1. PICK sends, link, auth, kept, first :
           /\ sends = book.sends \ {s}
           /\ link = {IF l[1] = s THEN <<t, l[2]>> ELSE l : l \in book.link}
           /\ auth = {handed(a) : a \in book.auth}
           /\ kept = {a \in book.first : ~ beaten(a)} /\ first = {handed(a) : a \in kept}
    OBVIOUS
  <1>2. /\ s # t /\ t \in book.sends
        /\ book' = [book EXCEPT !.sends = sends, !.link = link, !.auth = auth, !.first = first]
    BY <1>1 DEF MergeShippers
  <1>3. /\ book \in Book /\ OneFirst(book.auth, book.first)
        /\ Hangs(book.sends, book.org, book.home, book.strayed, book.seat, book.link, book.auth)
        /\ book.auth \in SUBSET Authorization /\ book.link \in SUBSET (Sender \X Receiver)
        /\ book.sends \in SUBSET Sender
    BY BookFields DEF Coherent
  <1>4. book' = [sends |-> sends, org |-> book.org, home |-> book.home, living |-> book.living, strayed |-> book.strayed,
                 seat |-> book.seat, link |-> link, auth |-> auth, first |-> first]
    <2>1. PICK sd, g, h, l, w, e, k, u, f :
             book = [sends |-> sd, org |-> g, home |-> h, living |-> l, strayed |-> w,
                     seat |-> e, link |-> k, auth |-> u, first |-> f]
      BY <1>3, BookFields
    <2> QED
      BY <1>2, <2>1
  <1>5. \A a \in book.auth :
           /\ handed(a) \in Authorization /\ handed(a).from = (IF a.from = s THEN t ELSE a.from)
           /\ handed(a).to = a.to /\ handed(a).at = a.at /\ handed(a).who = a.who
           /\ a.from \in Sender /\ a.to \in Receiver
    <2> TAKE a \in book.auth
    <2>1. PICK from \in Sender, to \in Receiver, at \in Receiver, who \in Person :
             a = [from |-> from, to |-> to, at |-> at, who |-> who]
      BY <1>3 DEF Authorization
    <2>2. PICK x \in Sender : x = IF from = s THEN t ELSE from
      OBVIOUS
    <2>3. handed(a) = [from |-> x, to |-> to, at |-> at, who |-> who]
      BY <2>1, <2>2
    <2> QED
      BY <2>1, <2>2, <2>3 DEF Authorization
  <1>6. \A a \in kept : /\ a \in book.first /\ a \in book.auth
                        /\ a.from = t => \A c \in book.first : ~ (c.from = s /\ c.to = a.to)
    <2> TAKE a \in kept
    <2>1. a \in book.first /\ ~ beaten(a)
      BY <1>1
    <2>2. ASSUME a.from = t, NEW c \in book.first, c.from = s, c.to = a.to PROVE FALSE
      <3>1. c \in OnLink(book.first, s, a.to)
        BY <2>2 DEF OnLink
      <3>2. theirs(book.first, a.to) # {}
        BY <3>1
      <3> QED
        BY <2>1, <2>2, <3>2
    <2> QED
      BY <1>3, <2>1, <2>2 DEF OneFirst
  <1> HIDE DEF handed, theirs, beaten
  <1>7. auth \in SUBSET Authorization /\ first \subseteq auth
    BY <1>1, <1>5, <1>6
  <1>8. OneFirst(auth, first)
    <2>1. ASSUME NEW c \in first, NEW d \in first, c.from = d.from, c.to = d.to PROVE c = d
      <3>1. PICK a \in kept, e \in kept : c = handed(a) /\ d = handed(e)
        BY <1>1
      <3>2. /\ c.from = (IF a.from = s THEN t ELSE a.from) /\ c.to = a.to
            /\ d.from = (IF e.from = s THEN t ELSE e.from) /\ d.to = e.to
        BY <1>5, <1>6, <3>1
      <3>3. a.from = e.from /\ a.to = e.to
        BY <1>6, <2>1, <3>1, <3>2
      <3> QED
        BY <1>3, <1>6, <3>1, <3>3 DEF OneFirst
    <2> QED
      BY <1>7, <2>1 DEF OneFirst
  <1>9. /\ link \in SUBSET (Sender \X Receiver)
        /\ \A x \in Sender, o \in Receiver : <<x, o>> \in link => \E y \in Sender : <<y, o>> \in book.link
        /\ \A x \in Sender, o \in Receiver :
              <<x, o>> \in book.link => <<IF x = s THEN t ELSE x, o>> \in link
    <2>1. ASSUME NEW z \in link
          PROVE  \E x, y \in Sender, o \in Receiver : z = <<x, o>> /\ <<y, o>> \in book.link
      <3>1. PICK w \in book.link : z = IF w[1] = s THEN <<t, w[2]>> ELSE w
        BY <1>1
      <3>2. PICK y \in Sender, o \in Receiver : w = <<y, o>>
        BY <1>3
      <3> QED
        BY <3>1, <3>2
    <2>2. link \in SUBSET (Sender \X Receiver)
      <3>1. ASSUME NEW z \in link PROVE z \in Sender \X Receiver
        <4>1. PICK x \in Sender, o \in Receiver : z = <<x, o>>
          BY <2>1
        <4> QED
          BY <4>1
      <3> QED
        BY <3>1
    <2>3. ASSUME NEW x \in Sender, NEW o \in Receiver, <<x, o>> \in link
          PROVE  \E y \in Sender : <<y, o>> \in book.link
      BY <2>1, <2>3
    <2>4. ASSUME NEW x \in Sender, NEW o \in Receiver, <<x, o>> \in book.link
          PROVE  <<IF x = s THEN t ELSE x, o>> \in link
      <3>1. PICK w \in book.link : w = <<x, o>>
        BY <2>4
      <3>2. w[1] = x /\ w[2] = o
        BY <3>1
      <3>3. (IF w[1] = s THEN <<t, w[2]>> ELSE w) \in link
        BY <1>1
      <3> QED
        BY <3>1, <3>2, <3>3
    <2> QED
      BY <2>2, <2>3, <2>4
  <1>10. Hangs(sends, book.org, book.home, book.strayed, book.seat, link, auth)
    <2>1. ASSUME NEW c \in auth
          PROVE  /\ c.at = c.to /\ c.from \in sends
                 /\ <<c.from, c.to>> \in link /\ <<c.at, c.who>> \in book.seat
      <3>1. PICK a \in book.auth : c = handed(a)
        BY <1>1
      <3>2. /\ a.at = a.to /\ a.from \in book.sends
            /\ <<a.from, a.to>> \in book.link /\ <<a.at, a.who>> \in book.seat
        BY <1>3 DEF Hangs
      <3>3. <<IF a.from = s THEN t ELSE a.from, a.to>> \in link
        BY <1>5, <1>9, <3>2
      <3>4. (IF a.from = s THEN t ELSE a.from) \in sends
        BY <1>1, <1>2, <3>2
      <3> QED
        BY <1>5, <3>1, <3>2, <3>3, <3>4
    <2>2. ASSUME NEW x \in Sender, NEW o \in Receiver, <<x, o>> \in link PROVE book.org[o].on
      BY <1>3, <1>9, <2>2 DEF Hangs
    <2> QED
      BY <1>3, <2>1, <2>2 DEF Hangs
  <1>11. sends \in SUBSET Sender /\ first \in SUBSET Authorization
    BY <1>1, <1>3, <1>7
  <1> QED
    BY <1>3, <1>4, <1>7, <1>8, <1>9, <1>10, <1>11, BookFields, BookMade DEF Coherent

LEMMA PartiesStart ==
    ASSUME PartiesInit
    PROVE  Coherent(book)
  <1>1. PICK org, home : org = [o \in Receiver |-> NoRow(TRUE)] /\ home = [p \in Person |-> NoHome]
    OBVIOUS
  <1>2. book = [sends |-> Sender, org |-> org, home |-> home, living |-> {}, strayed |-> {}, seat |-> {},
                link |-> {}, auth |-> {}, first |-> {}]
    BY <1>1 DEF PartiesInit
  <1>3. NoRow(TRUE) \in Structure /\ ~ NoRow(TRUE).on
    BY DEF NoRow, Structure
  <1>4. /\ org \in [Receiver -> Structure] /\ Organized(org)
        /\ home \in [Person -> Receiver \cup {NoHome}]
    BY <1>1, <1>3 DEF Organized
  <1>5. Hangs(Sender, org, home, {}, {}, {}, {}) /\ OneFirst({}, {})
    BY DEF Hangs, OneFirst
  <1> QED
    BY <1>2, <1>4, <1>5, BookMade

LEMMA PartiesStep ==
    ASSUME Coherent(book), [PartiesNext]_partyVars
    PROVE  Coherent(book')
  <1>1. CASE UNCHANGED partyVars
    BY <1>1 DEF partyVars
  <1>2. CASE PartiesNext
    <2>1. ASSUME NEW o \in Receiver, NEW p \in Person, NEW s \in Sender, NEW asDefault \in BOOLEAN,
                 PortalSync(s, o, p, asDefault)
          PROVE  Coherent(book')
      BY <2>1, PortalSyncKeeps
    <2>2. ASSUME NEW o \in Receiver, NEW p \in Person, NEW corr \in BOOLEAN,
                 NEW allowed \in SUBSET Sender, FormRecipient(o, p, corr, allowed)
          PROVE  Coherent(book')
      BY <2>2, FormRecipientKeeps
    <2>10. ASSUME NEW o \in Receiver, NEW p \in Person, NEW active \in BOOLEAN,
                  FormPerson(p, o, active)
           PROVE  Coherent(book')
      BY <2>10, FormPersonKeeps
    <2>3. ASSUME NEW o \in Receiver, DeactivateStructure(o) \/ SetCorrespondent(o)
          PROVE  Coherent(book')
      BY <2>3, DeactivateStructureKeeps, SetCorrespondentKeeps
    <2>4. ASSUME NEW p \in Person, DeactivatePerson(p) PROVE Coherent(book')
      BY <2>4, DeactivatePersonKeeps
    <2>5. ASSUME NEW a \in book.auth, SetDefault(a) PROVE Coherent(book')
      BY <2>5, SetDefaultKeeps
    <2>6. ASSUME NEW x \in Receiver \cup Person, NameCorrespondent(x) PROVE Coherent(book')
      BY <2>6, NameCorrespondentKeeps
    <2>7. ASSUME NEW o \in Receiver, NEW t \in Receiver,
                 CockpitMerge(o, t) \/ MergeIntoContact(o, t) \/ MergeRows(o, t)
          PROVE  Coherent(book')
      BY <2>7, CockpitMergeKeeps, MergeIntoContactKeeps, MergeRowsKeeps
    <2>8. ASSUME NEW p \in Person, NEW q \in Person, MergePersons(p, q) PROVE Coherent(book')
      BY <2>8, MergePersonsKeeps
    <2>9. ASSUME NEW s \in Sender, NEW t \in Sender, MergeShippers(s, t) PROVE Coherent(book')
      BY <2>9, MergeShippersKeeps
    <2> QED
      BY <1>2, <2>1, <2>2, <2>3, <2>4, <2>5, <2>6, <2>7, <2>8, <2>9, <2>10 DEF PartiesNext
  <1> QED
    BY <1>1, <1>2

\* A set whose elements are all equal has one at most.
LEMMA AtMostOne ==
    ASSUME NEW S, \A x, y \in S : x = y
    PROVE  Cardinality(S) <= 1
  <1>1. CASE S = {}
    BY <1>1, FS_EmptySet
  <1>2. CASE S # {}
    <2>1. PICK x : S = {x}
      BY <1>2
    <2> QED
      BY <2>1, FS_Singleton
  <1> QED
    BY <1>1, <1>2

LEMMA CoherentIs ==
    ASSUME Coherent(book)
    PROVE  PartiesTypeOK /\ PartiesCoherent
  <1>1. /\ book \in Book /\ OneFirst(book.auth, book.first) /\ Organized(book.org)
        /\ Hangs(book.sends, book.org, book.home, book.strayed, book.seat, book.link, book.auth)
    BY DEF Coherent
  <1>2. PartiesTypeOK
    BY <1>1, BookFields DEF PartiesTypeOK, OneFirst
  <1>3. \A s \in Sender, o \in Receiver : Cardinality(OnLink(book.first, s, o)) <= 1
    <2> TAKE s \in Sender, o \in Receiver
    <2>1. \A a, c \in OnLink(book.first, s, o) : a = c
      BY <1>1 DEF OnLink, OneFirst
    <2> QED
      BY <2>1, AtMostOne
  <1>4. Cardinality({o \in Receiver : book.org[o].on /\ book.org[o].corr}) <= 1
    <2>1. \A x, y \in {o \in Receiver : book.org[o].on /\ book.org[o].corr} : x = y
      BY <1>1 DEF Organized
    <2> QED
      BY <2>1, AtMostOne
  <1>5. book.seat \in SUBSET (Receiver \X Person) /\ book.link \in SUBSET (Sender \X Receiver)
    BY <1>1, BookFields
  <1>6. ASSUME NEW x \in book.seat
        PROVE  book.org[x[1]].on /\ (x[2] \notin book.strayed => book.home[x[2]] = x[1])
    <2>1. PICK o \in Receiver, p \in Person : x = <<o, p>>
      BY <1>5
    <2> QED
      BY <1>1, <2>1 DEF Hangs
  <1>7. ASSUME NEW l \in book.link PROVE book.org[l[2]].on
    <2>1. PICK s \in Sender, o \in Receiver : l = <<s, o>>
      BY <1>5
    <2> QED
      BY <1>1, <2>1 DEF Hangs
  <1>8. \A o \in Receiver : ~book.org[o].on =>
           (\A x \in book.seat : x[1] # o) /\ (\A l \in book.link : l[2] # o)
    BY <1>6, <1>7
  <1> QED
    BY <1>1, <1>2, <1>3, <1>4, <1>6, <1>8 DEF PartiesCoherent, Hangs

\* The portal, the contact form, the cockpit, the merges and the hooks: who may send
\* what to whom stays coherent.
THEOREM PartiesStayCoherent == PartiesSpec => [](PartiesTypeOK /\ PartiesCoherent)
  <1>1. PartiesInit => Coherent(book)
    BY PartiesStart
  <1>2. Coherent(book) /\ [PartiesNext]_partyVars => Coherent(book)'
    BY PartiesStep
  <1>3. Coherent(book) => PartiesTypeOK /\ PartiesCoherent
    BY CoherentIs
  <1> QED
    BY <1>1, <1>2, <1>3, PTL DEF PartiesSpec

\* merge_contacts and merge_shipment_recipient_organizations: no authorization is lost,
\* and no default but those of links that the cockpit's merge moves.
THEOREM MergesLoseNothing == PartiesSpec => MergesKeepAuthorizations
  <1> DEFINE kept == \A o, t \in Receiver :
           LET contacts == MergeIntoContact(o, t) \/ MergeRows(o, t)
               cockpit == CockpitMerge(o, t)
           IN ~book'.org[o].alive =>
              /\ ~AuthorizationsKept(o, t) => ~contacts /\ ~cockpit
              /\ \A s \in Sender :
                     /\ ~DefaultKept(s, o, t) =>
                            ~contacts /\ (<<s, t>> \in book.link => ~cockpit)
                     /\ <<s, t>> \notin book.link /\ s # DefaultSender
                            /\ OnLink(book'.first, s, t) # {} => ~cockpit
  <1>1. PartiesInit => Coherent(book)
    BY PartiesStart
  <1>2. Coherent(book) /\ [PartiesNext]_partyVars => Coherent(book)'
    BY PartiesStep
  <1>3. Coherent(book) => kept
    <2> SUFFICES ASSUME Coherent(book), NEW o \in Receiver, NEW t \in Receiver
                 PROVE  /\ MergeIntoContact(o, t) \/ MergeRows(o, t) => LosesNothing(o, t)
                        /\ CockpitMerge(o, t) => LosesMoved(o, t)
      BY DEF LosesNothing, LosesMoved
    <2> QED
      BY MergeIntoContactKeeps, MergeRowsKeeps, CockpitMergeKeeps
  <1>4. Coherent(book) /\ [PartiesNext]_partyVars => [kept]_partyVars
    BY <1>3
  <1> HIDE DEF kept
  <1>5. PartiesSpec => [][kept]_partyVars
    BY <1>1, <1>2, <1>4, PTL DEF PartiesSpec
  <1> QED
    BY <1>5 DEF kept, MergesKeepAuthorizations

-------------------------------------------------------------------------------
(***************************************************************************)
(* The kits. What a product comes down to is proved for every set of       *)
(* products that were passed on the way down, from the largest set to none; *)
(* what the forms keep is that the rows have no cycle.                     *)
(***************************************************************************)
\* How many of each product each kit holds, in the rows of the database.
KitRows == [Product -> [Product -> Nat]]

\* The ways down from k that pass by no product of A, each product once.
Past(rows, A, k) ==
    {w \in UNION {[1..n -> Product] : n \in 1..Cardinality(Product)} :
        /\ w[1] = k /\ IsInjective(w)
        /\ \A i \in 1..Len(w) - 1 : rows[w[i]][w[i + 1]] > 0
        /\ \A i \in DOMAIN w : w[i] \notin A}

Along(rows, w, n) ==
    /\ w \in [1..n -> Product]
    /\ \A i, j \in 1..n : w[i] = w[j] => i = j
    /\ \A i \in 1..n : i + 1 \in 1..n => rows[w[i]][w[i + 1]] > 0

LEMMA LenIs ==
    ASSUME NEW S, NEW n \in Nat, NEW w \in [1..n -> S]
    PROVE  Len(w) = n /\ w \in Seq(S) /\ DOMAIN w = 1..n
  OBVIOUS

LEMMA PastIs ==
    ASSUME NEW rows, NEW A, NEW k, NEW w, w \in Past(rows, A, k)
    PROVE  \E n \in 1..Cardinality(Product) :
              /\ Along(rows, w, n) /\ Len(w) = n /\ w[1] = k /\ DOMAIN w = 1..n
              /\ \A i \in 1..n : w[i] \notin A
  <1>1. PICK n \in 1..Cardinality(Product) : w \in [1..n -> Product]
    BY DEF Past
  <1>2. n \in Nat
    BY <1>1, KitsAssumption, FS_CardinalityType
  <1>3. Len(w) = n /\ DOMAIN w = 1..n
    BY <1>1, <1>2, LenIs
  <1>4. /\ w[1] = k /\ IsInjective(w)
        /\ \A i \in 1..n - 1 : rows[w[i]][w[i + 1]] > 0
        /\ \A i \in 1..n : w[i] \notin A
    BY <1>3 DEF Past
  <1>5. \A i \in 1..n : i + 1 \in 1..n => i \in 1..n - 1
    BY <1>2
  <1>6. Along(rows, w, n)
    BY <1>1, <1>3, <1>4, <1>5 DEF Along, IsInjective
  <1> QED BY <1>3, <1>4, <1>6

\* A way is no longer than there are products.
LEMMA WayShort ==
    ASSUME NEW rows, NEW w, NEW n \in Nat, Along(rows, w, n)
    PROVE  n <= Cardinality(Product)
  <1>1. w \in Injection(1..n, Product)
    BY DEF Along, Injection, IsInjective
  <1>2. Cardinality(1..n) <= Cardinality(Product)
    BY <1>1, KitsAssumption, FS_Injection
  <1>3. Cardinality(1..n) = n
    BY FS_Interval
  <1> QED BY <1>2, <1>3

LEMMA IsPast ==
    ASSUME NEW rows, NEW A, NEW k, NEW w, NEW n \in Nat \ {0}, Along(rows, w, n), w[1] = k,
           \A i \in 1..n : w[i] \notin A
    PROVE  w \in Past(rows, A, k)
  <1>1. n \in 1..Cardinality(Product)
    BY WayShort, KitsAssumption, FS_CardinalityType
  <1>2. w \in [1..n -> Product]
    BY DEF Along
  <1>3. Len(w) = n /\ DOMAIN w = 1..n
    BY <1>2, LenIs
  <1>4. \A i \in 1..n - 1 : i \in 1..n /\ i + 1 \in 1..n
    OBVIOUS
  <1>5. IsInjective(w) /\ \A i \in 1..n - 1 : rows[w[i]][w[i + 1]] > 0
    BY <1>3, <1>4 DEF Along, IsInjective
  <1> QED BY <1>1, <1>2, <1>3, <1>5 DEF Past

\* The way of k alone, k before a way, and a way without where it starts.
JustHere(k) == [i \in 1..1 |-> k]
Prepended(k, w) == [i \in 1..Len(w) + 1 |-> IF i = 1 THEN k ELSE w[i - 1]]
Rest(w) == [i \in 1..Len(w) - 1 |-> w[i + 1]]

LEMMA JustHerePast ==
    ASSUME NEW rows, NEW A, NEW k \in Product, k \notin A
    PROVE  /\ JustHere(k) \in Past(rows, A, k) /\ Len(JustHere(k)) = 1 /\ JustHere(k)[1] = k
           /\ DOMAIN JustHere(k) = 1..1
  <1>1. Along(rows, JustHere(k), 1)
    BY DEF Along, JustHere
  <1>2. \A i \in 1..1 : JustHere(k)[i] = k
    BY DEF JustHere
  <1>3. JustHere(k) \in [1..1 -> Product]
    BY DEF JustHere
  <1>4. JustHere(k) \in Past(rows, A, k)
    BY <1>1, <1>2, IsPast
  <1> QED BY <1>2, <1>3, <1>4, LenIs

Leads(rows, A, k, q, w, x) ==
    /\ k \in Product /\ k \notin A /\ q \in Product /\ rows[k][q] > 0
    /\ w \in Past(rows, A \cup {k}, q) /\ x = Prepended(k, w)

LEMMA PrependedPast ==
    ASSUME NEW rows, NEW A, NEW k, NEW q, NEW w, NEW x, Leads(rows, A, k, q, w, x)
    PROVE  /\ x \in Past(rows, A, k) /\ Len(x) = Len(w) + 1 /\ x[Len(x)] = w[Len(w)]
           /\ Len(w) \in Nat \ {0} /\ x[1] = k
           /\ \A i \in 1..Len(w) : x[i + 1] = w[i]
           /\ Rest(x) = w
  <1>0. /\ k \in Product /\ k \notin A /\ q \in Product /\ rows[k][q] > 0
        /\ w \in Past(rows, A \cup {k}, q) /\ x = Prepended(k, w)
    BY DEF Leads
  <1>1. PICK n \in 1..Cardinality(Product) :
              /\ Along(rows, w, n) /\ Len(w) = n /\ w[1] = q /\ DOMAIN w = 1..n
              /\ \A i \in 1..n : w[i] \notin A \cup {k}
    BY <1>0, PastIs
  <1>2. n \in Nat \ {0}
    BY <1>1, KitsAssumption, FS_CardinalityType
  <1>3. w \in [1..n -> Product]
    BY <1>1 DEF Along
  <1>4. x = [i \in 1..n + 1 |-> IF i = 1 THEN k ELSE w[i - 1]]
    BY <1>0, <1>1 DEF Prepended
  <1>5. x \in [1..n + 1 -> Product]
    BY <1>0, <1>2, <1>3, <1>4
  <1>6. x[1] = k /\ \A i \in 1..n : x[i + 1] = w[i]
    BY <1>2, <1>4
  <1>7. \A i \in 1..n + 1 : i # 1 => i - 1 \in 1..n /\ x[i] = w[i - 1]
    BY <1>2, <1>4
  <1>8. ASSUME NEW i \in 1..n + 1 PROVE x[i] \notin A
    BY <1>0, <1>1, <1>6, <1>7
  <1>9. ASSUME NEW i \in 1..n + 1, NEW j \in 1..n + 1, x[i] = x[j] PROVE i = j
    <2>1. CASE i = 1 /\ j # 1
      BY <1>1, <1>6, <1>7, <1>9, <2>1
    <2>2. CASE i # 1 /\ j = 1
      BY <1>1, <1>6, <1>7, <1>9, <2>2
    <2>3. CASE i # 1 /\ j # 1
      <3>1. i - 1 \in 1..n /\ j - 1 \in 1..n /\ w[i - 1] = w[j - 1]
        BY <1>7, <1>9, <2>3
      <3>2. i - 1 = j - 1
        BY <1>1, <3>1 DEF Along
      <3> QED BY <3>2
    <2> QED BY <2>1, <2>2, <2>3
  <1>10. ASSUME NEW i \in 1..n + 1, i + 1 \in 1..n + 1 PROVE rows[x[i]][x[i + 1]] > 0
    <2>1. CASE i = 1
      <3>1. x[1] = k /\ x[1 + 1] = w[1] /\ w[1] = q
        BY <1>1, <1>2, <1>6
      <3> QED BY <1>0, <2>1, <3>1
    <2>2. CASE i # 1
      <3>1. i - 1 \in 1..n /\ i \in 1..n /\ (i - 1) + 1 = i
        BY <1>2, <1>10, <2>2
      <3>2. x[i] = w[i - 1] /\ x[i + 1] = w[i]
        BY <1>6, <1>7, <2>2, <3>1
      <3>3. rows[w[i - 1]][w[i]] > 0
        BY <1>1, <3>1 DEF Along
      <3> QED BY <3>2, <3>3
    <2> QED BY <2>1, <2>2
  <1>11. Along(rows, x, n + 1)
    BY <1>5, <1>9, <1>10 DEF Along
  <1>12. n + 1 \in Nat \ {0}
    BY <1>2
  <1>13. x \in Past(rows, A, k)
    BY <1>6, <1>8, <1>11, <1>12, IsPast
  <1>14. Len(x) = n + 1
    BY <1>5, <1>12, LenIs
  <1>15. Rest(x) = w
    <2>1. Rest(x) = [i \in 1..n |-> x[i + 1]]
      BY <1>2, <1>14 DEF Rest
    <2> QED BY <1>3, <1>6, <2>1
  <1>16. x[n + 1] = w[n]
    BY <1>2, <1>6
  <1> QED BY <1>1, <1>2, <1>6, <1>13, <1>14, <1>15, <1>16

\* A way that is longer goes on from a product that k holds.
LEMMA RestPast ==
    ASSUME NEW rows, NEW A, NEW k \in Product, k \notin A, NEW x, x \in Past(rows, A, k), Len(x) # 1
    PROVE  Leads(rows, A, k, x[2], Rest(x), x) /\ x[2] \notin A \cup {k}
  <1> DEFINE w == Rest(x)  q == x[2]
  <1>1. PICK n \in 1..Cardinality(Product) :
              /\ Along(rows, x, n) /\ Len(x) = n /\ x[1] = k /\ DOMAIN x = 1..n
              /\ \A i \in 1..n : x[i] \notin A
    BY PastIs
  <1>2. n \in Nat \ {0} /\ n # 1
    BY <1>1, KitsAssumption, FS_CardinalityType
  <1>3. x \in [1..n -> Product] /\ \A i, j \in 1..n : x[i] = x[j] => i = j
    BY <1>1 DEF Along
  <1>4. PICK m \in Nat \ {0} : n = m + 1
    <2>1. n - 1 \in Nat \ {0} /\ n = (n - 1) + 1
      BY <1>2
    <2> QED BY <2>1
  <1>5. w = [i \in 1..m |-> x[i + 1]]
    BY <1>1, <1>4 DEF Rest
  <1>6. \A i \in 1..m : i \in 1..n /\ i + 1 \in 1..n /\ i + 1 # 1
    BY <1>4
  <1>7. w \in [1..m -> Product] /\ \A i \in 1..m : w[i] = x[i + 1]
    BY <1>3, <1>5, <1>6
  <1>8. 1 \in 1..m /\ 1 \in 1..n /\ 2 \in 1..n /\ 1 + 1 = 2
    BY <1>4
  <1> HIDE DEF w
  <1>9. w[1] = q /\ q \in Product
    BY <1>3, <1>7, <1>8
  <1>10. rows[k][q] > 0
    BY <1>1, <1>8 DEF Along
  <1>11. \A i \in 1..m : w[i] \notin A \cup {k}
    BY <1>1, <1>3, <1>6, <1>7, <1>8
  <1>12. ASSUME NEW i \in 1..m, NEW j \in 1..m, w[i] = w[j] PROVE i = j
    <2>1. i + 1 = j + 1
      BY <1>3, <1>6, <1>7, <1>12
    <2> QED BY <2>1
  <1>13. ASSUME NEW i \in 1..m, i + 1 \in 1..m PROVE rows[w[i]][w[i + 1]] > 0
    <2>1. i + 1 \in 1..n /\ (i + 1) + 1 \in 1..n
      BY <1>6, <1>13
    <2>2. rows[x[i + 1]][x[(i + 1) + 1]] > 0
      BY <1>1, <2>1 DEF Along
    <2> QED BY <1>7, <1>13, <2>2
  <1>14. Along(rows, w, m)
    BY <1>7, <1>12, <1>13 DEF Along
  <1>15. w \in Past(rows, A \cup {k}, q)
    BY <1>9, <1>11, <1>14, IsPast
  <1>16. Prepended(k, w) = x
    <2>1. Len(w) = m
      BY <1>7, LenIs
    <2>2. Prepended(k, w) = [i \in 1..n |-> IF i = 1 THEN k ELSE w[i - 1]]
      BY <1>4, <2>1 DEF Prepended
    <2>3. ASSUME NEW i \in 1..n PROVE (IF i = 1 THEN k ELSE w[i - 1]) = x[i]
      <3>1. CASE i = 1
        BY <1>1, <3>1
      <3>2. CASE i # 1
        <4>1. i - 1 \in 1..m /\ (i - 1) + 1 = i
          BY <1>4, <3>2
        <4> QED BY <1>7, <3>2, <4>1
      <3> QED BY <3>1, <3>2
    <2> QED BY <1>3, <2>2, <2>3
  <1>17. q \notin A \cup {k}
    BY <1>8, <1>9, <1>11
  <1> QED BY <1>9, <1>10, <1>15, <1>16, <1>17 DEF w, Leads

LEMMA OneLongIs ==
    ASSUME NEW rows, NEW A, NEW k \in Product, NEW x \in Past(rows, A, k), Len(x) = 1
    PROVE  x = JustHere(k)
  <1>1. PICK n \in 1..Cardinality(Product) : Along(rows, x, n) /\ Len(x) = n /\ x[1] = k
    BY PastIs
  <1>2. x \in [1..1 -> Product]
    BY <1>1 DEF Along
  <1> QED BY <1>1, <1>2 DEF JustHere

\* The product of the quantities on a way.
Weight(rows, w) ==
    LET upto[n \in 0..Len(w) - 1] == IF n = 0 THEN 1 ELSE upto[n - 1] * rows[w[n]][w[n + 1]]
    IN  upto[Len(w) - 1]

Multiplies(f, rows, w, m) ==
    /\ f \in [0..m -> Nat] /\ f[0] = 1
    /\ \A n \in 1..m : f[n] = f[n - 1] * rows[w[n]][w[n + 1]]

LEMMA WeightIs ==
    ASSUME NEW rows \in KitRows, NEW m \in Nat, NEW w \in [1..m + 1 -> Product]
    PROVE  \E f : Multiplies(f, rows, w, m) /\ Weight(rows, w) = f[m]
  <1> DEFINE body(g) == [n \in 0..m |-> IF n = 0 THEN 1 ELSE g[n - 1] * rows[w[n]][w[n + 1]]]
             iter == CHOOSE g : g = body(g)
             step == [z \in (1..m) \X Nat |-> z[2] * rows[w[z[1]]][w[z[1] + 1]]]
  <1>1. Len(w) - 1 = m
    <2>1. m + 1 \in Nat
      OBVIOUS
    <2>2. Len(w) = m + 1
      BY <2>1, LenIs
    <2> QED BY <2>2
  <1>2. Weight(rows, w) = iter[m]
    BY <1>1 DEF Weight
  <1>3. \A n \in 1..m : rows[w[n]][w[n + 1]] \in Nat
    <2>1. \A n \in 1..m : n \in 1..m + 1 /\ n + 1 \in 1..m + 1
      OBVIOUS
    <2> QED BY <2>1 DEF KitRows
  <1>4. step \in [(1..m) \X Nat -> Nat]
    BY <1>3
  <1>5. \A n \in 1..m : \A v \in Nat : step[<<n, v>>] = v * rows[w[n]][w[n + 1]]
    OBVIOUS
  <1> HIDE DEF step
  <1>6. PICK f \in [0..m -> Nat] : f[0] = 1 /\ \A n \in 1..m : f[n] = step[<<n, f[n - 1]>>]
    <2>1. StepsUp(m, Nat, 1, step)
      BY <1>4 DEF StepsUp
    <2>2. PICK f : Climbs(f, m, Nat, 1, step)
      BY <2>1, UpRecursion
    <2> QED BY <2>2 DEF Climbs
  <1>7. \A n \in 1..m : n - 1 \in 0..m
    OBVIOUS
  <1>8. \A n \in 1..m : f[n] = f[n - 1] * rows[w[n]][w[n + 1]]
    BY <1>5, <1>6, <1>7
  <1>9. f = body(f)
    <2>1. \A n \in 0..m : n # 0 => n \in 1..m
      OBVIOUS
    <2>2. \A n \in 0..m : f[n] = IF n = 0 THEN 1 ELSE f[n - 1] * rows[w[n]][w[n + 1]]
      BY <1>6, <1>8, <2>1
    <2> QED BY <1>6, <2>2
  <1>10. iter = body(iter)
    <2> HIDE DEF body
    <2> QED BY <1>9
  <1> HIDE DEF iter
  <1>11. /\ iter[0] = 1 /\ \A n \in 1..m : iter[n] = iter[n - 1] * rows[w[n]][w[n + 1]]
         /\ DOMAIN iter = 0..m /\ iter = [n \in 0..m |-> iter[n]]
    <2>1. \A n \in 0..m : iter[n] = IF n = 0 THEN 1 ELSE iter[n - 1] * rows[w[n]][w[n + 1]]
      BY <1>10
    <2>2. 0 \in 0..m /\ \A n \in 1..m : n \in 0..m /\ n # 0
      OBVIOUS
    <2>3. DOMAIN iter = 0..m /\ iter = [n \in 0..m |-> iter[n]]
      BY <1>10
    <2> HIDE DEF body
    <2> QED BY <2>1, <2>2, <2>3
  <1> HIDE DEF body
  <1>12. \A n \in 0..m : iter[n] \in Nat
    <2> DEFINE P == {n \in Nat : n <= m => iter[n] \in Nat}
    <2>1. 0 \in P
      BY <1>11
    <2>2. ASSUME NEW n \in Nat, n \in P PROVE n + 1 \in P
      <3>1. CASE n + 1 <= m
        <4>1. n + 1 \in 1..m /\ (n + 1) - 1 = n /\ iter[n] \in Nat
          BY <2>2, <3>1
        <4>2. iter[n + 1] = iter[n] * rows[w[n + 1]][w[(n + 1) + 1]]
          BY <1>11, <4>1
        <4>3. rows[w[n + 1]][w[(n + 1) + 1]] \in Nat
          BY <1>3, <4>1
        <4>4. iter[n + 1] \in Nat
          <5> DEFINE a == iter[n]  b == rows[w[n + 1]][w[(n + 1) + 1]]
          <5>1. iter[n + 1] = a * b /\ a \in Nat /\ b \in Nat
            BY <4>1, <4>2, <4>3
          <5> HIDE DEF a, b
          <5> QED BY <5>1
        <4> QED BY <4>4
      <3>2. CASE ~ (n + 1 <= m)
        BY <3>2
      <3> QED BY <3>1, <3>2
    <2> HIDE DEF P
    <2>3. \A n \in Nat : n \in P
      BY <2>1, <2>2, CountUp
    <2>4. \A n \in 0..m : n \in Nat /\ n <= m
      OBVIOUS
    <2> QED BY <2>3, <2>4 DEF P
  <1>13. Multiplies(iter, rows, w, m)
    <2>1. iter \in [0..m -> Nat]
      BY <1>11, <1>12
    <2> QED BY <1>11, <2>1 DEF Multiplies
  <1> QED BY <1>2, <1>13

LEMMA WeightOfOne ==
    ASSUME NEW rows \in KitRows, NEW k \in Product
    PROVE  Weight(rows, JustHere(k)) = 1
  <1>1. 0 \in Nat /\ JustHere(k) \in [1..0 + 1 -> Product]
    BY DEF JustHere
  <1>2. PICK f : Multiplies(f, rows, JustHere(k), 0) /\ Weight(rows, JustHere(k)) = f[0]
    BY <1>1, WeightIs
  <1> QED BY <1>2 DEF Multiplies

LEMMA WeightAfter ==
    ASSUME NEW rows \in KitRows, NEW A, NEW k, NEW q, NEW w, NEW x, Leads(rows, A, k, q, w, x)
    PROVE  Weight(rows, w) \in Nat /\ Weight(rows, x) = rows[k][q] * Weight(rows, w)
  <1>0. k \in Product /\ q \in Product /\ w \in Past(rows, A \cup {k}, q)
    BY DEF Leads
  <1>1. /\ x \in Past(rows, A, k) /\ Len(x) = Len(w) + 1 /\ Len(w) \in Nat \ {0} /\ x[1] = k
        /\ \A i \in 1..Len(w) : x[i + 1] = w[i]
    BY PrependedPast
  <1>2. PICK m \in Nat : Len(w) = m + 1
    <2>1. Len(w) - 1 \in Nat /\ Len(w) = (Len(w) - 1) + 1
      BY <1>1
    <2> QED BY <2>1
  <1>3. w \in [1..m + 1 -> Product] /\ w[1] = q
    <2>1. PICK n \in 1..Cardinality(Product) : Along(rows, w, n) /\ Len(w) = n /\ w[1] = q
      BY <1>0, PastIs
    <2> QED BY <1>2, <2>1 DEF Along
  <1>4. x \in [1..(m + 1) + 1 -> Product] /\ m + 1 \in Nat
    <2>1. PICK n \in 1..Cardinality(Product) : Along(rows, x, n) /\ Len(x) = n
      BY <1>1, PastIs
    <2> QED BY <1>1, <1>2, <2>1 DEF Along
  <1>5. PICK f : Multiplies(f, rows, w, m) /\ Weight(rows, w) = f[m]
    BY <1>3, WeightIs
  <1>6. PICK g : Multiplies(g, rows, x, m + 1) /\ Weight(rows, x) = g[m + 1]
    BY <1>4, WeightIs
  <1>7. /\ f[0] = 1 /\ \A n \in 1..m : f[n] = f[n - 1] * rows[w[n]][w[n + 1]]
        /\ \A n \in 0..m : f[n] \in Nat
    BY <1>5 DEF Multiplies
  <1>8. g[0] = 1 /\ \A n \in 1..m + 1 : g[n] = g[n - 1] * rows[x[n]][x[n + 1]]
    BY <1>6 DEF Multiplies
  <1>9. rows[k][q] \in Nat
    BY <1>0 DEF KitRows
  <1> DEFINE c == rows[k][q]
             P == {n \in Nat : n <= m => g[n + 1] = c * f[n]}
  <1>10. 0 \in P
    <2>1. 1 \in 1..m + 1 /\ 1 \in 1..Len(w) /\ 1 - 1 = 0 /\ 0 + 1 = 1
      BY <1>2
    <2>2. g[1] = g[0] * rows[x[1]][x[1 + 1]] /\ x[1 + 1] = w[1]
      BY <1>1, <1>8, <2>1
    <2>3. g[1] = 1 * c /\ f[0] = 1
      BY <1>1, <1>3, <1>7, <1>8, <2>2
    <2> HIDE DEF c
    <2>4. c \in Nat
      BY <1>9 DEF c
    <2> QED BY <2>1, <2>3, <2>4
  <1>11. ASSUME NEW n \in Nat, n \in P PROVE n + 1 \in P
    <2>1. CASE n + 1 <= m
      <3>1. n + 1 \in 1..m /\ (n + 1) - 1 = n /\ n \in 0..m /\ g[n + 1] = c * f[n]
        BY <1>11, <2>1
      <3>2. (n + 1) + 1 \in 1..m + 1 /\ ((n + 1) + 1) - 1 = n + 1
        BY <3>1
      <3>3. n + 1 \in 1..Len(w) /\ (n + 1) + 1 \in 1..Len(w)
        BY <1>2, <3>1
      <3>4. x[(n + 1) + 1] = w[n + 1] /\ x[((n + 1) + 1) + 1] = w[(n + 1) + 1]
        BY <1>1, <3>3
      <3> DEFINE r == rows[w[n + 1]][w[(n + 1) + 1]]  a == f[n]
      <3>5. r \in Nat /\ a \in Nat /\ c \in Nat
        <4>1. w[n + 1] \in Product /\ w[(n + 1) + 1] \in Product
          BY <1>2, <1>3, <3>3
        <4> QED BY <1>7, <1>9, <3>1, <4>1 DEF KitRows
      <3>6. g[(n + 1) + 1] = (c * a) * r
        BY <1>8, <3>1, <3>2, <3>4
      <3>7. f[n + 1] = a * r
        BY <1>7, <3>1
      <3> HIDE DEF a, r, c
      <3>8. g[(n + 1) + 1] = c * f[n + 1]
        BY <3>5, <3>6, <3>7
      <3> QED BY <3>8
    <2>2. CASE ~ (n + 1 <= m)
      BY <2>2
    <2> QED BY <2>1, <2>2
  <1>12. m \in P
    <2> HIDE DEF P
    <2> QED BY <1>10, <1>11, CountUp
  <1>13. g[m + 1] = c * f[m]
    BY <1>12
  <1> QED BY <1>5, <1>6, <1>7, <1>13

\* One level of get_unit_component_quantities, on what u has for the levels below.
Tally == [ok : BOOLEAN, of : [Product -> Nat]]
Cycle == [ok |-> FALSE, of |-> [p \in Product |-> 0]]
Adding(rows, below, k, p) == SumFunction([q \in PartsOf(rows, k) |-> rows[k][q] * below[q].of[p]])
Level(rows, A, k, below) ==
    IF k \in A \/ \E q \in PartsOf(rows, k) : ~below[q].ok THEN Cycle
    ELSE [ok |-> TRUE,
          of |-> [p \in Product |-> IF PartsOf(rows, k) = {} THEN IF p = k THEN 1 ELSE 0
                                    ELSE Adding(rows, below, k, p)]]

LEMMA PartsFacts ==
    ASSUME NEW rows \in KitRows, NEW k \in Product
    PROVE  /\ IsFiniteSet(PartsOf(rows, k)) /\ PartsOf(rows, k) \in SUBSET Product
           /\ \A q \in Product : rows[k][q] \in Nat
           /\ \A q \in Product : q \in PartsOf(rows, k) <=> rows[k][q] > 0
  <1>1. PartsOf(rows, k) \in SUBSET Product
    BY DEF PartsOf
  <1>2. IsFiniteSet(PartsOf(rows, k))
    BY <1>1, KitsAssumption, FS_Subset
  <1> QED BY <1>1, <1>2 DEF PartsOf, KitRows

LEMMA AddingTyped ==
    ASSUME NEW rows \in KitRows, NEW k \in Product, NEW below \in [Product -> Tally], NEW p \in Product
    PROVE  Adding(rows, below, k, p) \in Nat
  <1> DEFINE held == PartsOf(rows, k)
             sizes == [q \in held |-> rows[k][q] * below[q].of[p]]
  <1>1. IsFiniteSet(held) /\ held \in SUBSET Product /\ \A q \in Product : rows[k][q] \in Nat
    BY PartsFacts
  <1>2. ASSUME NEW q \in held PROVE rows[k][q] * below[q].of[p] \in Nat
    <2>1. PICK a, b : a = rows[k][q] /\ b = below[q].of[p]
      OBVIOUS
    <2>2. a \in Nat /\ b \in Nat
      BY <1>1, <2>1 DEF Tally
    <2>3. a * b \in Nat
      BY <2>2
    <2> QED BY <2>1, <2>3
  <1>3. sizes \in [held -> Nat]
    BY <1>2
  <1>4. Adding(rows, below, k, p) = SumFunction(sizes)
    BY DEF Adding
  <1> HIDE DEF sizes, held
  <1> QED BY <1>1, <1>3, <1>4, SumIsHeap

LEMMA LevelTyped ==
    ASSUME NEW rows \in KitRows, NEW A, NEW k \in Product, NEW below,
           k \notin A => below \in [Product -> Tally]
    PROVE  Level(rows, A, k, below) \in Tally
  <1>1. Cycle \in Tally
    BY DEF Cycle, Tally
  <1>2. ASSUME k \notin A PROVE \A p \in Product : Adding(rows, below, k, p) \in Nat
    BY <1>2, AddingTyped
  <1>3. CASE k \in A \/ \E q \in PartsOf(rows, k) : ~below[q].ok
    BY <1>1, <1>3 DEF Level
  <1>4. CASE ~ (k \in A \/ \E q \in PartsOf(rows, k) : ~below[q].ok)
    <2>1. \A p \in Product : (IF PartsOf(rows, k) = {} THEN IF p = k THEN 1 ELSE 0
                              ELSE Adding(rows, below, k, p)) \in Nat
      BY <1>2, <1>4
    <2> QED BY <1>4, <2>1 DEF Level, Tally
  <1> QED BY <1>3, <1>4

\* What the function in UnitQuantities does.
Unit(u, rows) ==
    /\ \A A \in SUBSET Product : u[A] \in [Product -> Tally]
    /\ \A A \in SUBSET Product : \A k \in Product : u[A][k] = Level(rows, A, k, u[A \cup {k}])
    /\ \A k \in Product : UnitQuantities(rows, k) = u[{}][k]

LEMMA UnitExists ==
    ASSUME NEW rows \in KitRows
    PROVE  \E u : Unit(u, rows)
  <1> DEFINE S == SUBSET Product
             V == [Product -> Tally]
             cycle == [ok |-> FALSE, of |-> [p \in Product |-> 0]]
             body(g) == [above \in SUBSET Product |-> [k \in Product |->
                 IF k \in above \/ \E q \in PartsOf(rows, k) : ~g[above \cup {k}][q].ok THEN cycle
                 ELSE [ok |-> TRUE,
                       of |-> [p \in Product |->
                                 IF PartsOf(rows, k) = {} THEN IF p = k THEN 1 ELSE 0
                                 ELSE SumFunction([q \in PartsOf(rows, k) |->
                                                     rows[k][q] * g[above \cup {k}][q].of[p]])]]]]
             iter == CHOOSE g : g = body(g)
             step == [z \in S \X [S -> V] |-> [k \in Product |-> Level(rows, z[1], k, z[2][z[1] \cup {k}])]]
  <1>1. ASSUME NEW k \in Product PROVE UnitQuantities(rows, k) = iter[{}][k]
    BY DEF UnitQuantities
  <1>2. ASSUME NEW g
        PROVE  body(g) = [A \in S |-> [k \in Product |-> Level(rows, A, k, g[A \cup {k}])]]
    BY DEF Level, Cycle, Adding
  <1> HIDE DEF body
  <1>3. ASSUME NEW A \in S, NEW g \in [S -> V], NEW k \in Product
        PROVE  Level(rows, A, k, g[A \cup {k}]) \in Tally
    <2>1. A \cup {k} \in S
      OBVIOUS
    <2>2. g[A \cup {k}] \in V
      BY <2>1
    <2> QED BY <2>2, LevelTyped
  <1>4. step \in [S \X [S -> V] -> V]
    BY <1>3
  <1>5. \A A \in S : \A g \in [S -> V] : step[<<A, g>>] = [k \in Product |-> Level(rows, A, k, g[A \cup {k}])]
    OBVIOUS
  <1> HIDE DEF step
  <1>6. ASSUME NEW A \in S, NEW g \in [S -> V], NEW h \in [S -> V], Larger(Product, A, g, h)
        PROVE  step[<<A, g>>] = step[<<A, h>>]
    <2>1. ASSUME NEW k \in Product
          PROVE  Level(rows, A, k, g[A \cup {k}]) = Level(rows, A, k, h[A \cup {k}])
      <3>1. CASE k \in A
        BY <3>1 DEF Level
      <3>2. CASE k \notin A
        <4>1. A \cup {k} \in SUBSET Product /\ A \subseteq A \cup {k} /\ A # A \cup {k}
          BY <3>2
        <4>2. g[A \cup {k}] = h[A \cup {k}]
          BY <1>6, <4>1 DEF Larger
        <4> QED BY <4>2
      <3> QED BY <3>1, <3>2
    <2>2. [k \in Product |-> Level(rows, A, k, g[A \cup {k}])]
            = [k \in Product |-> Level(rows, A, k, h[A \cup {k}])]
      BY <2>1
    <2>3. /\ step[<<A, g>>] = [k \in Product |-> Level(rows, A, k, g[A \cup {k}])]
          /\ step[<<A, h>>] = [k \in Product |-> Level(rows, A, k, h[A \cup {k}])]
      BY <1>5
    <2> QED BY <2>2, <2>3
  <1>7. PICK g \in [S -> V] : \A A \in S : g[A] = step[<<A, g>>]
    <2>1. PICK some : some \in V
      <3>1. [k \in Product |-> Cycle] \in V
        BY DEF Cycle, Tally
      <3> QED BY <3>1
    <2>2. Descends(Product, V, step)
      BY <1>4, <1>6, <2>1 DEF Descends
    <2>3. PICK g : Descended(g, Product, V, step)
      BY <2>2, KitsAssumption, DownRecursion
    <2> QED BY <2>3 DEF Descended
  <1>8. g = body(g)
    <2>1. g = [A \in S |-> g[A]]
      OBVIOUS
    <2>2. \A A \in S : g[A] = [k \in Product |-> Level(rows, A, k, g[A \cup {k}])]
      BY <1>5, <1>7
    <2> QED BY <1>2, <2>1, <2>2
  <1>9. iter = body(iter)
    BY <1>8
  <1> HIDE DEF iter
  <1>10. \A A \in S : iter[A] = [k \in Product |-> Level(rows, A, k, iter[A \cup {k}])]
    <2>1. iter = [A \in S |-> [k \in Product |-> Level(rows, A, k, iter[A \cup {k}])]]
      BY <1>2, <1>9
    <2> QED BY <2>1
  <1>11. \A A \in S : iter[A] \in V
    <2> DEFINE P == {A \in S : iter[A] \in V}
    <2>1. ASSUME NEW A \in S, \A B \in S : A \subseteq B /\ A # B => B \in P
          PROVE  A \in P
      <3>1. ASSUME NEW k \in Product PROVE Level(rows, A, k, iter[A \cup {k}]) \in Tally
        <4>1. k \notin A => iter[A \cup {k}] \in [Product -> Tally]
          <5>1. A \cup {k} \in S /\ A \subseteq A \cup {k} /\ (k \notin A => A # A \cup {k})
            OBVIOUS
          <5> QED BY <2>1, <5>1
        <4> QED BY <4>1, LevelTyped
      <3>2. [k \in Product |-> Level(rows, A, k, iter[A \cup {k}])] \in V
        BY <3>1
      <3> QED BY <1>10, <3>2
    <2> HIDE DEF P
    <2>2. \A A \in S : A \in P
      BY <2>1, KitsAssumption, CountDown
    <2> QED BY <2>2 DEF P
  <1>12. \A A \in S : \A k \in Product : iter[A][k] = Level(rows, A, k, iter[A \cup {k}])
    BY <1>10
  <1> HIDE DEF S, V
  <1>13. Unit(iter, rows)
    BY <1>1, <1>11, <1>12 DEF Unit, S, V
  <1> QED BY <1>13

Ends(rows, A, k, p) == {w \in Past(rows, A, k) : w[Len(w)] = p}
Turns(rows, A, w, p) == rows[w[Len(w)]][p] > 0 /\ (p \in A \/ p \in {w[i] : i \in DOMAIN w})
Loops(rows, A, k) == \E w \in Past(rows, A, k) : \E p \in Product : Turns(rows, A, w, p)

LEMMA PastFinite ==
    ASSUME NEW rows \in KitRows, NEW A, NEW k \in Product, k \notin A,
           \A q \in Product \ (A \cup {k}) : IsFiniteSet(Past(rows, A \cup {k}, q))
    PROVE  IsFiniteSet(Past(rows, A, k))
  <1> DEFINE B == A \cup {k}
             held == {q \in Product : rows[k][q] > 0 /\ q \notin B}
             T == [q \in held |-> Past(rows, B, q)]
             none == [q \in held |-> [w \in T[q] |-> 0]]
             longer == Past(rows, A, k) \ {JustHere(k)}
             f == [x \in longer |-> <<x[2], Rest(x)>>]
  <1>1. IsFiniteSet(held)
    <2>1. held \in SUBSET Product
      OBVIOUS
    <2> QED BY <2>1, KitsAssumption, FS_Subset
  <1>2. \A q \in held : IsFiniteSet(T[q]) /\ none[q] \in [T[q] -> Nat]
    OBVIOUS
  <1>3. IsFiniteSet(Spread(held, T))
    <2> HIDE DEF held, T, none
    <2> QED BY <1>1, <1>2, SumSpreads
  <1>4. ASSUME NEW x \in longer
        PROVE  /\ x[2] \in held /\ Rest(x) \in T[x[2]] /\ Prepended(k, Rest(x)) = x
    <2>1. x \in Past(rows, A, k) /\ Len(x) # 1
      BY OneLongIs
    <2>2. Leads(rows, A, k, x[2], Rest(x), x) /\ x[2] \notin A \cup {k}
      BY <2>1, RestPast
    <2> QED BY <2>2 DEF Leads
  <1>5. f \in Injection(longer, Spread(held, T))
    <2>1. \A x \in longer : <<x[2], Rest(x)>> \in Spread(held, T)
      <3> HIDE DEF held, T, longer
      <3> QED BY <1>4 DEF Spread
    <2> HIDE DEF longer, held, T
    <2>2. f \in [longer -> Spread(held, T)]
      BY <2>1
    <2>3. ASSUME NEW x \in longer, NEW y \in longer, f[x] = f[y] PROVE x = y
      <3>1. Rest(x) = Rest(y)
        BY <2>3
      <3> QED BY <1>4, <3>1
    <2>4. DOMAIN f = longer
      OBVIOUS
    <2> HIDE DEF f
    <2> QED BY <2>2, <2>3, <2>4 DEF Injection, IsInjective
  <1>6. IsFiniteSet(longer)
    <2> HIDE DEF longer, held, T, f
    <2> QED BY <1>3, <1>5, FS_Injection
  <1>7. IsFiniteSet(longer \cup {JustHere(k)})
    BY <1>6, FS_AddElement
  <1>8. Past(rows, A, k) \in SUBSET (longer \cup {JustHere(k)})
    OBVIOUS
  <1> HIDE DEF longer
  <1> QED BY <1>7, <1>8, FS_Subset

LEMMA LoopsLevel ==
    ASSUME NEW rows \in KitRows, NEW A, NEW k \in Product, k \notin A
    PROVE  Loops(rows, A, k) <=>
              \E q \in PartsOf(rows, k) : q \in A \cup {k} \/ Loops(rows, A \cup {k}, q)
  <1> DEFINE B == A \cup {k}
  <1>1. ASSUME NEW q \in PartsOf(rows, k), q \in B PROVE Loops(rows, A, k)
    <2>1. /\ JustHere(k) \in Past(rows, A, k) /\ Len(JustHere(k)) = 1 /\ JustHere(k)[1] = k
          /\ 1 \in DOMAIN JustHere(k)
      BY JustHerePast
    <2>2. q \in Product /\ rows[k][q] > 0
      BY PartsFacts
    <2>3. q \in A \/ q \in {JustHere(k)[i] : i \in DOMAIN JustHere(k)}
      BY <1>1, <2>1
    <2>4. Turns(rows, A, JustHere(k), q)
      BY <2>1, <2>2, <2>3 DEF Turns
    <2> QED BY <2>1, <2>2, <2>4 DEF Loops
  <1>2. ASSUME NEW q \in PartsOf(rows, k), Loops(rows, B, q) PROVE Loops(rows, A, k)
    <2>1. PICK w \in Past(rows, B, q), p \in Product : Turns(rows, B, w, p)
      BY <1>2 DEF Loops
    <2>2. PICK x : x = Prepended(k, w)
      OBVIOUS
    <2>3. Leads(rows, A, k, q, w, x)
      BY <2>2, PartsFacts DEF Leads
    <2>4. /\ x \in Past(rows, A, k) /\ Len(x) = Len(w) + 1 /\ x[Len(x)] = w[Len(w)]
          /\ Len(w) \in Nat \ {0} /\ x[1] = k
          /\ \A i \in 1..Len(w) : x[i + 1] = w[i]
      BY <2>3, PrependedPast
    <2>5. DOMAIN x = 1..Len(x) /\ DOMAIN w = 1..Len(w)
      <3>1. PICK n \in 1..Cardinality(Product) : Len(x) = n /\ DOMAIN x = 1..n
        BY <2>4, PastIs
      <3>2. PICK m \in 1..Cardinality(Product) : Len(w) = m /\ DOMAIN w = 1..m
        BY PastIs
      <3> QED BY <3>1, <3>2
    <2>6. p \in A \/ p \in {x[i] : i \in DOMAIN x}
      <3>1. CASE p \in A
        BY <3>1
      <3>2. CASE p = k
        <4>1. 1 \in DOMAIN x
          BY <2>4, <2>5
        <4> QED BY <2>4, <3>2, <4>1
      <3>3. CASE p \in {w[i] : i \in DOMAIN w}
        <4>1. PICK i \in 1..Len(w) : p = w[i]
          BY <2>5, <3>3
        <4>2. i + 1 \in DOMAIN x /\ x[i + 1] = p
          BY <2>4, <2>5, <4>1
        <4> QED BY <4>2
      <3> QED BY <2>1, <3>1, <3>2, <3>3 DEF Turns
    <2>7. Turns(rows, A, x, p)
      BY <2>1, <2>4, <2>6 DEF Turns
    <2> QED BY <2>4, <2>7 DEF Loops
  <1>3. ASSUME Loops(rows, A, k)
        PROVE  \E q \in PartsOf(rows, k) : q \in B \/ Loops(rows, B, q)
    <2>1. PICK x \in Past(rows, A, k), p \in Product : Turns(rows, A, x, p)
      BY <1>3 DEF Loops
    <2>2. CASE Len(x) = 1
      <3>1. x = JustHere(k)
        BY <2>2, OneLongIs
      <3>2. Len(x) = 1 /\ x[1] = k /\ DOMAIN x = 1..1
        BY <3>1, JustHerePast
      <3>3. rows[k][p] > 0 /\ p \in B
        BY <2>1, <3>2 DEF Turns
      <3>4. p \in PartsOf(rows, k)
        BY <3>3, PartsFacts
      <3> QED BY <3>3, <3>4
    <2>3. CASE Len(x) # 1
      <3>1. PICK w, q : w = Rest(x) /\ q = x[2]
        OBVIOUS
      <3>2. Leads(rows, A, k, q, w, x)
        BY <2>3, <3>1, RestPast
      <3>3. /\ Len(x) = Len(w) + 1 /\ x[Len(x)] = w[Len(w)] /\ Len(w) \in Nat \ {0} /\ x[1] = k
            /\ \A i \in 1..Len(w) : x[i + 1] = w[i]
        BY <3>2, PrependedPast
      <3>4. DOMAIN x = 1..Len(x) /\ DOMAIN w = 1..Len(w)
        <4>1. PICK n \in 1..Cardinality(Product) : Len(x) = n /\ DOMAIN x = 1..n
          BY PastIs
        <4>2. PICK m \in 1..Cardinality(Product) : Len(w) = m /\ DOMAIN w = 1..m
          BY <3>2, PastIs DEF Leads
        <4> QED BY <4>1, <4>2
      <3>5. p \in B \/ p \in {w[i] : i \in DOMAIN w}
        <4>1. CASE p \in A
          BY <4>1
        <4>2. CASE p \in {x[i] : i \in DOMAIN x}
          <5>1. PICK i \in 1..Len(x) : p = x[i]
            BY <3>4, <4>2
          <5>2. CASE i = 1
            BY <3>3, <5>1, <5>2
          <5>3. CASE i # 1
            <6>1. i - 1 \in 1..Len(w) /\ (i - 1) + 1 = i
              BY <3>3, <5>1, <5>3
            <6>2. p = w[i - 1] /\ i - 1 \in DOMAIN w
              BY <3>3, <3>4, <5>1, <6>1
            <6> QED BY <6>2
          <5> QED BY <5>2, <5>3
        <4> QED BY <2>1, <4>1, <4>2 DEF Turns
      <3>6. Turns(rows, B, w, p)
        BY <2>1, <3>3, <3>5 DEF Turns
      <3>7. Loops(rows, B, q)
        BY <3>2, <3>6 DEF Loops, Leads
      <3>8. q \in PartsOf(rows, k)
        BY <3>2, PartsFacts DEF Leads
      <3> QED BY <3>7, <3>8
    <2> QED BY <2>2, <2>3
  <1> QED BY <1>1, <1>2, <1>3

\* What KitsExpand says that k comes down to of p.
Total(rows, A, k, p) ==
    IF PartsOf(rows, p) # {} THEN 0
    ELSE SumFunction([w \in Ends(rows, A, k, p) |-> Weight(rows, w)])

Held(rows, A, k, p, below) ==
    /\ rows \in KitRows /\ k \in Product /\ k \notin A /\ p \in Product /\ PartsOf(rows, k) # {}
    /\ IsFiniteSet(Past(rows, A, k))
    /\ \A q \in PartsOf(rows, k) :
          /\ q \notin A \cup {k} /\ IsFiniteSet(Past(rows, A \cup {k}, q))
          /\ below[q].of[p] = Total(rows, A \cup {k}, q, p)

LEMMA AddingNothing ==
    ASSUME NEW rows, NEW A, NEW k, NEW p, NEW below, Held(rows, A, k, p, below), PartsOf(rows, p) # {}
    PROVE  Adding(rows, below, k, p) = 0
  <1> DEFINE held == PartsOf(rows, k)
             sizes == [q \in held |-> rows[k][q] * below[q].of[p]]
  <1>0. rows \in KitRows /\ k \in Product
    BY DEF Held
  <1>1. IsFiniteSet(held) /\ held \in SUBSET Product /\ \A q \in Product : rows[k][q] \in Nat
    BY <1>0, PartsFacts
  <1>2. ASSUME NEW q \in held PROVE sizes[q] = 0
    <2>1. below[q].of[p] = 0
      BY DEF Held, Total
    <2>2. PICK a : a = rows[k][q]
      OBVIOUS
    <2>3. sizes[q] = a * 0 /\ a \in Nat
      BY <1>1, <2>1, <2>2
    <2> HIDE DEF sizes
    <2> QED BY <2>3
  <1>3. Adding(rows, below, k, p) = SumFunction(sizes)
    BY DEF Adding
  <1>4. sizes \in [held -> Nat]
    <2>1. DOMAIN sizes = held /\ sizes = [q \in held |-> sizes[q]]
      OBVIOUS
    <2> HIDE DEF sizes, held
    <2> QED BY <1>2, <2>1
  <1> HIDE DEF sizes, held
  <1>5. \A q \in held : sizes[q] = 0 * sizes[q]
    BY <1>2
  <1>6. SumFunction(sizes) = 0 * SumFunction(sizes)
    <2>1. 0 \in Nat
      OBVIOUS
    <2> QED BY <1>1, <1>4, <1>5, <2>1, SumScales
  <1>7. SumFunction(sizes) \in Nat
    BY <1>1, <1>4, SumIsHeap
  <1> QED BY <1>3, <1>6, <1>7

LEMMA AddingEnds ==
    ASSUME NEW rows, NEW A, NEW k, NEW p, NEW below, Held(rows, A, k, p, below), PartsOf(rows, p) = {}
    PROVE  Adding(rows, below, k, p) = SumFunction([w \in Ends(rows, A, k, p) |-> Weight(rows, w)])
  <1> DEFINE B == A \cup {k}
             held == PartsOf(rows, k)
             T == [q \in held |-> Ends(rows, B, q, p)]
             one == [q \in held |-> [w \in T[q] |-> Weight(rows, w)]]
             val == [q \in held |-> [w \in T[q] |-> rows[k][q] * Weight(rows, w)]]
             all == [z \in Spread(held, T) |-> val[z[1]][z[2]]]
             E == Ends(rows, A, k, p)
             weighed == [x \in E |-> Weight(rows, x)]
  <1>0. /\ rows \in KitRows /\ k \in Product /\ k \notin A /\ p \in Product /\ PartsOf(rows, k) # {}
        /\ IsFiniteSet(Past(rows, A, k))
    BY DEF Held
  <1>1. IsFiniteSet(held) /\ held \in SUBSET Product /\ \A q \in Product : rows[k][q] \in Nat
    BY <1>0, PartsFacts
  <1>2. IsFiniteSet(E)
    <2>1. E \in SUBSET Past(rows, A, k)
      BY DEF Ends
    <2> HIDE DEF E
    <2> QED BY <1>0, <2>1, FS_Subset
  <1>3. ASSUME NEW q \in held PROVE IsFiniteSet(T[q])
    <2>1. T[q] \in SUBSET Past(rows, B, q)
      BY DEF Ends
    <2>2. IsFiniteSet(Past(rows, B, q))
      BY DEF Held
    <2> HIDE DEF T, B
    <2> QED BY <2>1, <2>2, FS_Subset
  <1>4. ASSUME NEW q \in held, NEW w \in T[q]
        PROVE  /\ Leads(rows, A, k, q, w, Prepended(k, w)) /\ w \in Past(rows, B, q) /\ w[Len(w)] = p
               /\ Weight(rows, w) \in Nat /\ Weight(rows, Prepended(k, w)) = rows[k][q] * Weight(rows, w)
               /\ rows[k][q] * Weight(rows, w) \in Nat
    <2>1. w \in Past(rows, B, q) /\ w[Len(w)] = p
      BY DEF Ends
    <2>2. q \in Product /\ rows[k][q] > 0 /\ rows[k][q] \in Nat
      BY <1>0, <1>1, PartsFacts
    <2>3. Leads(rows, A, k, q, w, Prepended(k, w))
      BY <1>0, <2>1, <2>2 DEF Leads
    <2>4. Weight(rows, w) \in Nat /\ Weight(rows, Prepended(k, w)) = rows[k][q] * Weight(rows, w)
      BY <1>0, <2>3, WeightAfter
    <2>5. PICK a, b : a = rows[k][q] /\ b = Weight(rows, w)
      OBVIOUS
    <2>6. a \in Nat /\ b \in Nat
      BY <2>2, <2>4, <2>5
    <2>7. a * b \in Nat
      BY <2>6
    <2> HIDE DEF T, held
    <2> QED BY <2>1, <2>3, <2>4, <2>5, <2>7
  <1>5. \A q \in held : one[q] \in [T[q] -> Nat] /\ val[q] \in [T[q] -> Nat]
    <2> HIDE DEF T, held
    <2> QED BY <1>4
  <1>6. ASSUME NEW q \in held PROVE SumFunction(val[q]) = rows[k][q] * below[q].of[p]
    <2>1. rows[k][q] \in Nat
      BY <1>1
    <2>2. \A w \in T[q] : val[q][w] = rows[k][q] * one[q][w]
      <3> HIDE DEF T, held
      <3> QED OBVIOUS
    <2>3. SumFunction(val[q]) = rows[k][q] * SumFunction(one[q])
      <3> HIDE DEF T, held, one, val
      <3> QED BY <1>3, <1>5, <2>1, <2>2, SumScales
    <2>4. below[q].of[p] = SumFunction(one[q])
      <3>1. below[q].of[p] = SumFunction([w \in Ends(rows, B, q, p) |-> Weight(rows, w)])
        BY DEF Held, Total
      <3> QED BY <3>1
    <2> QED BY <2>3, <2>4
  <1>7. Adding(rows, below, k, p) = SumFunction([q \in held |-> SumFunction(val[q])])
    <2>1. [q \in held |-> SumFunction(val[q])] = [q \in held |-> rows[k][q] * below[q].of[p]]
      <3> HIDE DEF T, held, val
      <3> QED BY <1>6
    <2> QED BY <2>1 DEF Adding
  <1>8. /\ IsFiniteSet(Spread(held, T))
        /\ SumFunction(all) = SumFunction([q \in held |-> SumFunction(val[q])])
    <2> HIDE DEF T, held, val
    <2> QED BY <1>1, <1>3, <1>5, SumSpreads
  <1>9. \A z \in Spread(held, T) : z[1] \in held /\ z[2] \in T[z[1]] /\ z = <<z[1], z[2]>>
    <2> HIDE DEF T, held
    <2> QED BY DEF Spread
  <1>10. ASSUME NEW z \in Spread(held, T)
         PROVE  /\ Prepended(k, z[2]) \in E /\ Rest(Prepended(k, z[2])) = z[2] /\ Prepended(k, z[2])[2] = z[1]
                /\ all[z] = weighed[Prepended(k, z[2])] /\ all[z] \in Nat
    <2>1. PICK q, w : q = z[1] /\ w = z[2] /\ q \in held /\ w \in T[q]
      BY <1>9
    <2>2. PICK x : x = Prepended(k, w)
      OBVIOUS
    <2>3. Leads(rows, A, k, q, w, x) /\ w[Len(w)] = p /\ w \in Past(rows, B, q)
      BY <1>4, <2>1, <2>2
    <2>4. /\ x \in Past(rows, A, k) /\ x[Len(x)] = w[Len(w)] /\ Len(w) \in Nat \ {0}
          /\ \A i \in 1..Len(w) : x[i + 1] = w[i]
          /\ Rest(x) = w
      BY <2>3, PrependedPast
    <2>5. x \in E
      BY <2>3, <2>4 DEF Ends
    <2>6. w[1] = q
      BY <2>3, PastIs
    <2>7. x[2] = q
      <3>1. 1 \in 1..Len(w) /\ 1 + 1 = 2
        BY <2>4
      <3> QED BY <2>4, <2>6, <3>1
    <2>8. all[z] = rows[k][q] * Weight(rows, w)
      <3> HIDE DEF T, held
      <3> QED BY <2>1
    <2>9. weighed[x] = Weight(rows, x)
      BY <2>5
    <2>10. Weight(rows, x) = rows[k][q] * Weight(rows, w) /\ rows[k][q] * Weight(rows, w) \in Nat
      BY <1>4, <2>1, <2>2
    <2> HIDE DEF all, weighed, E, T, held
    <2> QED BY <2>1, <2>2, <2>4, <2>5, <2>7, <2>8, <2>9, <2>10
  <1>11. ASSUME NEW x \in E
         PROVE  <<x[2], Rest(x)>> \in Spread(held, T) /\ Prepended(k, Rest(x)) = x
    <2>1. x \in Past(rows, A, k) /\ x[Len(x)] = p
      BY DEF Ends
    <2>2. Len(x) # 1
      <3>1. ASSUME Len(x) = 1 PROVE FALSE
        <4>1. x[1] = k
          BY <2>1, PastIs
        <4> QED BY <1>0, <2>1, <3>1, <4>1
      <3> QED BY <3>1
    <2>3. PICK w, q : w = Rest(x) /\ q = x[2]
      OBVIOUS
    <2>4. Leads(rows, A, k, q, w, x)
      BY <1>0, <2>1, <2>2, <2>3, RestPast
    <2>5. x[Len(x)] = w[Len(w)]
      BY <2>4, PrependedPast
    <2>6. q \in held /\ w \in Ends(rows, B, q, p) /\ x = Prepended(k, w)
      BY <1>0, <2>1, <2>4, <2>5, PartsFacts DEF Leads, Ends
    <2>7. w \in T[q]
      BY <2>6
    <2> HIDE DEF T, held
    <2> QED BY <2>3, <2>6, <2>7 DEF Spread
  <1>12. SumFunction(all) = SumFunction(weighed)
    <2> DEFINE S == Spread(held, T)
               m == [z \in S |-> Prepended(k, z[2])]
               n == [x \in E |-> <<x[2], Rest(x)>>]
    <2>1. m \in [S -> E] /\ n \in [E -> S]
      <3> HIDE DEF E, T, held
      <3> QED BY <1>10, <1>11
    <2>2. ASSUME NEW z \in S PROVE n[m[z]] = z
      <3>1. PICK x : x = Prepended(k, z[2])
        OBVIOUS
      <3>2. x \in E /\ Rest(x) = z[2] /\ x[2] = z[1] /\ z = <<z[1], z[2]>>
        BY <1>9, <1>10, <3>1
      <3>3. m[z] = x /\ n[x] = <<x[2], Rest(x)>>
        <4> HIDE DEF S, E
        <4> QED BY <3>1, <3>2
      <3> HIDE DEF m, n, S, E
      <3> QED BY <3>2, <3>3
    <2>3. ASSUME NEW x \in E PROVE m[n[x]] = x
      <3>1. PICK z : z = <<x[2], Rest(x)>>
        OBVIOUS
      <3>2. z \in S /\ Prepended(k, z[2]) = x
        BY <1>11, <3>1
      <3>3. n[x] = z /\ m[z] = Prepended(k, z[2])
        <4> HIDE DEF S, E
        <4> QED BY <3>1, <3>2
      <3> HIDE DEF m, n, S, E
      <3> QED BY <3>2, <3>3
    <2>4. \A z \in S : all[z] = weighed[m[z]] /\ all[z] \in Nat
      <3>1. \A z \in S : m[z] = Prepended(k, z[2])
        <4> HIDE DEF S
        <4> QED OBVIOUS
      <3> HIDE DEF m, all, weighed
      <3> QED BY <1>10, <3>1
    <2>5. all \in [S -> Whole] /\ weighed \in [E -> Whole]
      <3>1. all = [z \in S |-> all[z]] /\ weighed = [x \in E |-> weighed[x]]
        <4> HIDE DEF T, held, E
        <4> QED OBVIOUS
      <3>2. \A x \in E : weighed[x] \in Nat
        <4> HIDE DEF all, weighed, m, n, S, E
        <4> QED BY <2>1, <2>3, <2>4
      <3> HIDE DEF all, weighed, m, n, S, E
      <3> QED BY <2>4, <3>1, <3>2 DEF Whole
    <2>6. IsFiniteSet(S)
      BY <1>8
    <2> HIDE DEF all, weighed, m, n, S, E
    <2> QED BY <1>2, <2>1, <2>2, <2>3, <2>4, <2>5, <2>6, IntSumRenamed
  <1> HIDE DEF all, weighed, E, T, held, val
  <1>13. SumFunction(weighed) = SumFunction([w \in Ends(rows, A, k, p) |-> Weight(rows, w)])
    BY DEF weighed, E
  <1> QED BY <1>7, <1>8, <1>12, <1>13

LEMMA TotalLevel ==
    ASSUME NEW rows, NEW A, NEW k, NEW p, NEW below, Held(rows, A, k, p, below)
    PROVE  Adding(rows, below, k, p) = Total(rows, A, k, p)
  <1>1. CASE PartsOf(rows, p) # {}
    BY <1>1, AddingNothing DEF Total
  <1>2. CASE PartsOf(rows, p) = {}
    BY <1>2, AddingEnds DEF Total
  <1> QED BY <1>1, <1>2

\* What get_unit_component_quantities has found when it went down by the products of A.
Expanded(u, rows, A) == \A k \in Product :
    /\ k \in A => ~u[A][k].ok
    /\ k \notin A =>
          /\ IsFiniteSet(Past(rows, A, k))
          /\ u[A][k].ok <=> ~Loops(rows, A, k)
          /\ u[A][k].ok => \A p \in Product : u[A][k].of[p] = Total(rows, A, k, p)

\* A product without rows comes down to itself.
LEMMA TotalOfLeaf ==
    ASSUME NEW rows \in KitRows, NEW A, NEW k \in Product, k \notin A, PartsOf(rows, k) = {},
           NEW p \in Product
    PROVE  Total(rows, A, k, p) = IF p = k THEN 1 ELSE 0
  <1>1. ASSUME NEW x \in Past(rows, A, k) PROVE x = JustHere(k)
    <2>1. ASSUME Len(x) # 1 PROVE FALSE
      <3>1. Leads(rows, A, k, x[2], Rest(x), x)
        BY <2>1, RestPast
      <3> QED BY <3>1, PartsFacts DEF Leads
    <2> QED BY <2>1, OneLongIs
  <1>2. /\ JustHere(k) \in Past(rows, A, k) /\ Len(JustHere(k)) = 1 /\ JustHere(k)[1] = k
    BY JustHerePast
  <1> DEFINE E == Ends(rows, A, k, p)
             weighed == [w \in E |-> Weight(rows, w)]
  <1>3. CASE p = k
    <2>1. E = {JustHere(k)}
      BY <1>1, <1>2, <1>3 DEF Ends
    <2>2. weighed \in [E -> Nat] /\ weighed[JustHere(k)] = 1
      <3>1. \A w \in E : w = JustHere(k)
        BY <2>1
      <3>2. Weight(rows, JustHere(k)) = 1
        BY WeightOfOne
      <3>3. JustHere(k) \in E
        BY <2>1
      <3> HIDE DEF E
      <3> QED BY <3>1, <3>2, <3>3
    <2>3. IsFiniteSet(E) /\ E \ {JustHere(k)} = {} /\ JustHere(k) \in E
      BY <2>1, FS_Singleton
    <2> DEFINE none == [y \in E \ {JustHere(k)} |-> weighed[y]]
    <2>4. SumFunction(weighed) = weighed[JustHere(k)] + SumFunction(none)
      <3> HIDE DEF weighed, E
      <3> QED BY <2>2, <2>3, SumInserts
    <2>5. SumFunction(none) = 0
      <3>1. none \in [{} -> Nat]
        BY <2>3
      <3> HIDE DEF none
      <3> QED BY <3>1, SumOfNone
    <2>6. SumFunction(weighed) = 1
      <3> HIDE DEF weighed, none
      <3> QED BY <2>2, <2>4, <2>5
    <2>7. Total(rows, A, k, p) = SumFunction(weighed)
      BY <1>3 DEF Total
    <2> HIDE DEF weighed
    <2> QED BY <1>3, <2>6, <2>7
  <1>4. CASE p # k
    <2>1. E = {}
      BY <1>1, <1>2, <1>4 DEF Ends
    <2>2. weighed \in [{} -> Nat]
      BY <2>1
    <2>3. SumFunction(weighed) = 0
      <3> HIDE DEF weighed
      <3> QED BY <2>2, SumOfNone
    <2>4. Total(rows, A, k, p) = 0
      BY <2>3 DEF Total
    <2> QED BY <1>4, <2>4
  <1> QED BY <1>3, <1>4

LEMMA ExpandedLevel ==
    ASSUME NEW rows \in KitRows, NEW u, Unit(u, rows), NEW A \in SUBSET Product,
           \A B \in SUBSET Product : A \subseteq B /\ A # B => Expanded(u, rows, B)
    PROVE  Expanded(u, rows, A)
  <1> SUFFICES ASSUME NEW k \in Product
               PROVE  /\ k \in A => ~u[A][k].ok
                      /\ k \notin A =>
                            /\ IsFiniteSet(Past(rows, A, k))
                            /\ u[A][k].ok <=> ~Loops(rows, A, k)
                            /\ u[A][k].ok => \A p \in Product : u[A][k].of[p] = Total(rows, A, k, p)
    BY DEF Expanded
  <1>1. PICK B : B = A \cup {k}
    OBVIOUS
  <1>2. u[A][k] = Level(rows, A, k, u[B])
    BY <1>1 DEF Unit
  <1>3. CASE k \in A
    BY <1>2, <1>3 DEF Level, Cycle
  <1>4. CASE k \notin A
    <2>1. B \in SUBSET Product /\ Expanded(u, rows, B)
      BY <1>1, <1>4
    <2>2. PICK below : below = u[B] /\ below \in [Product -> Tally]
      BY <2>1 DEF Unit
    <2>3. \A q \in Product :
            /\ q \in B => ~below[q].ok
            /\ q \notin B =>
                  /\ IsFiniteSet(Past(rows, B, q))
                  /\ below[q].ok <=> ~Loops(rows, B, q)
                  /\ below[q].ok => \A p \in Product : below[q].of[p] = Total(rows, B, q, p)
      BY <2>1, <2>2 DEF Expanded
    <2>4. PICK held : held = PartsOf(rows, k) /\ held \in SUBSET Product
      BY PartsFacts
    <2>5. u[A][k] = Level(rows, A, k, below)
      BY <1>2, <2>2
    <2>6. IsFiniteSet(Past(rows, A, k))
      <3>1. \A q \in Product \ (A \cup {k}) : IsFiniteSet(Past(rows, A \cup {k}, q))
        BY <1>1, <2>3
      <3> QED BY <1>4, <3>1, PastFinite
    <2>7. Loops(rows, A, k) <=> \E q \in held : q \in B \/ Loops(rows, B, q)
      BY <1>1, <1>4, <2>4, LoopsLevel
    <2>8. Loops(rows, A, k) <=> \E q \in held : ~below[q].ok
      BY <2>3, <2>4, <2>7
    <2>9. u[A][k].ok <=> ~ \E q \in held : ~below[q].ok
      BY <1>4, <2>4, <2>5 DEF Level, Cycle
    <2>10. ASSUME u[A][k].ok, NEW p \in Product PROVE u[A][k].of[p] = Total(rows, A, k, p)
      <3>1. \A q \in held : below[q].ok /\ q \notin B
        BY <2>3, <2>4, <2>9, <2>10
      <3>2. u[A][k].of[p] = IF held = {} THEN IF p = k THEN 1 ELSE 0 ELSE Adding(rows, below, k, p)
        BY <1>4, <2>4, <2>5, <3>1 DEF Level
      <3>3. CASE held = {}
        <4>1. Total(rows, A, k, p) = IF p = k THEN 1 ELSE 0
          BY <1>4, <2>4, <3>3, TotalOfLeaf
        <4> QED BY <3>2, <3>3, <4>1
      <3>4. CASE held # {}
        <4>1. \A q \in held : IsFiniteSet(Past(rows, B, q)) /\ below[q].of[p] = Total(rows, B, q, p)
          BY <2>3, <2>4, <3>1
        <4>2. Held(rows, A, k, p, below)
          BY <1>1, <1>4, <2>4, <2>6, <3>1, <3>4, <4>1 DEF Held
        <4>3. Adding(rows, below, k, p) = Total(rows, A, k, p)
          BY <4>2, TotalLevel
        <4> QED BY <3>2, <3>4, <4>3
      <3> QED BY <3>3, <3>4
    <2> QED BY <1>4, <2>6, <2>8, <2>9, <2>10
  <1> QED BY <1>3, <1>4

\* What get_unit_component_quantities returns, for every product.
LEMMA ExpansionIs ==
    ASSUME NEW rows \in KitRows, NEW k \in Product
    PROVE  /\ UnitQuantities(rows, k).ok <=> ~Loops(rows, {}, k)
           /\ UnitQuantities(rows, k).ok =>
                 \A p \in Product : UnitQuantities(rows, k).of[p] = Total(rows, {}, k, p)
  <1>1. PICK u : Unit(u, rows)
    BY UnitExists
  <1> DEFINE P == {A \in SUBSET Product : Expanded(u, rows, A)}
  <1>2. \A A \in SUBSET Product : A \in P
    <2>1. ASSUME NEW A \in SUBSET Product, \A B \in SUBSET Product : A \subseteq B /\ A # B => B \in P
          PROVE  A \in P
      BY <1>1, <2>1, ExpandedLevel
    <2> HIDE DEF P
    <2> QED BY <2>1, KitsAssumption, CountDown
  <1>3. {} \in SUBSET Product
    OBVIOUS
  <1>4. Expanded(u, rows, {})
    BY <1>2, <1>3
  <1> HIDE DEF P
  <1>5. UnitQuantities(rows, k) = u[{}][k]
    BY <1>1 DEF Unit
  <1> QED BY <1>4, <1>5 DEF Expanded

\* Some product of every set of them is above none of the set.
Acyclic(rows) == \A S \in SUBSET Product : S # {} => \E x \in S : PartsOf(rows, x) \cap S = {}

LEMMA AcyclicHasNoLoop ==
    ASSUME NEW rows \in KitRows, Acyclic(rows), NEW k \in Product
    PROVE  ~Loops(rows, {}, k)
  <1> SUFFICES ASSUME Loops(rows, {}, k) PROVE FALSE
    OBVIOUS
  <1>1. PICK w \in Past(rows, {}, k), p \in Product : Turns(rows, {}, w, p)
    BY DEF Loops
  <1>2. PICK n \in 1..Cardinality(Product) : Along(rows, w, n) /\ Len(w) = n /\ DOMAIN w = 1..n
    BY PastIs
  <1>3. n \in Nat \ {0}
    BY <1>2, KitsAssumption, FS_CardinalityType
  <1>4. w \in [1..n -> Product] /\ \A i \in 1..n : i + 1 \in 1..n => rows[w[i]][w[i + 1]] > 0
    BY <1>2 DEF Along
  <1> DEFINE S == {w[i] : i \in 1..n}
  <1>5. rows[w[n]][p] > 0 /\ p \in S
    BY <1>1, <1>2 DEF Turns
  <1>6. S \in SUBSET Product /\ S # {}
    BY <1>3, <1>4
  <1>7. PICK x \in S : PartsOf(rows, x) \cap S = {}
    BY <1>6 DEF Acyclic
  <1>8. PICK i \in 1..n : x = w[i]
    BY <1>7
  <1>9. CASE i = n
    <2>1. p \in PartsOf(rows, x)
      BY <1>5, <1>8, <1>9 DEF PartsOf
    <2> QED BY <1>5, <1>7, <2>1
  <1>10. CASE i # n
    <2>1. i + 1 \in 1..n
      BY <1>3, <1>10
    <2>2. rows[x][w[i + 1]] > 0 /\ w[i + 1] \in Product /\ w[i + 1] \in S
      BY <1>4, <1>8, <2>1
    <2>3. w[i + 1] \in PartsOf(rows, x)
      BY <2>2 DEF PartsOf
    <2> QED BY <1>7, <2>2, <2>3
  <1> QED BY <1>9, <1>10

\* R holds the parts of each of its products.
Closed(rows, R) == \A x \in R : PartsOf(rows, x) \subseteq R

LEMMA RowKeepsAcyclic ==
    ASSUME NEW rows \in KitRows, Acyclic(rows), NEW k \in Product, NEW p \in Product, NEW n \in Nat,
           NEW new \in KitRows, new = [rows EXCEPT ![k][p] = n],
           n > 0 => \E R \in SUBSET Product : Closed(rows, R) /\ p \in R /\ k \notin R
    PROVE  Acyclic(new)
  <1>1. /\ \A x \in Product : x # k => PartsOf(new, x) = PartsOf(rows, x)
        /\ \A q \in Product : q # p => (q \in PartsOf(new, k) <=> q \in PartsOf(rows, k))
        /\ p \in PartsOf(new, k) <=> n > 0
        /\ \A x \in Product : PartsOf(new, x) \subseteq Product
    <2>1. \A x \in Product : x # k => new[x] = rows[x]
      BY DEF KitRows
    <2>2. \A q \in Product : q # p => new[k][q] = rows[k][q]
      BY DEF KitRows
    <2>3. new[k][p] = n
      BY DEF KitRows
    <2> QED BY <2>1, <2>2, <2>3 DEF PartsOf
  <1> SUFFICES ASSUME NEW S \in SUBSET Product, S # {}
               PROVE  \E x \in S : PartsOf(new, x) \cap S = {}
    BY DEF Acyclic
  <1>2. CASE n > 0 /\ k \in S /\ p \in S
    <2>1. PICK R \in SUBSET Product : Closed(rows, R) /\ p \in R /\ k \notin R
      BY <1>2
    <2>2. PICK x \in S \cap R : PartsOf(rows, x) \cap (S \cap R) = {}
      <3>1. S \cap R \in SUBSET Product /\ S \cap R # {}
        BY <1>2, <2>1
      <3> QED BY <3>1 DEF Acyclic
    <2>3. PartsOf(rows, x) \subseteq R
      BY <2>1, <2>2 DEF Closed
    <2>4. PartsOf(new, x) = PartsOf(rows, x)
      BY <1>1, <2>1, <2>2
    <2> QED BY <2>2, <2>3, <2>4
  <1>3. CASE ~ (n > 0 /\ k \in S /\ p \in S)
    <2>1. PICK x \in S : PartsOf(rows, x) \cap S = {}
      BY DEF Acyclic
    <2>2. \A q \in S : q \in PartsOf(new, x) => q \in PartsOf(rows, x)
      <3>1. CASE x # k
        BY <1>1, <2>1, <3>1
      <3>2. CASE x = k
        BY <1>1, <1>3, <2>1, <3>2
      <3> QED BY <3>1, <3>2
    <2> QED BY <2>1, <2>2
  <1> QED BY <1>2, <1>3

\* _component_reaches_kit goes through all that is below the part.
Further(rows, S) == S \cup UNION {PartsOf(rows, p) : p \in S}

LEMMA ReachesAll ==
    ASSUME NEW rows \in KitRows, NEW q \in Product, NEW k \in Product, ~Reaches(rows, q, k)
    PROVE  \E R \in SUBSET Product : Closed(rows, R) /\ q \in R /\ k \notin R
  <1> DEFINE N == Cardinality(Product)
             body(f) == [n \in 0..N |-> IF n = 0 THEN {q}
                                        ELSE f[n - 1] \cup UNION {PartsOf(rows, p) : p \in f[n - 1]}]
             iter == CHOOSE f : f = body(f)
             V == SUBSET Product
             step == [z \in (1..N) \X V |-> Further(rows, z[2])]
  <1>0. N \in Nat
    BY KitsAssumption, FS_CardinalityType
  <1>1. Reaches(rows, q, k) <=> k \in iter[N]
    BY DEF Reaches
  <1>2. \A f : body(f) = [n \in 0..N |-> IF n = 0 THEN {q} ELSE Further(rows, f[n - 1])]
    BY DEF Further
  <1> HIDE DEF N
  <1>3. \A S \in V : Further(rows, S) \in V
    BY DEF Further, PartsOf
  <1>4. step \in [(1..N) \X V -> V] /\ \A n \in 1..N : \A S \in V : step[<<n, S>>] = Further(rows, S)
    BY <1>3
  <1> HIDE DEF step
  <1>5. PICK f \in [0..N -> V] : f[0] = {q} /\ \A n \in 1..N : f[n] = step[<<n, f[n - 1]>>]
    <2>1. StepsUp(N, V, {q}, step)
      BY <1>0, <1>4 DEF StepsUp
    <2>2. PICK f : Climbs(f, N, V, {q}, step)
      BY <2>1, UpRecursion
    <2> QED BY <2>2 DEF Climbs
  <1>6. \A n \in 1..N : n - 1 \in 0..N /\ n \in 0..N /\ n # 0
    BY <1>0
  <1>7. f = body(f)
    <2>1. \A n \in 0..N : n # 0 => n \in 1..N
      BY <1>0
    <2>2. \A n \in 0..N : f[n] = IF n = 0 THEN {q} ELSE Further(rows, f[n - 1])
      BY <1>4, <1>5, <1>6, <2>1
    <2> HIDE DEF body
    <2> QED BY <1>5, <1>2, <2>2
  <1>8. iter = body(iter)
    <2> HIDE DEF body
    <2> QED BY <1>7
  <1> HIDE DEF iter
  <1>9. iter[0] = {q} /\ \A n \in 1..N : iter[n] = Further(rows, iter[n - 1])
    <2>1. \A n \in 0..N : iter[n] = IF n = 0 THEN {q} ELSE Further(rows, iter[n - 1])
      <3>1. iter = [n \in 0..N |-> IF n = 0 THEN {q} ELSE Further(rows, iter[n - 1])]
        <4> HIDE DEF body
        <4> QED BY <1>8, <1>2
      <3> HIDE DEF body
      <3> QED BY <3>1
    <2>2. 0 \in 0..N
      BY <1>0
    <2> HIDE DEF body
    <2> QED BY <1>6, <2>1, <2>2
  <1> HIDE DEF body
  <1> DEFINE P == {n \in Nat : n <= N =>
                     /\ iter[n] \in SUBSET Product /\ q \in iter[n]
                     /\ Closed(rows, iter[n]) \/ Cardinality(iter[n]) >= n + 1}
  <1>10. 0 \in P
    <2>1. PICK c : c = Cardinality(iter[0])
      OBVIOUS
    <2>2. c = 1
      BY <1>9, <2>1, FS_Singleton
    <2>3. iter[0] \in SUBSET Product /\ q \in iter[0]
      BY <1>9
    <2>4. c >= 0 + 1
      BY <2>2
    <2> QED BY <2>1, <2>3, <2>4
  <1>11. ASSUME NEW n \in Nat, n \in P PROVE n + 1 \in P
    <2> SUFFICES ASSUME n + 1 <= N
                 PROVE  /\ iter[n + 1] \in SUBSET Product /\ q \in iter[n + 1]
                        /\ Closed(rows, iter[n + 1]) \/ Cardinality(iter[n + 1]) >= (n + 1) + 1
      OBVIOUS
    <2>1. PICK S, T : S = iter[n] /\ T = iter[n + 1]
      OBVIOUS
    <2>2. T = Further(rows, S)
      <3>1. n + 1 \in 1..N /\ (n + 1) - 1 = n
        BY <1>0
      <3> QED BY <1>9, <2>1, <3>1
    <2>3. S \in SUBSET Product /\ q \in S /\ (Closed(rows, S) \/ Cardinality(S) >= n + 1)
      <3>1. n <= N
        BY <1>0
      <3> QED BY <1>11, <2>1, <3>1
    <2>4. T \in SUBSET Product /\ S \subseteq T
      BY <1>3, <2>2, <2>3 DEF Further
    <2>5. IsFiniteSet(S) /\ IsFiniteSet(T)
      BY <2>3, <2>4, KitsAssumption, FS_Subset
    <2>6. CASE T = S
      <3>1. Closed(rows, S)
        BY <2>2, <2>6 DEF Further, Closed
      <3> QED BY <2>1, <2>3, <2>6, <3>1
    <2>7. CASE T # S
      <3>1. ~Closed(rows, S)
        BY <2>2, <2>7 DEF Further, Closed
      <3>2. PICK a, b : a = Cardinality(S) /\ b = Cardinality(T)
        OBVIOUS
      <3>3. a \in Nat /\ b \in Nat /\ a <= b /\ a # b
        BY <2>4, <2>5, <2>7, <3>2, FS_CardinalityType, FS_Subset
      <3>4. a >= n + 1
        BY <2>3, <3>1, <3>2
      <3>5. b >= (n + 1) + 1
        BY <3>3, <3>4
      <3> QED BY <2>1, <2>3, <2>4, <3>2, <3>5
    <2> QED BY <2>6, <2>7
  <1>12. N \in P
    <2> HIDE DEF P
    <2> QED BY <1>0, <1>10, <1>11, CountUp
  <1>13. PICK R : R = iter[N]
    OBVIOUS
  <1>14. R \in SUBSET Product /\ q \in R /\ (Closed(rows, R) \/ Cardinality(R) >= N + 1)
    BY <1>0, <1>12, <1>13
  <1>15. Cardinality(R) <= N /\ Cardinality(R) \in Nat
    BY <1>14, KitsAssumption, FS_Subset, FS_CardinalityType DEF N
  <1>16. Closed(rows, R)
    BY <1>0, <1>14, <1>15
  <1>17. k \notin R
    BY <1>1, <1>13
  <1> QED BY <1>14, <1>16, <1>17

\* A form that is validated has a kit, a part, the quantity that was read and the new one.
Filled == [kit : Product, part : Product, old : 0..MaxPart, new : 0..MaxPart, behind : BOOLEAN]
KitsTyped == parts \in Rows /\ form \in [Editor -> Filled \cup {NoForm}] /\ overtaken \in BOOLEAN

\* The rows that there will be once a form is saved.
Changed(rows, f) == [rows EXCEPT ![f.kit][f.part] = f.new]

\* Unless a form overtook another, no kit holds itself, nor will once any form that
\* was validated with the rows there are is saved.
KitsSound ==
    overtaken \/ /\ Acyclic(parts)
                 /\ \A e \in Editor :
                       form[e] # NoForm /\ ~form[e].behind => Acyclic(Changed(parts, form[e]))

KitsInv == KitsTyped /\ KitsSound

LEMMA RowsAreAmounts ==
    ASSUME NEW rows \in Rows
    PROVE  rows \in KitRows
  <1>1. 0..MaxPart \subseteq Nat
    BY KitsAssumption
  <1> QED BY <1>1 DEF Rows, KitRows

LEMMA ChangedTyped ==
    ASSUME NEW rows \in Rows, NEW f \in Filled
    PROVE  Changed(rows, f) \in Rows
  BY DEF Changed, Rows, Filled

LEMMA NotFilled == NoForm \notin Filled
  BY KitsAssumption DEF NoForm, Filled

LEMMA KitsExpandIs ==
    ASSUME parts \in Rows, overtaken \/ Acyclic(parts)
    PROVE  KitsExpand
  <1>1. parts \in KitRows
    BY RowsAreAmounts
  <1> SUFFICES ASSUME NEW k \in Product
               PROVE  /\ UnitQuantities(parts, k).ok <=> ~HasCycle(k)
                      /\ UnitQuantities(parts, k).ok \/ overtaken
                      /\ UnitQuantities(parts, k).ok => \A p \in Product :
                           UnitQuantities(parts, k).of[p] =
                             IF PartsOf(parts, p) # {} THEN 0
                             ELSE SumFunction([w \in {x \in Ways(k) : x[Len(x)] = p} |-> OnWay(w)])
    BY DEF KitsExpand
  <1>2. Past(parts, {}, k) = Ways(k)
    BY DEF Past, Ways
  <1>3. Loops(parts, {}, k) <=> HasCycle(k)
    BY <1>2 DEF Loops, Turns, HasCycle
  <1>4. \A w : OnWay(w) = Weight(parts, w)
    BY DEF OnWay, Weight
  <1>5. ASSUME NEW p \in Product
        PROVE  Total(parts, {}, k, p) =
                 IF PartsOf(parts, p) # {} THEN 0
                 ELSE SumFunction([w \in {x \in Ways(k) : x[Len(x)] = p} |-> OnWay(w)])
    <2>1. Ends(parts, {}, k, p) = {x \in Ways(k) : x[Len(x)] = p}
      BY <1>2 DEF Ends
    <2>2. [w \in Ends(parts, {}, k, p) |-> Weight(parts, w)]
            = [w \in {x \in Ways(k) : x[Len(x)] = p} |-> OnWay(w)]
      BY <1>4, <2>1
    <2> QED BY <2>2 DEF Total
  <1>6. Acyclic(parts) => ~Loops(parts, {}, k)
    BY <1>1, AcyclicHasNoLoop
  <1>7. /\ UnitQuantities(parts, k).ok <=> ~Loops(parts, {}, k)
        /\ UnitQuantities(parts, k).ok =>
              \A p \in Product : UnitQuantities(parts, k).of[p] = Total(parts, {}, k, p)
    BY <1>1, ExpansionIs
  <1> QED BY <1>3, <1>5, <1>6, <1>7

LEMMA KitsStart == KitsInit => KitsInv
  <1> SUFFICES ASSUME KitsInit PROVE KitsInv
    OBVIOUS
  <1>1. parts = NoRows /\ form = [e \in Editor |-> NoForm] /\ overtaken = FALSE
    BY DEF KitsInit
  <1>2. NoRows \in Rows
    BY KitsAssumption DEF NoRows, Rows
  <1>3. Acyclic(parts)
    BY <1>1 DEF Acyclic, PartsOf, NoRows
  <1> QED BY <1>1, <1>2, <1>3 DEF KitsInv, KitsTyped, KitsSound

LEMMA ValidateKeeps ==
    ASSUME KitsInv, NEW e \in Editor, NEW k \in Product, NEW p \in Product, NEW n \in 0..MaxPart,
           ValidateKit(e, k, p, n)
    PROVE  KitsInv'
  <1> DEFINE f == [kit |-> k, part |-> p, old |-> parts[k][p], new |-> n, behind |-> FALSE]
             new == [parts EXCEPT ![k][p] = n]
  <1>1. /\ form' = [form EXCEPT ![e] = f] /\ parts' = parts /\ overtaken' = overtaken
        /\ \A q \in PartsOf(new, k) : q # k /\ ~Reaches(parts, q, k)
    BY DEF ValidateKit
  <1>2. parts \in Rows /\ form \in [Editor -> Filled \cup {NoForm}] /\ overtaken \in BOOLEAN
    BY DEF KitsInv, KitsTyped
  <1>3. f \in Filled
    BY <1>2 DEF Filled, Rows
  <1>4. new = Changed(parts, f) /\ new \in Rows
    <2>1. new = Changed(parts, f)
      BY DEF Changed
    <2> QED BY <1>2, <1>3, <2>1, ChangedTyped
  <1>5. ASSUME Acyclic(parts) PROVE Acyclic(new)
    <2>1. n \in Nat /\ parts \in KitRows /\ new \in KitRows
      BY <1>2, <1>4, KitsAssumption, RowsAreAmounts
    <2>2. ASSUME n > 0 PROVE \E R \in SUBSET Product : Closed(parts, R) /\ p \in R /\ k \notin R
      <3>1. new[k][p] = n
        BY <2>1 DEF KitRows
      <3>2. p \in PartsOf(new, k)
        BY <2>2, <3>1 DEF PartsOf
      <3>3. ~Reaches(parts, p, k)
        BY <1>1, <3>2
      <3> QED BY <2>1, <3>3, ReachesAll
    <2>3. new = [parts EXCEPT ![k][p] = n]
      OBVIOUS
    <2> HIDE DEF new
    <2> QED BY <1>5, <2>1, <2>2, <2>3, RowKeepsAcyclic
  <1> HIDE DEF f, new
  <1>6. KitsTyped'
    BY <1>1, <1>2, <1>3 DEF KitsTyped
  <1>7. KitsSound'
    <2> SUFFICES ASSUME ~overtaken'
                 PROVE  /\ Acyclic(parts')
                        /\ \A a \in Editor : form'[a] # NoForm /\ ~form'[a].behind
                                                => Acyclic(Changed(parts', form'[a]))
      BY DEF KitsSound
    <2>1. /\ Acyclic(parts)
          /\ \A a \in Editor : form[a] # NoForm /\ ~form[a].behind => Acyclic(Changed(parts, form[a]))
      BY <1>1 DEF KitsInv, KitsSound
    <2>2. form'[e] = f /\ \A a \in Editor : a # e => form'[a] = form[a]
      BY <1>1, <1>2
    <2> QED BY <1>1, <1>4, <1>5, <2>1, <2>2
  <1> QED BY <1>6, <1>7 DEF KitsInv

LEMMA SaveKeeps ==
    ASSUME KitsInv, NEW e \in Editor, SaveKit(e)
    PROVE  KitsInv'
  <1> DEFINE f == form[e]
             refused == f.old = 0 /\ parts[f.kit][f.part] > 0
  <1>1. /\ f # NoForm
        /\ parts' = IF refused THEN parts ELSE Changed(parts, f)
        /\ form' = [a \in Editor |->
                      IF a = e THEN NoForm
                      ELSE IF form[a] = NoForm \/ parts' = parts THEN form[a]
                      ELSE [form[a] EXCEPT !.behind = TRUE]]
        /\ overtaken' = (overtaken \/ (f.behind /\ ~refused))
    BY DEF SaveKit, Changed
  <1>2. parts \in Rows /\ form \in [Editor -> Filled \cup {NoForm}] /\ overtaken \in BOOLEAN
    BY DEF KitsInv, KitsTyped
  <1>3. f \in Filled
    BY <1>1, <1>2
  <1>4. parts' \in Rows
    BY <1>1, <1>2, <1>3, ChangedTyped
  <1>5. f.behind \in BOOLEAN
    BY <1>3 DEF Filled
  <1> HIDE DEF f, refused
  <1>6. ASSUME NEW a \in Editor
        PROVE  /\ form'[a] \in Filled \cup {NoForm}
               /\ form'[a] # NoForm /\ ~form'[a].behind => form'[a] = form[a] /\ parts' = parts
    <2>1. form'[a] = IF a = e THEN NoForm
                     ELSE IF form[a] = NoForm \/ parts' = parts THEN form[a]
                     ELSE [form[a] EXCEPT !.behind = TRUE]
      BY <1>1
    <2>2. CASE a = e \/ form[a] = NoForm
      BY <1>2, <2>1, <2>2
    <2>3. CASE a # e /\ form[a] # NoForm /\ parts' = parts
      BY <1>2, <2>1, <2>3
    <2>4. CASE a # e /\ form[a] # NoForm /\ parts' # parts
      <3>1. form[a] \in Filled /\ form'[a] = [form[a] EXCEPT !.behind = TRUE]
        BY <1>2, <2>1, <2>4
      <3>2. form'[a] \in Filled /\ form'[a].behind = TRUE
        BY <3>1 DEF Filled
      <3> QED BY <3>2
    <2> QED BY <2>2, <2>3, <2>4
  <1>7. KitsTyped'
    <2>1. form' \in [Editor -> Filled \cup {NoForm}]
      BY <1>1, <1>6
    <2>2. overtaken' \in BOOLEAN
      BY <1>1
    <2> QED BY <1>4, <2>1, <2>2 DEF KitsTyped
  <1>8. KitsSound'
    <2> SUFFICES ASSUME ~overtaken'
                 PROVE  /\ Acyclic(parts')
                        /\ \A a \in Editor : form'[a] # NoForm /\ ~form'[a].behind
                                                => Acyclic(Changed(parts', form'[a]))
      BY DEF KitsSound
    <2>1. ~overtaken /\ (refused \/ ~f.behind)
      BY <1>1
    <2>2. /\ Acyclic(parts)
          /\ \A a \in Editor : form[a] # NoForm /\ ~form[a].behind => Acyclic(Changed(parts, form[a]))
      BY <2>1 DEF KitsInv, KitsSound
    <2>3. Acyclic(parts')
      <3>1. CASE refused
        BY <1>1, <2>2, <3>1
      <3>2. CASE ~refused
        BY <1>1, <2>1, <2>2, <3>2 DEF f
      <3> QED BY <3>1, <3>2
    <2> QED BY <1>6, <2>2, <2>3
  <1> QED BY <1>7, <1>8 DEF KitsInv

\* The rows stay typed and have no cycle, except after a form was saved over another that
\* was validated with it.
THEOREM KitsStaySound == KitsSpec => []KitsInv
  <1>1. ASSUME KitsInv, [KitsNext]_kitVars PROVE KitsInv'
    <2>1. CASE KitsNext
      <3>1. PICK e \in Editor :
              \/ \E k, p \in Product, n \in 0..MaxPart : ValidateKit(e, k, p, n)
              \/ SaveKit(e)
        BY <2>1 DEF KitsNext
      <3>2. CASE \E k, p \in Product, n \in 0..MaxPart : ValidateKit(e, k, p, n)
        BY <1>1, <3>2, ValidateKeeps
      <3>3. CASE SaveKit(e)
        BY <1>1, <3>3, SaveKeeps
      <3> QED BY <3>1, <3>2, <3>3
    <2>2. CASE UNCHANGED kitVars
      BY <1>1, <2>2 DEF kitVars, KitsInv, KitsTyped, KitsSound
    <2> QED BY <1>1, <2>1, <2>2
  <1> QED BY <1>1, KitsStart, PTL DEF KitsSpec

\* The rows and the forms of the kits keep their types.
THEOREM KitsStayTyped == KitsSpec => []KitsTypeOK
  <1>1. KitsInv => KitsTypeOK
    <2> SUFFICES ASSUME KitsTyped PROVE KitsTypeOK
      BY DEF KitsInv
    <2>1. \A e \in Editor : form[e] = NoForm \/ form[e] \in Filled
      BY DEF KitsTyped
    <2> QED BY <2>1 DEF KitsTyped, KitsTypeOK, Filled
  <1> QED BY <1>1, KitsStaySound, PTL

\* Whatever the products and the rows that the forms save: get_unit_component_quantities
\* gives every kit what its rows come down to, way by way, and no product is in itself.
THEOREM KitsStayExpanded == KitsSpec => []KitsExpand
  <1>1. KitsInv => KitsExpand
    BY KitsExpandIs DEF KitsInv, KitsTyped, KitsSound
  <1> QED BY <1>1, KitsStaySound, PTL

(***************************************************************************)
(* The preparation page. What a unit measures, what is left of a carton    *)
(* and what it holds are kept together through every item (Weighed); an    *)
(* item is poured into the cartons from the first on, so that a later one  *)
(* takes a unit only when every earlier one is tight for it (Snug); and    *)
(* the order in which the items are packed changes no sum.                 *)
(***************************************************************************)

LEMMA Division ==
    ASSUME NEW a \in Nat, NEW b \in Nat \ {0}
    PROVE  /\ a \div b \in Nat /\ (a \div b) * b <= a /\ a - (a \div b) * b < b
           /\ b <= a => a \div b >= 1
  <1>1. PICK q : q = a \div b
    OBVIOUS
  <1>2. q \in Int /\ a = b * q + (a % b) /\ 0 <= a % b /\ a % b < b /\ a % b \in Int
    BY <1>1
  <1>3. PICK r \in Int : r = a % b
    BY <1>2
  <1>4. a = b * q + r /\ 0 <= r /\ r < b
    BY <1>2, <1>3
  <1>5. q >= 0
    BY <1>2, <1>4
  <1>6. q * b <= a /\ a - q * b < b
    BY <1>2, <1>4
  <1>7. b <= a => q >= 1
    BY <1>2, <1>4, <1>5
  <1> QED BY <1>1, <1>2, <1>5, <1>6, <1>7

LEMMA MinIs ==
    ASSUME NEW S \in SUBSET Nat, S # {}
    PROVE  Min(S) \in S /\ \A n \in S : Min(S) <= n
  BY LeastNat DEF Min

LEMMA MinOfTwo ==
    ASSUME NEW a \in Nat, NEW b \in Nat
    PROVE  Min({a, b}) = IF a <= b THEN a ELSE b
  <1>1. Min({a, b}) \in {a, b} /\ \A n \in {a, b} : Min({a, b}) <= n
    <2>1. {a, b} \in SUBSET Nat /\ {a, b} # {}
      OBVIOUS
    <2> QED BY <2>1, MinIs
  <1>2. PICK c : c = Min({a, b})
    OBVIOUS
  <1> QED BY <1>1, <1>2

LEMMA MaxOfTwo ==
    ASSUME NEW a \in Nat, NEW b \in Nat
    PROVE  Max({a, b}) = IF a <= b THEN b ELSE a
  <1>1. \E c \in {a, b} : \A n \in {a, b} : c >= n
    OBVIOUS
  <1>2. PICK c : c = Max({a, b})
    OBVIOUS
  <1>3. c \in {a, b} /\ \A n \in {a, b} : c >= n
    BY <1>1, <1>2 DEF Max
  <1> QED BY <1>2, <1>3

\* A unit of a measure that is known, in a carton.
Fits(left, m) == left \in MeasureType /\ m \in MeasureType /\ (m.weight > 0 \/ m.volume > 0)
\* What is left of a carton has no room for a unit.
Tight(left, m) == left.weight < m.weight \/ left.volume < m.volume

LEMMA FitIs ==
    ASSUME NEW left, NEW m, Fits(left, m)
    PROVE  /\ Fit(left, m) \in Nat
           /\ Fit(left, m) * m.weight <= left.weight /\ Fit(left, m) * m.volume <= left.volume
           /\ \/ left.weight - Fit(left, m) * m.weight < m.weight
              \/ left.volume - Fit(left, m) * m.volume < m.volume
           /\ ~Tight(left, m) => Fit(left, m) >= 1
  <1> DEFINE D == {x \in {"weight", "volume"} : m[x] > 0}
             Q == {left[d] \div m[d] : d \in D}
  <1>0. /\ left.weight \in Nat /\ left.volume \in Nat /\ m.weight \in Nat /\ m.volume \in Nat
        /\ (m.weight > 0 \/ m.volume > 0)
    BY DEF Fits, MeasureType
  <1>1. ASSUME NEW d \in D
        PROVE  /\ left[d] \div m[d] \in Nat /\ (left[d] \div m[d]) * m[d] <= left[d]
               /\ left[d] - (left[d] \div m[d]) * m[d] < m[d]
               /\ m[d] <= left[d] => left[d] \div m[d] >= 1
    <2>1. PICK a, b : a = left[d] /\ b = m[d]
      OBVIOUS
    <2>2. a \in Nat /\ b \in Nat \ {0}
      BY <1>0, <2>1
    <2> HIDE DEF D
    <2> QED BY <2>1, <2>2, Division
  <1>2. D # {}
    BY <1>0
  <1>3. Q \in SUBSET Nat /\ Q # {}
    <2> HIDE DEF D
    <2> QED BY <1>1, <1>2
  <1>4. PICK f : f = Fit(left, m)
    OBVIOUS
  <1>5. f = Min(Q)
    BY <1>4 DEF Fit
  <1>6. f \in Q /\ \A n \in Q : f <= n
    <2> HIDE DEF Q
    <2> QED BY <1>3, <1>5, MinIs
  <1>7. f \in Nat /\ \A d \in D : f <= left[d] \div m[d]
    BY <1>3, <1>6
  <1>8. PICK d \in D : f = left[d] \div m[d]
    BY <1>6
  <1>9. left[d] - f * m[d] < m[d]
    BY <1>1, <1>8
  <1>10. ASSUME NEW x \in {"weight", "volume"} PROVE f * m[x] <= left[x]
    <2>1. PICK a, b : a = left[x] /\ b = m[x]
      OBVIOUS
    <2>2. a \in Nat /\ b \in Nat
      BY <1>0, <2>1
    <2>3. CASE b = 0
      <3>1. f * b = 0
        BY <1>7, <2>3
      <3> QED BY <2>1, <2>2, <3>1
    <2>4. CASE b # 0
      <3>1. x \in D
        BY <2>1, <2>2, <2>4
      <3>2. PICK c : c = a \div b
        OBVIOUS
      <3>3. c \in Nat /\ c * b <= a /\ f <= c
        BY <1>1, <1>7, <2>1, <3>1, <3>2
      <3>4. f * b <= c * b
        BY <1>7, <2>2, <3>3
      <3>5. f * b \in Nat /\ c * b \in Nat
        BY <1>7, <2>2, <3>3
      <3> QED BY <2>1, <2>2, <3>3, <3>4, <3>5
    <2> QED BY <2>3, <2>4
  <1>11. ~Tight(left, m) => f >= 1
    <2>1. ASSUME ~Tight(left, m) PROVE m[d] <= left[d]
      BY <1>0, <2>1 DEF Tight
    <2> QED BY <1>1, <1>8, <2>1
  <1>12. d = "weight" \/ d = "volume"
    OBVIOUS
  <1> HIDE DEF D, Q
  <1> QED BY <1>4, <1>7, <1>9, <1>10, <1>11, <1>12

Bin == [left : MeasureType, held : [Product -> Nat]]
Sizes == [Product -> MeasureType]
Loaded(held, mu, d) == SumFunction([p \in Product |-> held[p] * mu[p][d]])

\* What is left of a carton is what its format allows less what it holds.
Weighed(b, mu) == b \in Bin /\ mu \in Sizes /\
    /\ b.left.weight + Loaded(b.held, mu, "weight") = CartonSize.weight
    /\ b.left.volume + Loaded(b.held, mu, "volume") = CartonSize.volume

\* A unit of the item has a measure and an empty carton has room for it.
CanPack(item, mu) ==
    /\ mu \in Sizes /\ item.product \in Product /\ item.quantity \in Nat /\ item.measure \in MeasureType
    /\ item.measure = mu[item.product]
    /\ item.measure.weight > 0 \/ item.measure.volume > 0
    /\ ~Tight(CartonSize, item.measure)

PutFits(b, item, n) ==
    /\ n \in Nat /\ n * item.measure.weight <= b.left.weight /\ n * item.measure.volume <= b.left.volume

LEMMA LoadTyped ==
    ASSUME NEW mu \in Sizes, NEW held \in [Product -> Nat], NEW d \in {"weight", "volume"}
    PROVE  Loaded(held, mu, d) \in Nat
  <1> DEFINE loads == [p \in Product |-> held[p] * mu[p][d]]
  <1>1. \A p \in Product : mu[p][d] \in Nat
    BY DEF Sizes, MeasureType
  <1>2. ASSUME NEW p \in Product PROVE held[p] * mu[p][d] \in Nat
    <2>1. PICK a, b : a = held[p] /\ b = mu[p][d]
      OBVIOUS
    <2>2. a \in Nat /\ b \in Nat
      BY <1>1, <2>1
    <2>3. a * b \in Nat
      BY <2>2
    <2> QED BY <2>1, <2>3
  <1>3. loads \in [Product -> Nat]
    BY <1>2
  <1>4. Loaded(held, mu, d) = SumFunction(loads)
    BY DEF Loaded
  <1> HIDE DEF loads
  <1> QED BY <1>3, <1>4, KitsAssumption, SumIsHeap

LEMMA LoadGrows ==
    ASSUME NEW mu \in Sizes, NEW held \in [Product -> Nat], NEW more \in [Product -> Nat], NEW q \in Product,
           NEW n \in Nat, NEW d \in {"weight", "volume"},
           more = [held EXCEPT ![q] = @ + n]
    PROVE  /\ Loaded(held, mu, d) \in Nat /\ Loaded(more, mu, d) = Loaded(held, mu, d) + n * mu[q][d]
  <1> DEFINE old == [p \in Product |-> held[p] * mu[p][d]]
             new == [p \in Product |-> more[p] * mu[p][d]]
  <1>1. \A p \in Product : mu[p][d] \in Nat
    BY DEF Sizes, MeasureType
  <1>2. ASSUME NEW p \in Product
        PROVE  held[p] * mu[p][d] \in Nat /\ more[p] * mu[p][d] \in Nat
    <2>1. PICK a, b, c : a = held[p] /\ b = mu[p][d] /\ c = more[p]
      OBVIOUS
    <2>2. a \in Nat /\ b \in Nat /\ c \in Nat
      BY <1>1, <2>1
    <2>3. a * b \in Nat /\ c * b \in Nat
      BY <2>2
    <2> QED BY <2>1, <2>3
  <1>3. old \in [Product -> Nat] /\ new \in [Product -> Nat]
    BY <1>2
  <1>4. \A p \in Product \ {q} : new[p] = old[p]
    OBVIOUS
  <1>5. new[q] = old[q] + n * mu[q][d]
    <2>1. PICK a, b, c : a = held[q] /\ b = mu[q][d] /\ c = more[q]
      OBVIOUS
    <2>2. a \in Nat /\ b \in Nat /\ c = a + n
      BY <1>1, <2>1
    <2>3. c * b = a * b + n * b
      BY <2>2
    <2> QED BY <2>1, <2>3
  <1>6. Loaded(held, mu, d) = SumFunction(old) /\ Loaded(more, mu, d) = SumFunction(new)
    BY DEF Loaded
  <1>7. old[q] \in Nat /\ n * mu[q][d] \in Nat
    <2>1. PICK b : b = mu[q][d]
      OBVIOUS
    <2>2. b \in Nat /\ n * b \in Nat
      BY <1>1, <2>1
    <2> HIDE DEF old
    <2> QED BY <1>3, <2>1, <2>2
  <1> HIDE DEF old, new
  <1>8. SumFunction(old) \in Nat /\ SumFunction(new) = SumFunction(old) + n * mu[q][d]
    <2>1. PICK c : c = n * mu[q][d]
      OBVIOUS
    <2>2. c \in Nat /\ new[q] = old[q] + c
      BY <1>5, <1>7, <2>1
    <2>3. SumFunction(old) \in Nat /\ SumFunction(new) = SumFunction(old) + c
      <3>1. Raises(new, old, Product, q, c)
        BY <1>3, <1>4, <2>2, KitsAssumption DEF Raises
      <3> QED BY <3>1, SumRaises
    <2> QED BY <2>1, <2>3
  <1> QED BY <1>6, <1>8

LEMMA PutIs ==
    ASSUME NEW b, NEW mu, Weighed(b, mu), NEW item, CanPack(item, mu), NEW n, PutFits(b, item, n)
    PROVE  /\ Weighed(Put(b, item, n), mu)
           /\ Put(b, item, n).left.weight = b.left.weight - n * item.measure.weight
           /\ Put(b, item, n).left.volume = b.left.volume - n * item.measure.volume
           /\ Put(b, item, n).held = [b.held EXCEPT ![item.product] = @ + n]
  <1>1. PICK q, m, w, v : q = item.product /\ m = item.measure /\ w = m.weight /\ v = m.volume
    OBVIOUS
  <1>2. /\ mu \in Sizes /\ q \in Product /\ m \in MeasureType /\ m = mu[q] /\ n \in Nat
        /\ w \in Nat /\ v \in Nat
    BY <1>1 DEF CanPack, PutFits, MeasureType
  <1>3. PICK lw, lv : lw = b.left.weight /\ lv = b.left.volume
    OBVIOUS
  <1>4. lw \in Nat /\ lv \in Nat /\ n * w <= lw /\ n * v <= lv
    BY <1>1, <1>3 DEF Weighed, Bin, MeasureType, PutFits
  <1>5. PICK more : more = [b.held EXCEPT ![q] = @ + n]
    OBVIOUS
  <1>6. b.held \in [Product -> Nat] /\ more \in [Product -> Nat]
    BY <1>2, <1>5 DEF Weighed, Bin
  <1>7. n * w \in Nat /\ n * v \in Nat
    BY <1>2
  <1>8. PICK x, y : x = n * w /\ y = n * v
    OBVIOUS
  <1>9. lw - x \in Nat /\ lv - y \in Nat /\ x \in Nat /\ y \in Nat
    BY <1>4, <1>7, <1>8
  <1>10. Put(b, item, n) = [left |-> [weight |-> lw - x, volume |-> lv - y], held |-> more]
    BY <1>1, <1>3, <1>5, <1>8 DEF Put, Without
  <1>11. Put(b, item, n) \in Bin
    BY <1>6, <1>9, <1>10 DEF Bin, MeasureType
  <1>12. /\ Loaded(b.held, mu, "weight") \in Nat /\ Loaded(more, mu, "weight") = Loaded(b.held, mu, "weight") + x
         /\ Loaded(b.held, mu, "volume") \in Nat /\ Loaded(more, mu, "volume") = Loaded(b.held, mu, "volume") + y
    <2>1. mu[q]["weight"] = w /\ mu[q]["volume"] = v
      BY <1>1, <1>2
    <2>2. /\ Loaded(b.held, mu, "weight") \in Nat
          /\ Loaded(more, mu, "weight") = Loaded(b.held, mu, "weight") + n * mu[q]["weight"]
      BY <1>2, <1>5, <1>6, LoadGrows
    <2>3. /\ Loaded(b.held, mu, "volume") \in Nat
          /\ Loaded(more, mu, "volume") = Loaded(b.held, mu, "volume") + n * mu[q]["volume"]
      BY <1>2, <1>5, <1>6, LoadGrows
    <2> QED BY <1>8, <2>1, <2>2, <2>3
  <1>13. PICK c, e : c = Loaded(b.held, mu, "weight") /\ e = Loaded(b.held, mu, "volume")
    OBVIOUS
  <1>14. lw + c = CartonSize.weight /\ lv + e = CartonSize.volume /\ c \in Nat /\ e \in Nat
    BY <1>3, <1>12, <1>13 DEF Weighed
  <1>15. (lw - x) + (c + x) = CartonSize.weight /\ (lv - y) + (e + y) = CartonSize.volume
    <2>1. (lw - x) + (c + x) = lw + c /\ (lv - y) + (e + y) = lv + e
      BY <1>4, <1>9, <1>14
    <2> QED BY <1>14, <2>1
  <1>16. Weighed(Put(b, item, n), mu)
    BY <1>2, <1>10, <1>11, <1>12, <1>13, <1>15 DEF Weighed
  <1> QED BY <1>1, <1>3, <1>5, <1>8, <1>10, <1>16

LEMMA EmptyIs ==
    ASSUME NEW mu \in Sizes
    PROVE  Weighed(EmptyBin, mu) /\ EmptyBin.left = CartonSize /\ EmptyBin.held = [p \in Product |-> 0]
  <1> DEFINE none == [p \in Product |-> 0]
  <1>1. EmptyBin = [left |-> CartonSize, held |-> none]
    BY DEF EmptyBin
  <1>2. CartonSize \in MeasureType
    BY PackingAssumption
  <1>3. EmptyBin \in Bin
    BY <1>1, <1>2 DEF Bin
  <1>4. ASSUME NEW d \in {"weight", "volume"} PROVE Loaded(none, mu, d) = 0
    <2> DEFINE sizes == [p \in Product |-> none[p] * mu[p][d]]
    <2>1. ASSUME NEW p \in Product PROVE sizes[p] = 0
      <3>1. PICK a : a = mu[p][d] /\ a \in Nat
        BY DEF Sizes, MeasureType
      <3>2. 0 * a = 0
        BY <3>1
      <3> QED BY <3>1, <3>2
    <2>2. sizes \in [Product -> Nat]
      <3>1. sizes = [p \in Product |-> sizes[p]]
        OBVIOUS
      <3> HIDE DEF sizes
      <3> QED BY <2>1, <3>1
    <2>3. Loaded(none, mu, d) = SumFunction(sizes)
      BY DEF Loaded
    <2> HIDE DEF sizes
    <2> QED BY <2>1, <2>2, <2>3, KitsAssumption, SumOfZeros
  <1>5. CartonSize.weight \in Nat /\ CartonSize.volume \in Nat
    BY <1>2 DEF MeasureType
  <1> HIDE DEF none
  <1>6. /\ EmptyBin.left.weight + Loaded(EmptyBin.held, mu, "weight") = CartonSize.weight
        /\ EmptyBin.left.volume + Loaded(EmptyBin.held, mu, "volume") = CartonSize.volume
    BY <1>1, <1>4, <1>5
  <1> QED BY <1>1, <1>3, <1>6 DEF Weighed, none

\* What is left of an item after each carton.
Pours(L, bins, item) ==
    /\ L \in [0..Len(bins) -> Nat] /\ L[0] = item.quantity
    /\ \A i \in 1..Len(bins) : L[i] = L[i - 1] - Min({L[i - 1], Fit(bins[i].left, item.measure)})

\* The cartons there were, and those that are opened for the rest.
Topped(bins, item, L) == [i \in DOMAIN bins |-> Put(bins[i], item, L[i - 1] - L[i])]
Full(item) == Max({1, Fit(CartonSize, item.measure)})
Opened(item, rest) ==
    [i \in 1..((rest + Full(item) - 1) \div Full(item)) |->
        Put(EmptyBin, item, Min({Full(item), rest - (i - 1) * Full(item)}))]

LEMMA BinFits ==
    ASSUME NEW b \in Bin, NEW item, NEW mu, CanPack(item, mu)
    PROVE  Fits(b.left, item.measure)
  BY DEF Bin, Fits, CanPack

LEMMA PlaceItemIs ==
    ASSUME NEW bins \in Seq(Bin), NEW item, NEW mu, CanPack(item, mu)
    PROVE  \E L : /\ Pours(L, bins, item)
                  /\ PlaceItem(bins, item) = Topped(bins, item, L) \o Opened(item, L[Len(bins)])
  <1> DEFINE N == Len(bins)
             room(b) == Fit(b.left, item.measure)
             body(f) == [i \in 0..N |->
                           IF i = 0 THEN item.quantity ELSE f[i - 1] - Min({f[i - 1], room(bins[i])})]
             iter == CHOOSE f : f = body(f)
             step == [z \in (1..N) \X Nat |-> z[2] - Min({z[2], room(bins[z[1]])})]
  <1>1. PlaceItem(bins, item) = Topped(bins, item, iter) \o Opened(item, iter[N])
    BY DEF PlaceItem, Topped, Opened, Full
  <1>2. N \in Nat /\ item.quantity \in Nat
    BY DEF CanPack
  <1>3. \A i \in 1..N : room(bins[i]) \in Nat
    <2>1. ASSUME NEW i \in 1..N PROVE room(bins[i]) \in Nat
      <3>1. bins[i] \in Bin
        OBVIOUS
      <3>2. Fits(bins[i].left, item.measure)
        BY <3>1, BinFits
      <3> QED BY <3>2, FitIs
    <2> QED BY <2>1
  <1> HIDE DEF N, room
  <1>4. \A i \in 1..N : \A v \in Nat : v - Min({v, room(bins[i])}) \in Nat
    <2>1. ASSUME NEW i \in 1..N, NEW v \in Nat PROVE v - Min({v, room(bins[i])}) \in Nat
      <3>1. PICK r : r = room(bins[i])
        OBVIOUS
      <3>2. Min({v, r}) = IF v <= r THEN v ELSE r
        BY <1>3, <3>1, MinOfTwo
      <3> QED BY <1>3, <3>1, <3>2
    <2> QED BY <2>1
  <1>5. step \in [(1..N) \X Nat -> Nat]
        /\ \A i \in 1..N : \A v \in Nat : step[<<i, v>>] = v - Min({v, room(bins[i])})
    BY <1>4
  <1> HIDE DEF step
  <1>6. PICK f \in [0..N -> Nat] : f[0] = item.quantity /\ \A i \in 1..N : f[i] = step[<<i, f[i - 1]>>]
    <2>1. StepsUp(N, Nat, item.quantity, step)
      BY <1>2, <1>5 DEF StepsUp
    <2>2. PICK f : Climbs(f, N, Nat, item.quantity, step)
      BY <2>1, UpRecursion
    <2> QED BY <2>2 DEF Climbs
  <1>7. \A i \in 1..N : i - 1 \in 0..N /\ i \in 0..N /\ i # 0
    BY <1>2
  <1>8. f = body(f)
    <2>1. \A i \in 0..N : i # 0 => i \in 1..N
      BY <1>2
    <2>2. \A i \in 0..N : f[i] = IF i = 0 THEN item.quantity ELSE f[i - 1] - Min({f[i - 1], room(bins[i])})
      BY <1>5, <1>6, <1>7, <2>1
    <2> QED BY <1>6, <2>2
  <1>9. iter = body(iter)
    <2> HIDE DEF body
    <2> QED BY <1>8
  <1> HIDE DEF iter
  <1>10. /\ iter[0] = item.quantity /\ iter = [i \in 0..N |-> iter[i]]
         /\ \A i \in 1..N : iter[i] = iter[i - 1] - Min({iter[i - 1], room(bins[i])})
    <2>1. \A i \in 0..N :
            iter[i] = IF i = 0 THEN item.quantity ELSE iter[i - 1] - Min({iter[i - 1], room(bins[i])})
      BY <1>9
    <2>2. 0 \in 0..N
      BY <1>2
    <2>3. iter = [i \in 0..N |-> iter[i]]
      BY <1>9
    <2> HIDE DEF body
    <2> QED BY <1>7, <2>1, <2>2, <2>3
  <1> HIDE DEF body
  <1>11. \A i \in 0..N : iter[i] \in Nat
    <2> DEFINE P == {i \in Nat : i <= N => iter[i] \in Nat}
    <2>1. 0 \in P
      BY <1>2, <1>10
    <2>2. ASSUME NEW i \in Nat, i \in P PROVE i + 1 \in P
      <3> SUFFICES ASSUME i + 1 <= N PROVE iter[i + 1] \in Nat
        OBVIOUS
      <3>1. i + 1 \in 1..N /\ (i + 1) - 1 = i /\ iter[i] \in Nat
        BY <1>2, <2>2
      <3> QED BY <1>4, <1>10, <3>1
    <2> HIDE DEF P
    <2>3. \A i \in Nat : i \in P
      BY <2>1, <2>2, CountUp
    <2>4. \A i \in 0..N : i \in Nat /\ i <= N
      BY <1>2
    <2> QED BY <2>3, <2>4 DEF P
  <1>12. Pours(iter, bins, item)
    <2>1. iter \in [0..N -> Nat]
      BY <1>10, <1>11
    <2> QED BY <1>10, <2>1 DEF Pours, N, room
  <1> QED BY <1>1, <1>12 DEF N

Weighty(bins, mu) == bins \in Seq(Bin) /\ \A i \in 1..Len(bins) : Weighed(bins[i], mu)
Pouring(L, bins, item, mu) == Weighty(bins, mu) /\ CanPack(item, mu) /\ Pours(L, bins, item)

LEMMA PourFacts ==
    ASSUME NEW L, NEW bins, NEW item, NEW mu, Pouring(L, bins, item, mu), NEW i \in 1..Len(bins)
    PROVE  /\ L[i - 1] \in Nat /\ L[i] \in Nat /\ L[i] <= L[i - 1] /\ L[i - 1] - L[i] \in Nat
           /\ Weighed(bins[i], mu) /\ bins[i] \in Bin
           /\ Fit(bins[i].left, item.measure) \in Nat
           /\ L[i] > 0 => L[i - 1] - L[i] = Fit(bins[i].left, item.measure)
           /\ PutFits(bins[i], item, L[i - 1] - L[i])
  <1>1. PICK b : b = bins[i]
    OBVIOUS
  <1>2. b \in Bin /\ Weighed(b, mu)
    BY <1>1 DEF Pouring, Weighty
  <1>3. CanPack(item, mu)
    BY DEF Pouring
  <1>4. PICK f : f = Fit(b.left, item.measure)
    OBVIOUS
  <1>5. f \in Nat /\ f * item.measure.weight <= b.left.weight /\ f * item.measure.volume <= b.left.volume
    BY <1>2, <1>3, <1>4, BinFits, FitIs
  <1>6. PICK n \in Nat : n = Len(bins)
    BY DEF Pouring, Weighty
  <1>7. i - 1 \in 0..n /\ i \in 0..n
    BY <1>6
  <1>8. L \in [0..n -> Nat] /\ L[i] = L[i - 1] - Min({L[i - 1], f})
    BY <1>1, <1>4, <1>6 DEF Pouring, Pours
  <1>9. PICK before, after : before = L[i - 1] /\ after = L[i]
    OBVIOUS
  <1>10. before \in Nat /\ after \in Nat /\ after = before - (IF before <= f THEN before ELSE f)
    BY <1>5, <1>7, <1>8, <1>9, MinOfTwo
  <1>11. before - after \in Nat /\ after <= before /\ before - after <= f /\ (after > 0 => before - after = f)
    BY <1>5, <1>10
  <1>12. PICK t : t = before - after
    OBVIOUS
  <1>13. PICK w, v : w = item.measure.weight /\ v = item.measure.volume
    OBVIOUS
  <1>14. w \in Nat /\ v \in Nat /\ b.left.weight \in Nat /\ b.left.volume \in Nat
    BY <1>2, <1>3, <1>13 DEF CanPack, MeasureType, Bin
  <1>15. t * w <= f * w /\ t * v <= f * v
    BY <1>5, <1>11, <1>12, <1>14
  <1>16. t * w \in Nat /\ t * v \in Nat /\ f * w \in Nat /\ f * v \in Nat
    BY <1>5, <1>11, <1>12, <1>14
  <1>17. t * w <= b.left.weight /\ t * v <= b.left.volume
    <2>1. f * w <= b.left.weight /\ f * v <= b.left.volume
      BY <1>5, <1>13
    <2>2. PICK tw, tv, fw, fv : tw = t * w /\ tv = t * v /\ fw = f * w /\ fv = f * v
      OBVIOUS
    <2>3. tw <= fw /\ tv <= fv /\ fw <= b.left.weight /\ fv <= b.left.volume
      BY <1>15, <2>1, <2>2
    <2>4. tw \in Nat /\ tv \in Nat /\ fw \in Nat /\ fv \in Nat
      BY <1>16, <2>2
    <2>5. tw <= b.left.weight /\ tv <= b.left.volume
      BY <1>14, <2>3, <2>4
    <2> QED BY <2>2, <2>5
  <1>18. PutFits(b, item, t)
    BY <1>11, <1>12, <1>13, <1>17 DEF PutFits
  <1> QED BY <1>1, <1>2, <1>4, <1>5, <1>9, <1>10, <1>11, <1>12, <1>18

\* What is left of the item only diminishes.
LEMMA PourFalls ==
    ASSUME NEW L, NEW bins, NEW item, NEW mu, Pouring(L, bins, item, mu),
           NEW i \in 0..Len(bins), NEW j \in 0..Len(bins), i <= j
    PROVE  L[j] \in Nat /\ L[i] \in Nat /\ L[j] <= L[i]
  <1>1. PICK n \in Nat : n = Len(bins)
    BY DEF Pouring, Weighty
  <1>2. L \in [0..n -> Nat]
    BY <1>1 DEF Pouring, Pours
  <1> DEFINE P == {d \in Nat : i + d <= n => L[i + d] <= L[i]}
  <1>3. 0 \in P
    <2>1. i + 0 = i /\ i \in 0..n
      BY <1>1
    <2> QED BY <1>2, <2>1
  <1>4. ASSUME NEW d \in Nat, d \in P PROVE d + 1 \in P
    <2> SUFFICES ASSUME i + (d + 1) <= n PROVE L[i + (d + 1)] <= L[i]
      OBVIOUS
    <2>1. PICK k : k = i + (d + 1)
      OBVIOUS
    <2>2. k \in 1..n /\ k - 1 = i + d /\ i + d <= n /\ i \in 0..n
      BY <1>1, <2>1
    <2>3. L[k] \in Nat /\ L[k - 1] \in Nat /\ L[k] <= L[k - 1]
      BY <1>1, <2>2, PourFacts
    <2>4. L[k - 1] <= L[i] /\ L[i] \in Nat
      BY <1>2, <1>4, <2>2
    <2> QED BY <2>1, <2>3, <2>4
  <1>5. j - i \in Nat /\ i + (j - i) = j /\ j <= n /\ i \in 0..n /\ j \in 0..n
    BY <1>1
  <1>6. j - i \in P
    <2> HIDE DEF P
    <2> QED BY <1>3, <1>4, <1>5, CountUp
  <1> QED BY <1>2, <1>5, <1>6

LEMMA ToppedIs ==
    ASSUME NEW L, NEW bins, NEW item, NEW mu, Pouring(L, bins, item, mu)
    PROVE  /\ Weighty(Topped(bins, item, L), mu) /\ Len(Topped(bins, item, L)) = Len(bins)
           /\ \A i \in 1..Len(bins) :
                 /\ Topped(bins, item, L)[i].held = [bins[i].held EXCEPT ![item.product] = @ + (L[i - 1] - L[i])]
                 /\ Topped(bins, item, L)[i].left.weight <= bins[i].left.weight
                 /\ Topped(bins, item, L)[i].left.volume <= bins[i].left.volume
                 /\ L[i] > 0 => Tight(Topped(bins, item, L)[i].left, item.measure)
  <1>1. PICK n \in Nat : n = Len(bins) /\ DOMAIN bins = 1..n
    BY DEF Pouring, Weighty
  <1>2. PICK T : T = Topped(bins, item, L)
    OBVIOUS
  <1>3. T = [i \in 1..n |-> Put(bins[i], item, L[i - 1] - L[i])]
    BY <1>1, <1>2 DEF Topped
  <1>4. ASSUME NEW i \in 1..n
        PROVE  /\ Weighed(T[i], mu) /\ T[i] \in Bin
               /\ T[i].held = [bins[i].held EXCEPT ![item.product] = @ + (L[i - 1] - L[i])]
               /\ T[i].left.weight <= bins[i].left.weight
               /\ T[i].left.volume <= bins[i].left.volume
               /\ L[i] > 0 => Tight(T[i].left, item.measure)
    <2>1. PICK b, t : b = bins[i] /\ t = L[i - 1] - L[i]
      OBVIOUS
    <2>2. /\ t \in Nat /\ Weighed(b, mu) /\ b \in Bin /\ PutFits(b, item, t)
          /\ L[i] > 0 => t = Fit(b.left, item.measure)
      BY <1>1, <2>1, PourFacts
    <2>3. CanPack(item, mu)
      BY DEF Pouring
    <2>4. PICK c : c = Put(b, item, t)
      OBVIOUS
    <2>5. T[i] = c
      BY <1>3, <2>1, <2>4
    <2>6. /\ Weighed(c, mu)
          /\ c.left.weight = b.left.weight - t * item.measure.weight
          /\ c.left.volume = b.left.volume - t * item.measure.volume
          /\ c.held = [b.held EXCEPT ![item.product] = @ + t]
      BY <2>2, <2>3, <2>4, PutIs
    <2>7. c \in Bin
      BY <2>6 DEF Weighed
    <2>8. PICK w, v : w = item.measure.weight /\ v = item.measure.volume
      OBVIOUS
    <2>9. w \in Nat /\ v \in Nat /\ b.left.weight \in Nat /\ b.left.volume \in Nat
      BY <2>2, <2>3, <2>8 DEF CanPack, MeasureType, Bin
    <2>10. t * w \in Nat /\ t * v \in Nat
      BY <2>2, <2>9
    <2>11. c.left.weight <= b.left.weight /\ c.left.volume <= b.left.volume
      BY <2>6, <2>8, <2>9, <2>10
    <2>12. ASSUME L[i] > 0 PROVE Tight(c.left, item.measure)
      <3>1. \/ b.left.weight - t * w < w
            \/ b.left.volume - t * v < v
        BY <2>2, <2>3, <2>8, <2>12, BinFits, FitIs
      <3> QED BY <2>6, <2>8, <3>1 DEF Tight
    <2> QED BY <2>1, <2>5, <2>6, <2>7, <2>11, <2>12
  <1>5. T \in [1..n -> Bin]
    BY <1>3, <1>4
  <1>6. T \in Seq(Bin) /\ Len(T) = n
    BY <1>5, LenIs
  <1>7. Weighty(T, mu)
    BY <1>4, <1>6 DEF Weighty
  <1> QED BY <1>1, <1>2, <1>4, <1>6, <1>7

LEMMA OpenedIs ==
    ASSUME NEW item, NEW mu, CanPack(item, mu), NEW rest \in Nat
    PROVE  /\ Full(item) \in Nat \ {0} /\ Full(item) = Fit(CartonSize, item.measure)
           /\ Weighty(Opened(item, rest), mu)
           /\ Len(Opened(item, rest)) = (rest + Full(item) - 1) \div Full(item)
           /\ Len(Opened(item, rest)) \in Nat
           /\ rest = 0 => Len(Opened(item, rest)) = 0
           /\ \A i \in 1..Len(Opened(item, rest)) :
                 /\ Opened(item, rest)[i].held =
                       [p \in Product |-> IF p = item.product
                                          THEN IF i * Full(item) <= rest THEN Full(item)
                                               ELSE rest - (i - 1) * Full(item)
                                          ELSE 0]
                 /\ (i - 1) * Full(item) < rest
                 /\ i < Len(Opened(item, rest)) => Tight(Opened(item, rest)[i].left, item.measure)
           /\ Len(Opened(item, rest)) * Full(item) >= rest
  <1>1. PICK m, w, v : m = item.measure /\ w = m.weight /\ v = m.volume
    OBVIOUS
  <1>2. w \in Nat /\ v \in Nat /\ item.product \in Product /\ mu \in Sizes
    BY <1>1 DEF CanPack, MeasureType
  <1>3. PICK full : full = Full(item)
    OBVIOUS
  <1>4. Fits(CartonSize, m) /\ ~Tight(CartonSize, m)
    BY <1>1, PackingAssumption DEF CanPack, Fits
  <1>5. PICK f : f = Fit(CartonSize, m)
    OBVIOUS
  <1>6. /\ f \in Nat /\ f >= 1 /\ f * w <= CartonSize.weight /\ f * v <= CartonSize.volume
        /\ CartonSize.weight - f * w < w \/ CartonSize.volume - f * v < v
    BY <1>1, <1>4, <1>5, FitIs
  <1>7. full = f
    <2>1. Max({1, f}) = IF 1 <= f THEN f ELSE 1
      BY <1>6, MaxOfTwo
    <2>2. full = Max({1, f})
      BY <1>1, <1>3, <1>5 DEF Full
    <2> QED BY <1>6, <2>1, <2>2
  <1>8. PICK n : n = (rest + full - 1) \div full
    OBVIOUS
  <1>9. n \in Nat /\ n * full <= rest + full - 1 /\ (rest + full - 1) - n * full < full
    <2>1. PICK a : a = rest + full - 1
      OBVIOUS
    <2>2. a \in Nat /\ full \in Nat \ {0}
      BY <1>6, <1>7, <2>1
    <2> QED BY <1>8, <2>1, <2>2, Division
  <1>10. n * full \in Nat /\ n * full >= rest
    <2>1. PICK a : a = n * full
      OBVIOUS
    <2>2. a \in Nat
      BY <1>6, <1>7, <1>9, <2>1
    <2> QED BY <1>6, <1>7, <1>9, <2>1, <2>2
  <1>11. ASSUME NEW i \in 1..n
         PROVE  (i - 1) * full < rest /\ (i - 1) * full \in Nat /\ i * full = (i - 1) * full + full
                /\ (i < n => i * full <= rest)
    <2>1. PICK k \in Nat : i = k + 1 /\ k <= n - 1
      <3>1. i - 1 \in Nat /\ i = (i - 1) + 1 /\ i - 1 <= n - 1
        BY <1>9
      <3> QED BY <3>1
    <2>2. PICK a, b : a = k * full /\ b = (n - 1) * full
      OBVIOUS
    <2>3. a \in Nat /\ b \in Nat /\ a <= b /\ n * full = b + full /\ i * full = a + full
      <3>1. n - 1 \in Nat /\ full \in Nat
        BY <1>6, <1>7, <1>9, <2>1
      <3>2. b + full = n * full /\ a + full = i * full
        BY <1>9, <2>1, <2>2, <3>1
      <3> QED BY <2>1, <2>2, <3>1, <3>2
    <2>4. b < rest
      BY <1>6, <1>7, <1>9, <2>3
    <2>5. i - 1 = k
      BY <2>1
    <2>6. ASSUME i < n PROVE i * full <= rest
      <3>1. i <= n - 1 /\ n - 1 \in Nat /\ full \in Nat /\ i \in Nat
        BY <1>6, <1>7, <1>9, <2>1, <2>6
      <3>2. i * full <= b
        BY <2>2, <3>1
      <3> QED BY <2>3, <2>4, <3>1, <3>2
    <2> QED BY <2>2, <2>3, <2>4, <2>5, <2>6
  <1> DEFINE amount(i) == IF i * full <= rest THEN full ELSE rest - (i - 1) * full
  <1>12. ASSUME NEW i \in 1..n
         PROVE  Min({full, rest - (i - 1) * full}) = amount(i) /\ amount(i) \in Nat /\ amount(i) <= full
    <2>1. PICK a : a = (i - 1) * full
      OBVIOUS
    <2>2. a \in Nat /\ a < rest /\ i * full = a + full
      BY <1>11, <2>1
    <2>3. rest - a \in Nat /\ full \in Nat
      BY <1>6, <1>7, <2>2
    <2>4. Min({full, rest - a}) = IF full <= rest - a THEN full ELSE rest - a
      BY <2>3, MinOfTwo
    <2>5. full <= rest - a <=> i * full <= rest
      BY <2>2, <2>3
    <2> QED BY <2>1, <2>3, <2>4, <2>5
  <1>13. PICK O : O = Opened(item, rest)
    OBVIOUS
  <1>14. O = [i \in 1..n |-> Put(EmptyBin, item, amount(i))]
    <2>1. O = [i \in 1..n |-> Put(EmptyBin, item, Min({full, rest - (i - 1) * full}))]
      BY <1>3, <1>8, <1>13 DEF Opened
    <2> HIDE DEF amount
    <2> QED BY <1>12, <2>1
  <1>15. ASSUME NEW i \in 1..n
         PROVE  /\ Weighed(O[i], mu) /\ O[i] \in Bin
                /\ O[i].held = [p \in Product |-> IF p = item.product THEN amount(i) ELSE 0]
                /\ i < n => Tight(O[i].left, m)
    <2>1. PICK t : t = amount(i)
      OBVIOUS
    <2>2. t \in Nat /\ t <= full /\ (i < n => t = full)
      BY <1>11, <1>12, <2>1
    <2> HIDE DEF amount
    <2>3. O[i] = Put(EmptyBin, item, t)
      BY <1>14, <2>1
    <2>4. Weighed(EmptyBin, mu) /\ EmptyBin.left = CartonSize /\ EmptyBin.held = [p \in Product |-> 0]
      BY <1>2, EmptyIs
    <2>5. t * w <= full * w /\ t * v <= full * v
      BY <1>2, <1>6, <1>7, <2>2
    <2>6. t * w \in Nat /\ t * v \in Nat /\ full * w \in Nat /\ full * v \in Nat
      BY <1>2, <1>6, <1>7, <2>2
    <2>7. CartonSize.weight \in Nat /\ CartonSize.volume \in Nat
      BY PackingAssumption DEF MeasureType
    <2>8. PutFits(EmptyBin, item, t)
      <3>1. t * w <= CartonSize.weight /\ t * v <= CartonSize.volume
        BY <1>6, <1>7, <2>5, <2>6, <2>7
      <3> QED BY <1>1, <2>2, <2>4, <3>1 DEF PutFits
    <2>9. PICK c : c = O[i]
      OBVIOUS
    <2>10. /\ Weighed(c, mu)
           /\ c.left.weight = CartonSize.weight - t * w
           /\ c.left.volume = CartonSize.volume - t * v
           /\ c.held = [EmptyBin.held EXCEPT ![item.product] = @ + t]
      BY <1>1, <2>3, <2>4, <2>8, <2>9, PutIs
    <2>11. c.held = [p \in Product |-> IF p = item.product THEN t ELSE 0]
      BY <1>2, <2>2, <2>4, <2>10
    <2>12. c \in Bin
      BY <2>10 DEF Weighed
    <2>13. ASSUME i < n PROVE Tight(c.left, m)
      <3>1. t = f
        BY <1>7, <2>2, <2>13
      <3> QED BY <1>1, <1>6, <2>10, <3>1 DEF Tight
    <2> QED BY <2>1, <2>9, <2>10, <2>11, <2>12, <2>13
  <1> HIDE DEF amount
  <1>16. O \in [1..n -> Bin]
    BY <1>14, <1>15
  <1>17. O \in Seq(Bin) /\ Len(O) = n
    BY <1>9, <1>16, LenIs
  <1>18. Weighty(O, mu)
    BY <1>15, <1>17 DEF Weighty
  <1>19. rest = 0 => n = 0
    <2>1. ASSUME rest = 0, n # 0 PROVE FALSE
      <3>1. 1 \in 1..n
        BY <1>9, <2>1
      <3>2. (1 - 1) * full < rest /\ (1 - 1) * full \in Nat
        BY <1>11, <3>1
      <3> QED BY <2>1, <3>2
    <2> QED BY <2>1
  <1>20. full \in Nat \ {0}
    BY <1>6, <1>7
  <1>21. \A i \in 1..n :
           /\ O[i].held = [p \in Product |-> IF p = item.product
                                            THEN IF i * full <= rest THEN full ELSE rest - (i - 1) * full
                                            ELSE 0]
           /\ (i - 1) * full < rest
           /\ i < n => Tight(O[i].left, m)
    BY <1>11, <1>15 DEF amount
  <1>22. full = Fit(CartonSize, m)
    BY <1>5, <1>7
  <1>23. Weighty(O, mu) /\ Len(O) = (rest + full - 1) \div full /\ Len(O) \in Nat
         /\ (rest = 0 => Len(O) = 0) /\ Len(O) * full >= rest
    BY <1>8, <1>9, <1>10, <1>17, <1>18, <1>19
  <1>24. \A i \in 1..Len(O) :
           /\ O[i].held = [p \in Product |-> IF p = item.product
                                            THEN IF i * full <= rest THEN full ELSE rest - (i - 1) * full
                                            ELSE 0]
           /\ (i - 1) * full < rest
           /\ i < Len(O) => Tight(O[i].left, m)
    BY <1>17, <1>21
  <1>25. m = item.measure /\ full = Full(item) /\ O = Opened(item, rest)
    BY <1>1, <1>3, <1>13
  <1>26. full \in Nat \ {0} /\ full = Fit(CartonSize, item.measure)
    BY <1>20, <1>22, <1>25
  <1>27. \A i \in 1..Len(O) :
           /\ O[i].held = [p \in Product |-> IF p = item.product
                                            THEN IF i * Full(item) <= rest THEN Full(item)
                                                 ELSE rest - (i - 1) * Full(item)
                                            ELSE 0]
           /\ (i - 1) * Full(item) < rest
           /\ i < Len(O) => Tight(O[i].left, item.measure)
    BY <1>24, <1>25
  <1>28. Weighty(O, mu) /\ Len(O) = (rest + Full(item) - 1) \div Full(item) /\ Len(O) \in Nat
         /\ (rest = 0 => Len(O) = 0) /\ Len(O) * Full(item) >= rest
    BY <1>23, <1>25
  <1> QED BY <1>25, <1>26, <1>27, <1>28

LEMMA ContentsTyped ==
    ASSUME NEW bins \in Seq(Bin), NEW p \in Product
    PROVE  /\ [i \in DOMAIN bins |-> bins[i].held[p]] \in [1..Len(bins) -> Nat]
           /\ Contents(bins, p) = SumFunction([i \in DOMAIN bins |-> bins[i].held[p]])
           /\ Contents(bins, p) \in Nat
  <1> DEFINE holds == [i \in DOMAIN bins |-> bins[i].held[p]]
  <1>1. PICK n \in Nat : n = Len(bins) /\ DOMAIN bins = 1..n
    OBVIOUS
  <1>2. ASSUME NEW i \in 1..n PROVE bins[i].held[p] \in Nat
    <2>1. bins[i] \in Bin
      BY <1>1
    <2>2. bins[i].held \in [Product -> Nat]
      BY <2>1 DEF Bin
    <2> QED BY <2>2
  <1>3. holds \in [1..n -> Nat]
    BY <1>1, <1>2
  <1>4. IsFiniteSet(1..n)
    BY FS_Interval
  <1>5. Contents(bins, p) = SumFunction(holds)
    BY DEF Contents
  <1>6. SumFunction(holds) \in Nat
    <2> HIDE DEF holds
    <2> QED BY <1>3, <1>4, SumIsHeap
  <1> QED BY <1>1, <1>3, <1>5, <1>6

LEMMA ContentsTopped ==
    ASSUME NEW L, NEW bins, NEW item, NEW mu, Pouring(L, bins, item, mu), NEW p \in Product
    PROVE  /\ L[Len(bins)] \in Nat /\ L[Len(bins)] <= item.quantity /\ item.quantity \in Nat
           /\ Contents(Topped(bins, item, L), p) =
                 Contents(bins, p) + (IF p = item.product THEN item.quantity - L[Len(bins)] ELSE 0)
  <1>1. PICK n \in Nat : n = Len(bins) /\ DOMAIN bins = 1..n
    BY DEF Pouring, Weighty
  <1>2. PICK T : T = Topped(bins, item, L)
    OBVIOUS
  <1>3. /\ T \in Seq(Bin) /\ bins \in Seq(Bin) /\ Len(T) = n /\ DOMAIN T = 1..n
        /\ \A i \in 1..n : T[i].held = [bins[i].held EXCEPT ![item.product] = @ + (L[i - 1] - L[i])]
    BY <1>1, <1>2, ToppedIs DEF Weighty, Pouring
  <1>4. \A i \in 1..n : bins[i] \in Bin /\ L[i - 1] - L[i] \in Nat /\ L[i - 1] \in Nat /\ L[i] \in Nat
    BY <1>1, PourFacts
  <1>5. L[0] = item.quantity /\ L[0] \in Nat /\ L[n] \in Nat /\ \A i \in 0..n : L[i] \in Nat /\ L[i] <= L[0]
    <2>1. \A i \in 0..n : 0 <= i /\ 0 \in 0..n
      OBVIOUS
    <2>2. \A i \in 0..n : L[i] \in Nat /\ L[0] \in Nat /\ L[i] <= L[0]
      BY <1>1, <2>1, PourFalls
    <2>3. L[0] = item.quantity /\ 0 \in 0..n /\ n \in 0..n
      BY <1>1 DEF Pouring, Pours
    <2> QED BY <2>2, <2>3
  <1> DEFINE taken == [i \in 1..n |-> IF p = item.product THEN L[i - 1] - L[i] ELSE 0]
             were == [i \in DOMAIN bins |-> bins[i].held[p]]
             are == [i \in DOMAIN T |-> T[i].held[p]]
  <1>6. taken \in [1..n -> Nat]
    BY <1>4
  <1>7. were \in [1..n -> Nat] /\ are \in [1..n -> Nat]
        /\ Contents(bins, p) = SumFunction(were) /\ Contents(T, p) = SumFunction(are)
    BY <1>1, <1>3, ContentsTyped
  <1>8. ASSUME NEW i \in 1..n PROVE are[i] = were[i] + taken[i]
    <2>1. PICK h, t : h = bins[i].held /\ t = L[i - 1] - L[i]
      OBVIOUS
    <2>2. h \in [Product -> Nat] /\ t \in Nat
      BY <1>4, <2>1 DEF Bin
    <2>3. T[i].held = [h EXCEPT ![item.product] = @ + t]
      BY <1>3, <2>1
    <2>4. T[i].held[p] = h[p] + (IF p = item.product THEN t ELSE 0)
      BY <2>2, <2>3
    <2> QED BY <1>1, <1>3, <2>1, <2>4
  <1> HIDE DEF are, were
  <1>9. IsFiniteSet(1..n)
    BY FS_Interval
  <1>10. SumFunction(are) = SumFunction(were) + SumFunction(taken)
    <2> HIDE DEF taken
    <2>1. AddsPairs(are, were, taken, 1..n)
      BY <1>6, <1>7, <1>8, <1>9 DEF AddsPairs
    <2> QED BY <2>1, SumAdded
  <1>11. SumFunction(taken) = IF p = item.product THEN item.quantity - L[n] ELSE 0
    <2>1. CASE p = item.product
      <3> DEFINE F == [i \in 0..n |-> L[0] - L[i]]
      <3>1. F \in [0..n -> Nat] /\ F[0] = 0
        <4>1. \A i \in 0..n : L[0] - L[i] \in Nat
          BY <1>5
        <4>2. 0 \in 0..n /\ L[0] - L[0] = 0
          BY <1>5
        <4> QED BY <4>1, <4>2
      <3>2. ASSUME NEW i \in 1..n PROVE F[i] = F[i - 1] + taken[i]
        <4>1. i \in 0..n /\ i - 1 \in 0..n
          OBVIOUS
        <4>2. F[i] = L[0] - L[i] /\ F[i - 1] = L[0] - L[i - 1] /\ taken[i] = L[i - 1] - L[i]
          BY <2>1, <4>1
        <4> QED BY <1>4, <1>5, <4>2
      <3>3. AddsUp(F, taken, n)
        <4> HIDE DEF F, taken
        <4> QED BY <1>6, <3>1, <3>2 DEF AddsUp
      <3>4. SumFunction(taken) = F[n]
        <4> HIDE DEF F, taken
        <4> QED BY <3>3, SumUpTo
      <3>5. F[n] = L[0] - L[n]
        OBVIOUS
      <3> HIDE DEF F, taken
      <3> QED BY <1>5, <2>1, <3>4, <3>5
    <2>2. CASE p # item.product
      <3>1. \A i \in 1..n : taken[i] = 0
        BY <2>2
      <3>2. SumFunction(taken) = 0
        <4> HIDE DEF taken
        <4> QED BY <1>6, <1>9, <3>1, SumOfZeros
      <3> QED BY <2>2, <3>2
    <2> QED BY <2>1, <2>2
  <1> HIDE DEF taken
  <1>12. n \in 0..n
    OBVIOUS
  <1> QED BY <1>1, <1>2, <1>5, <1>7, <1>10, <1>11, <1>12

LEMMA ContentsOpened ==
    ASSUME NEW item, NEW mu, CanPack(item, mu), NEW rest \in Nat, NEW p \in Product
    PROVE  Contents(Opened(item, rest), p) = IF p = item.product THEN rest ELSE 0
  <1>1. PICK O, n, full : O = Opened(item, rest) /\ n = Len(O) /\ full = Full(item)
    OBVIOUS
  <1>2. /\ O \in Seq(Bin) /\ n \in Nat /\ full \in Nat \ {0} /\ n * full >= rest
        /\ \A i \in 1..n :
              /\ O[i].held = [q \in Product |-> IF q = item.product
                                                THEN IF i * full <= rest THEN full ELSE rest - (i - 1) * full
                                                ELSE 0]
              /\ (i - 1) * full < rest
    <2>1. Weighty(O, mu) /\ n \in Nat /\ full \in Nat \ {0} /\ n * full >= rest
      BY <1>1, OpenedIs
    <2>2. \A i \in 1..Len(Opened(item, rest)) :
              /\ Opened(item, rest)[i].held = [q \in Product |-> IF q = item.product
                                                THEN IF i * Full(item) <= rest THEN Full(item) ELSE rest - (i - 1) * Full(item)
                                                ELSE 0]
              /\ (i - 1) * Full(item) < rest
      BY OpenedIs
    <2>3. \A i \in 1..n :
              /\ O[i].held = [q \in Product |-> IF q = item.product
                                                THEN IF i * full <= rest THEN full ELSE rest - (i - 1) * full
                                                ELSE 0]
              /\ (i - 1) * full < rest
      BY <1>1, <2>2
    <2> QED BY <2>1, <2>3 DEF Weighty
  <1> DEFINE held == [i \in DOMAIN O |-> O[i].held[p]]
  <1>3. held \in [1..n -> Nat] /\ Contents(O, p) = SumFunction(held) /\ DOMAIN O = 1..n
    BY <1>1, <1>2, ContentsTyped
  <1>4. \A i \in 1..n : held[i] = IF p = item.product
                                  THEN IF i * full <= rest THEN full ELSE rest - (i - 1) * full
                                  ELSE 0
    BY <1>2, <1>3
  <1> HIDE DEF held
  <1>5. CASE p = item.product
    <2> DEFINE F == [i \in 0..n |-> IF i * full <= rest THEN i * full ELSE rest]
    <2>1. \A i \in 0..n : F[i] \in Nat
      <3>1. ASSUME NEW i \in 0..n PROVE i * full \in Nat
        BY <1>2
      <3> QED BY <3>1
    <2>2. F[0] = 0
      <3>1. 0 * full = 0 /\ 0 \in 0..n
        BY <1>2
      <3> QED BY <3>1
    <2>3. ASSUME NEW i \in 1..n PROVE F[i] = F[i - 1] + held[i]
      <3>1. PICK a, b : a = (i - 1) * full /\ b = i * full
        OBVIOUS
      <3>2. a \in Nat /\ b = a + full /\ full \in Nat
        <4>1. PICK k \in Nat : i = k + 1 /\ i - 1 = k
          <5>1. i - 1 \in Nat /\ i = (i - 1) + 1
            OBVIOUS
          <5> QED BY <5>1
        <4>2. k * full \in Nat /\ (k + 1) * full = k * full + full
          BY <1>2
        <4> QED BY <1>2, <3>1, <4>1, <4>2
      <3>3. a < rest
        BY <1>2, <3>1
      <3>4. i \in 0..n /\ i - 1 \in 0..n
        BY <1>2
      <3>5. F[i] = (IF b <= rest THEN b ELSE rest) /\ F[i - 1] = IF a <= rest THEN a ELSE rest
        BY <3>1, <3>4
      <3>6. held[i] = IF b <= rest THEN full ELSE rest - a
        BY <1>4, <1>5, <3>1
      <3> HIDE DEF F
      <3> QED BY <3>2, <3>3, <3>5, <3>6
    <2>4. F[n] = rest
      <3>1. PICK b : b = n * full
        OBVIOUS
      <3>2. b >= rest /\ b \in Nat /\ n \in 0..n
        BY <1>2, <3>1
      <3>3. F[n] = IF b <= rest THEN b ELSE rest
        BY <3>1, <3>2
      <3> HIDE DEF F
      <3> QED BY <3>2, <3>3
    <2>5. F = [i \in 0..n |-> F[i]]
      OBVIOUS
    <2> HIDE DEF F
    <2>6. AddsUp(F, held, n)
      <3>1. F \in [0..n -> Nat]
        BY <2>1, <2>5
      <3> QED BY <1>2, <1>3, <2>2, <2>3, <3>1 DEF AddsUp
    <2>7. SumFunction(held) = F[n]
      BY <2>6, SumUpTo
    <2> QED BY <1>1, <1>3, <1>5, <2>4, <2>7
  <1>6. CASE p # item.product
    <2>1. \A i \in 1..n : held[i] = 0
      BY <1>4, <1>6
    <2>2. IsFiniteSet(1..n)
      BY <1>2, FS_Interval
    <2>3. SumFunction(held) = 0
      BY <1>3, <2>1, <2>2, SumOfZeros
    <2> QED BY <1>1, <1>3, <1>6, <2>3
  <1> QED BY <1>5, <1>6

LEMMA JoinedIs ==
    ASSUME NEW S, NEW A \in Seq(S), NEW B \in Seq(S)
    PROVE  /\ A \o B \in Seq(S) /\ Len(A \o B) = Len(A) + Len(B) /\ DOMAIN (A \o B) = 1..Len(A) + Len(B)
           /\ \A i \in 1..Len(A) : (A \o B)[i] = A[i]
           /\ \A i \in 1..Len(B) : (A \o B)[Len(A) + i] = B[i]
  OBVIOUS

LEMMA ContentsJoined ==
    ASSUME NEW A \in Seq(Bin), NEW B \in Seq(Bin), NEW p \in Product
    PROVE  Contents(A \o B, p) = Contents(A, p) + Contents(B, p)
  <1>1. PICK J, m, n : J = A \o B /\ m = Len(A) /\ n = Len(B)
    OBVIOUS
  <1>2. /\ m \in Nat /\ n \in Nat /\ DOMAIN A = 1..m /\ DOMAIN B = 1..n
        /\ J \in Seq(Bin) /\ Len(J) = m + n /\ DOMAIN J = 1..m + n
        /\ \A i \in 1..m : J[i] = A[i]
        /\ \A i \in 1..n : J[m + i] = B[i]
    BY <1>1, JoinedIs
  <1> DEFINE all == [i \in DOMAIN J |-> J[i].held[p]]
             first == [i \in DOMAIN A |-> A[i].held[p]]
             second == [i \in DOMAIN B |-> B[i].held[p]]
             later == [i \in m + 1..m + n |-> J[i].held[p]]
  <1>3. /\ all \in [1..m + n -> Nat] /\ first \in [1..m -> Nat] /\ second \in [1..n -> Nat]
        /\ Contents(J, p) = SumFunction(all)
        /\ Contents(A, p) = SumFunction(first) /\ Contents(B, p) = SumFunction(second)
    BY <1>1, <1>2, ContentsTyped
  <1>4. \A i \in m + 1..m + n : i \in 1..m + n /\ i - m \in 1..n /\ m + (i - m) = i
    BY <1>2
  <1>5. \A i \in 1..n : m + i \in m + 1..m + n /\ (m + i) - m = i
    BY <1>2
  <1>6. later \in [m + 1..m + n -> Nat] /\ \A i \in m + 1..m + n : later[i] = all[i]
    BY <1>2, <1>3, <1>4
  <1>7. \A i \in 1..m : first[i] = all[i] /\ i \in 1..m + n
    BY <1>2
  <1>8. \A i \in m + 1..m + n : later[i] = second[i - m]
    BY <1>2, <1>4
  <1> HIDE DEF all, first, second, later
  <1>9. IsFiniteSet(1..m) /\ IsFiniteSet(m + 1..m + n) /\ IsFiniteSet(1..n)
    BY <1>2, FS_Interval
  <1>10. Splits(all, first, later, 1..m + n, 1..m, m + 1..m + n)
    <2>1. (1..m) \cap (m + 1..m + n) = {}
      BY <1>2
    <2>2. 1..m + n = (1..m) \cup (m + 1..m + n)
      BY <1>2
    <2> QED BY <1>3, <1>6, <1>7, <1>9, <2>1, <2>2 DEF Splits
  <1>11. SumFunction(all) = SumFunction(first) + SumFunction(later)
    BY <1>10, SumOfBoth
  <1>12. SumFunction(later) = SumFunction(second)
    <2> DEFINE f == [i \in m + 1..m + n |-> i - m]
               g == [i \in 1..n |-> m + i]
               U == m + 1..m + n
               V == 1..n
    <2>1. f \in [U -> V] /\ g \in [V -> U]
      BY <1>4, <1>5
    <2>2. \A i \in U : g[f[i]] = i
      BY <1>4
    <2>3. \A i \in V : f[g[i]] = i
      BY <1>5
    <2>4. \A i \in U : later[i] = second[f[i]]
      BY <1>8
    <2>5. later \in [U -> Whole] /\ second \in [V -> Whole]
      BY <1>3, <1>6 DEF Whole
    <2>6. IsFiniteSet(U) /\ IsFiniteSet(V)
      BY <1>9
    <2> HIDE DEF f, g, U, V
    <2> QED BY <2>1, <2>2, <2>3, <2>4, <2>5, <2>6, IntSumRenamed
  <1> QED BY <1>1, <1>3, <1>11, <1>12

\* No carton was opened for a unit that an earlier one still has room for.
Snug(bins, mu) ==
    \A i, j \in 1..Len(bins) : \A p \in Product :
       i < j /\ bins[j].held[p] > 0 => Tight(bins[i].left, mu[p])
Sound(bins, mu) == Weighty(bins, mu) /\ Snug(bins, mu)

LEMMA PlacedIs ==
    ASSUME NEW bins, NEW mu, Sound(bins, mu), NEW item, CanPack(item, mu), NEW p \in Product
    PROVE  Contents(PlaceItem(bins, item), p) =
              Contents(bins, p) + (IF p = item.product THEN item.quantity ELSE 0)
  <1>1. bins \in Seq(Bin) /\ Weighty(bins, mu)
    BY DEF Sound, Weighty
  <1>2. PICK L : /\ Pours(L, bins, item)
                 /\ PlaceItem(bins, item) = Topped(bins, item, L) \o Opened(item, L[Len(bins)])
    BY <1>1, PlaceItemIs
  <1>3. Pouring(L, bins, item, mu)
    BY <1>1, <1>2 DEF Pouring
  <1>4. PICK rest : rest = L[Len(bins)]
    OBVIOUS
  <1>5. PICK T, O : T = Topped(bins, item, L) /\ O = Opened(item, rest)
    OBVIOUS
  <1>6. /\ rest \in Nat /\ rest <= item.quantity /\ item.quantity \in Nat
        /\ Contents(T, p) = Contents(bins, p) + (IF p = item.product THEN item.quantity - rest ELSE 0)
    BY <1>3, <1>4, <1>5, ContentsTopped
  <1>7. Contents(O, p) = IF p = item.product THEN rest ELSE 0
    BY <1>5, <1>6, ContentsOpened
  <1>8. T \in Seq(Bin)
    BY <1>3, <1>5, ToppedIs DEF Weighty
  <1>9. O \in Seq(Bin)
    BY <1>5, <1>6, OpenedIs DEF Weighty
  <1>10. Contents(T \o O, p) = Contents(T, p) + Contents(O, p)
    BY <1>8, <1>9, ContentsJoined
  <1>11. PICK c \in Nat : c = Contents(bins, p)
    BY <1>1, ContentsTyped
  <1>12. Contents(T \o O, p) = c + (IF p = item.product THEN item.quantity ELSE 0)
    <2>1. PICK q : q = item.quantity
      OBVIOUS
    <2>2. q \in Nat /\ Contents(T \o O, p) = (c + (IF p = item.product THEN q - rest ELSE 0))
                                             + (IF p = item.product THEN rest ELSE 0)
      BY <1>6, <1>7, <1>10, <1>11, <2>1
    <2>3. (c + (IF p = item.product THEN q - rest ELSE 0)) + (IF p = item.product THEN rest ELSE 0)
             = c + (IF p = item.product THEN q ELSE 0)
      BY <1>6, <1>11, <2>2
    <2> QED BY <2>1, <2>2, <2>3
  <1> QED BY <1>2, <1>4, <1>5, <1>11, <1>12

LEMMA TightStays ==
    ASSUME NEW a \in MeasureType, NEW b \in MeasureType, NEW m \in MeasureType,
           b.weight <= a.weight, b.volume <= a.volume, Tight(a, m)
    PROVE  Tight(b, m)
  BY DEF Tight, MeasureType

LEMMA ToppedSnug ==
    ASSUME NEW L, NEW bins, NEW item, NEW mu, Pouring(L, bins, item, mu), Snug(bins, mu),
           NEW i \in 1..Len(bins), NEW j \in 1..Len(bins), NEW p \in Product,
           i < j, Topped(bins, item, L)[j].held[p] > 0
    PROVE  Tight(Topped(bins, item, L)[i].left, mu[p])
  <1>1. PICK n \in Nat : n = Len(bins)
    BY DEF Pouring, Weighty
  <1>2. PICK T : T = Topped(bins, item, L)
    OBVIOUS
  <1>3. /\ T[j].held = [bins[j].held EXCEPT ![item.product] = @ + (L[j - 1] - L[j])]
        /\ T[i].left.weight <= bins[i].left.weight
        /\ T[i].left.volume <= bins[i].left.volume
        /\ L[i] > 0 => Tight(T[i].left, item.measure)
    <2>1. \A e \in 1..Len(bins) :
             /\ T[e].held = [bins[e].held EXCEPT ![item.product] = @ + (L[e - 1] - L[e])]
             /\ T[e].left.weight <= bins[e].left.weight
             /\ T[e].left.volume <= bins[e].left.volume
             /\ L[e] > 0 => Tight(T[e].left, item.measure)
      BY <1>2, ToppedIs
    <2> QED BY <2>1
  <1>4. bins[i] \in Bin /\ bins[j] \in Bin /\ L[j - 1] - L[j] \in Nat /\ L[j - 1] \in Nat /\ L[j] \in Nat
    BY PourFacts
  <1>5. T \in Seq(Bin) /\ Len(T) = n
    BY <1>1, <1>2, ToppedIs DEF Weighty
  <1>6. T[i] \in Bin
    BY <1>1, <1>5
  <1>7. mu[p] \in MeasureType /\ item.measure = mu[item.product]
    BY DEF Pouring, CanPack, Sizes
  <1>8. PICK t : t = L[j - 1] - L[j]
    OBVIOUS
  <1>9. PICK h : h = bins[j].held
    OBVIOUS
  <1>10. h \in [Product -> Nat] /\ t \in Nat
    BY <1>4, <1>8, <1>9 DEF Bin
  <1>11. T[j].held[p] = h[p] + (IF p = item.product THEN t ELSE 0)
    BY <1>3, <1>8, <1>9, <1>10
  <1>12. CASE h[p] > 0
    <2>1. Tight(bins[i].left, mu[p])
      BY <1>9, <1>12 DEF Snug
    <2>2. bins[i].left \in MeasureType /\ T[i].left \in MeasureType
      BY <1>4, <1>6 DEF Bin
    <2> QED BY <1>2, <1>3, <1>7, <2>1, <2>2, TightStays
  <1>13. CASE ~(h[p] > 0)
    <2>1. p = item.product /\ t > 0
      BY <1>2, <1>10, <1>11, <1>13
    <2>2. L[j - 1] > 0
      BY <1>4, <1>8, <2>1
    <2>3. i \in 0..n /\ j - 1 \in 0..n /\ i <= j - 1
      BY <1>1
    <2>4. L[j - 1] <= L[i] /\ L[i] \in Nat
      BY <1>1, <2>3, PourFalls
    <2>5. L[i] > 0
      BY <1>4, <2>2, <2>4
    <2> QED BY <1>2, <1>3, <1>7, <2>1, <2>5
  <1> QED BY <1>12, <1>13

LEMMA OpenedSnug ==
    ASSUME NEW item, NEW mu, CanPack(item, mu), NEW rest \in Nat, NEW p \in Product,
           NEW j \in 1..Len(Opened(item, rest)), Opened(item, rest)[j].held[p] > 0
    PROVE  /\ p = item.product /\ rest > 0
           /\ \A i \in 1..Len(Opened(item, rest)) : i < j => Tight(Opened(item, rest)[i].left, mu[p])
  <1>1. PICK O, n : O = Opened(item, rest) /\ n = Len(O)
    OBVIOUS
  <1>2. \A i \in 1..n :
           /\ O[i].held = [q \in Product |-> IF q = item.product
                                             THEN IF i * Full(item) <= rest THEN Full(item)
                                                  ELSE rest - (i - 1) * Full(item)
                                             ELSE 0]
           /\ i < n => Tight(O[i].left, item.measure)
    <2>1. \A i \in 1..Len(Opened(item, rest)) :
             /\ Opened(item, rest)[i].held =
                   [q \in Product |-> IF q = item.product
                                      THEN IF i * Full(item) <= rest THEN Full(item)
                                           ELSE rest - (i - 1) * Full(item)
                                      ELSE 0]
             /\ i < Len(Opened(item, rest)) => Tight(Opened(item, rest)[i].left, item.measure)
      BY OpenedIs
    <2> QED BY <1>1, <2>1
  <1>3. n \in Nat /\ (rest = 0 => n = 0)
    BY <1>1, OpenedIs
  <1>4. p = item.product
    <2>1. O[j].held[p] = IF p = item.product
                         THEN IF j * Full(item) <= rest THEN Full(item) ELSE rest - (j - 1) * Full(item)
                         ELSE 0
      <3>1. j \in 1..n
        BY <1>1
      <3>2. O[j].held = [q \in Product |-> IF q = item.product
                                           THEN IF j * Full(item) <= rest THEN Full(item)
                                                ELSE rest - (j - 1) * Full(item)
                                           ELSE 0]
        BY <1>2, <3>1
      <3>3. PICK a : a = IF j * Full(item) <= rest THEN Full(item) ELSE rest - (j - 1) * Full(item)
        OBVIOUS
      <3>4. O[j].held = [q \in Product |-> IF q = item.product THEN a ELSE 0]
        BY <3>2, <3>3
      <3>5. O[j].held[p] = IF p = item.product THEN a ELSE 0
        BY <3>4
      <3> QED BY <3>3, <3>5
    <2>2. O[j].held[p] > 0
      BY <1>1
    <2>3. p # item.product => O[j].held[p] = 0
      BY <2>1
    <2> QED BY <2>2, <2>3
  <1>5. rest > 0
    <2>1. j \in 1..n
      BY <1>1
    <2> QED BY <1>3, <2>1
  <1>6. item.measure = mu[p]
    BY <1>4 DEF CanPack
  <1>7. \A i \in 1..n : i < j => i < n
    <2>1. j \in 1..n
      BY <1>1
    <2> QED BY <1>3, <2>1
  <1> QED BY <1>1, <1>2, <1>4, <1>5, <1>6, <1>7

LEMMA PlaceSound ==
    ASSUME NEW bins, NEW mu, Sound(bins, mu), NEW item, CanPack(item, mu)
    PROVE  Sound(PlaceItem(bins, item), mu)
  <1>1. bins \in Seq(Bin) /\ Weighty(bins, mu) /\ Snug(bins, mu)
    BY DEF Sound, Weighty
  <1>2. PICK L : /\ Pours(L, bins, item)
                 /\ PlaceItem(bins, item) = Topped(bins, item, L) \o Opened(item, L[Len(bins)])
    BY <1>1, PlaceItemIs
  <1>3. Pouring(L, bins, item, mu)
    BY <1>1, <1>2 DEF Pouring
  <1>4. PICK rest, n : rest = L[Len(bins)] /\ n = Len(bins)
    OBVIOUS
  <1>5. PICK T, O : T = Topped(bins, item, L) /\ O = Opened(item, rest)
    OBVIOUS
  <1>6. PICK J, k : J = T \o O /\ k = Len(O)
    OBVIOUS
  <1>7. n \in Nat /\ n \in 0..n
    BY <1>1, <1>4
  <1>8. rest \in Nat
    BY <1>3, <1>4, <1>7, PourFalls
  <1>9. Weighty(T, mu) /\ Len(T) = n
    BY <1>3, <1>4, <1>5, ToppedIs
  <1>10. Weighty(O, mu)
    BY <1>5, <1>8, OpenedIs
  <1>11. /\ k \in Nat /\ J \in Seq(Bin) /\ Len(J) = n + k
         /\ \A i \in 1..n : J[i] = T[i]
         /\ \A i \in 1..k : J[n + i] = O[i]
    <2>1. T \in Seq(Bin) /\ O \in Seq(Bin)
      BY <1>9, <1>10 DEF Weighty
    <2>2. /\ T \o O \in Seq(Bin) /\ Len(T \o O) = Len(T) + Len(O)
          /\ \A i \in 1..Len(T) : (T \o O)[i] = T[i]
          /\ \A i \in 1..Len(O) : (T \o O)[Len(T) + i] = O[i]
      BY <2>1, JoinedIs
    <2>3. k \in Nat
      BY <1>6, <2>1
    <2> QED BY <1>6, <1>9, <2>2, <2>3
  <1>12. \A i \in 1..n + k : i \in 1..n \/ (i - n \in 1..k /\ n + (i - n) = i)
    BY <1>7, <1>11
  <1>13. Weighty(J, mu)
    <2>1. ASSUME NEW i \in 1..n + k PROVE Weighed(J[i], mu)
      <3>1. CASE i \in 1..n
        BY <1>9, <1>11, <3>1 DEF Weighty
      <3>2. CASE i - n \in 1..k /\ n + (i - n) = i
        <4>1. J[i] = O[i - n]
          BY <1>11, <3>2
        <4> QED BY <1>6, <1>10, <3>2, <4>1 DEF Weighty
      <3> QED BY <1>12, <3>1, <3>2
    <2> QED BY <1>11, <2>1 DEF Weighty
  <1>14. ASSUME NEW i \in 1..n + k, NEW j \in 1..n + k, NEW p \in Product, i < j, J[j].held[p] > 0
         PROVE  Tight(J[i].left, mu[p])
    <2>1. CASE j \in 1..n
      <3>1. i \in 1..n
        BY <1>7, <1>14, <2>1
      <3>2. J[i] = T[i] /\ J[j] = T[j]
        BY <1>11, <2>1, <3>1
      <3> QED BY <1>1, <1>3, <1>4, <1>5, <1>14, <2>1, <3>1, <3>2, ToppedSnug
    <2>2. CASE j - n \in 1..k /\ n + (j - n) = j
      <3>1. PICK b \in 1..k : b = j - n /\ J[j] = O[b]
        BY <1>11, <2>2
      <3>2. O[b].held[p] > 0
        BY <1>14, <3>1
      <3>3. /\ p = item.product /\ rest > 0
            /\ \A a \in 1..k : a < b => Tight(O[a].left, mu[p])
        <4>1. b \in 1..Len(Opened(item, rest)) /\ Opened(item, rest)[b].held[p] > 0
          BY <1>5, <1>6, <3>2
        <4>2. /\ p = item.product /\ rest > 0
              /\ \A a \in 1..Len(Opened(item, rest)) : a < b => Tight(Opened(item, rest)[a].left, mu[p])
          BY <1>8, <4>1, OpenedSnug
        <4> QED BY <1>5, <1>6, <4>2
      <3>4. CASE i \in 1..n
        <4>1. L[n] <= L[i] /\ L[i] \in Nat /\ L[n] \in Nat
          <5>1. i \in 0..n /\ n \in 0..n /\ i <= n
            BY <1>7, <3>4
          <5> QED BY <1>3, <1>4, <5>1, PourFalls
        <4>2. L[i] > 0
          BY <1>4, <3>3, <4>1
        <4>3. Tight(T[i].left, item.measure)
          BY <1>3, <1>4, <1>5, <3>4, <4>2, ToppedIs
        <4>4. item.measure = mu[p]
          BY <3>3 DEF CanPack
        <4> QED BY <1>11, <3>4, <4>3, <4>4
      <3>5. CASE i - n \in 1..k /\ n + (i - n) = i
        <4>1. J[i] = O[i - n]
          BY <1>11, <3>5
        <4>2. i - n < b
          BY <1>7, <1>14, <3>1
        <4> QED BY <3>3, <3>5, <4>1, <4>2
      <3> QED BY <1>12, <3>4, <3>5
    <2> QED BY <1>12, <2>1, <2>2
  <1>15. Snug(J, mu)
    BY <1>11, <1>14 DEF Snug
  <1> QED BY <1>2, <1>4, <1>5, <1>6, <1>13, <1>15 DEF Sound

SoundBins(mu) == {bins \in Seq(Bin) : Sound(bins, mu)}

\* The cartons after each of the items, in the order in which they are packed.
Filling(up, items, mu) ==
    /\ up \in [0..Len(items) -> SoundBins(mu)] /\ up[0] = <<>>
    /\ \A n \in 1..Len(items) : up[n] = PlaceItem(up[n - 1], LargestFirst(items)[n])

CanPackAll(items, mu) ==
    Len(items) \in Nat /\ \A n \in 1..Len(items) : CanPack(LargestFirst(items)[n], mu)

LEMMA NoneSound ==
    ASSUME NEW mu
    PROVE  <<>> \in SoundBins(mu)
  <1>1. <<>> \in Seq(Bin) /\ Len(<<>>) = 0 /\ 1..0 = {}
    OBVIOUS
  <1>2. Weighty(<<>>, mu)
    BY <1>1 DEF Weighty
  <1>3. Snug(<<>>, mu)
    BY <1>1 DEF Snug
  <1> QED BY <1>1, <1>2, <1>3 DEF Sound, SoundBins

LEMMA BinsIs ==
    ASSUME NEW items, NEW mu, CanPackAll(items, mu)
    PROVE  \E up : Filling(up, items, mu) /\ Bins(items) = up[Len(items)]
  <1> DEFINE body(f) == [n \in 0..Len(items) |->
                           IF n = 0 THEN <<>> ELSE PlaceItem(f[n - 1], LargestFirst(items)[n])]
             iter == CHOOSE f : f = body(f)
             N == Len(items)
             V == SoundBins(mu)
             step == [z \in (1..N) \X V |-> PlaceItem(z[2], LargestFirst(items)[z[1]])]
  <1>1. Bins(items) = iter[N]
    BY DEF Bins
  <1>2. N \in Nat /\ \A n \in 1..N : CanPack(LargestFirst(items)[n], mu)
    BY DEF CanPackAll
  <1>3. <<>> \in V
    BY NoneSound
  <1>4. ASSUME NEW n \in 1..N, NEW v \in V PROVE PlaceItem(v, LargestFirst(items)[n]) \in V
    <2>1. Sound(v, mu)
      BY DEF SoundBins
    <2>2. Sound(PlaceItem(v, LargestFirst(items)[n]), mu)
      BY <1>2, <2>1, PlaceSound
    <2> QED BY <2>2 DEF Sound, SoundBins, Weighty
  <1> HIDE DEF V
  <1>5. step \in [(1..N) \X V -> V]
        /\ \A n \in 1..N : \A v \in V : step[<<n, v>>] = PlaceItem(v, LargestFirst(items)[n])
    BY <1>4
  <1> HIDE DEF step
  <1>6. PICK f \in [0..N -> V] : f[0] = <<>> /\ \A n \in 1..N : f[n] = step[<<n, f[n - 1]>>]
    <2>1. StepsUp(N, V, <<>>, step)
      BY <1>2, <1>3, <1>5 DEF StepsUp
    <2>2. PICK f : Climbs(f, N, V, <<>>, step)
      BY <2>1, UpRecursion
    <2> QED BY <2>2 DEF Climbs
  <1>7. \A n \in 1..N : n - 1 \in 0..N /\ n \in 0..N /\ n # 0
    BY <1>2
  <1>8. f = body(f)
    <2>1. \A n \in 0..N : n # 0 => n \in 1..N
      BY <1>2
    <2>2. \A n \in 0..N : f[n] = IF n = 0 THEN <<>> ELSE PlaceItem(f[n - 1], LargestFirst(items)[n])
      BY <1>5, <1>6, <1>7, <2>1
    <2> QED BY <1>6, <2>2
  <1>9. iter = body(iter)
    <2> HIDE DEF body
    <2> QED BY <1>8
  <1> HIDE DEF iter
  <1>10. /\ iter[0] = <<>> /\ iter = [n \in 0..N |-> iter[n]]
         /\ \A n \in 1..N : iter[n] = PlaceItem(iter[n - 1], LargestFirst(items)[n])
    <2>1. \A n \in 0..N : iter[n] = IF n = 0 THEN <<>> ELSE PlaceItem(iter[n - 1], LargestFirst(items)[n])
      BY <1>9
    <2>2. 0 \in 0..N
      BY <1>2
    <2>3. iter = [n \in 0..N |-> iter[n]]
      BY <1>9
    <2> HIDE DEF body
    <2> QED BY <1>7, <2>1, <2>2, <2>3
  <1> HIDE DEF body
  <1>11. \A n \in 0..N : iter[n] \in V
    <2> DEFINE P == {n \in Nat : n <= N => iter[n] \in V}
    <2>1. 0 \in P
      BY <1>2, <1>3, <1>10
    <2>2. ASSUME NEW n \in Nat, n \in P PROVE n + 1 \in P
      <3> SUFFICES ASSUME n + 1 <= N PROVE iter[n + 1] \in V
        OBVIOUS
      <3>1. n + 1 \in 1..N /\ (n + 1) - 1 = n /\ iter[n] \in V
        BY <1>2, <2>2
      <3> QED BY <1>4, <1>10, <3>1
    <2> HIDE DEF P
    <2>3. \A n \in Nat : n \in P
      BY <2>1, <2>2, CountUp
    <2>4. \A n \in 0..N : n \in Nat /\ n <= N
      BY <1>2
    <2> QED BY <2>3, <2>4 DEF P
  <1>12. iter \in [0..N -> V]
    BY <1>10, <1>11
  <1>13. Filling(iter, items, mu)
    BY <1>10, <1>12 DEF Filling, V
  <1> QED BY <1>1, <1>13 DEF N

\* What is packed is what the items hold.
LEMMA BinsAre ==
    ASSUME NEW items, NEW mu, CanPackAll(items, mu), NEW p \in Product
    PROVE  /\ Sound(Bins(items), mu)
           /\ [n \in 1..Len(items) |->
                 IF p = LargestFirst(items)[n].product THEN LargestFirst(items)[n].quantity ELSE 0]
              \in [1..Len(items) -> Nat]
           /\ Contents(Bins(items), p) =
                SumFunction([n \in 1..Len(items) |->
                   IF p = LargestFirst(items)[n].product THEN LargestFirst(items)[n].quantity ELSE 0])
  <1>1. PICK up : Filling(up, items, mu) /\ Bins(items) = up[Len(items)]
    BY BinsIs
  <1>2. PICK N \in Nat : N = Len(items)
    BY DEF CanPackAll
  <1>3. PICK B : B = LargestFirst(items)
    OBVIOUS
  <1>4. \A n \in 1..N : CanPack(B[n], mu)
    BY <1>2, <1>3 DEF CanPackAll
  <1>5. /\ up \in [0..N -> SoundBins(mu)] /\ up[0] = <<>>
        /\ \A n \in 1..N : up[n] = PlaceItem(up[n - 1], B[n])
    BY <1>1, <1>2, <1>3 DEF Filling
  <1>6. \A n \in 0..N : up[n] \in Seq(Bin) /\ Sound(up[n], mu)
    BY <1>5 DEF SoundBins
  <1> DEFINE F == [n \in 0..N |-> Contents(up[n], p)]
             part == [n \in 1..N |-> IF p = B[n].product THEN B[n].quantity ELSE 0]
  <1>7. part \in [1..N -> Nat]
    BY <1>4 DEF CanPack
  <1>8. F \in [0..N -> Nat]
    BY <1>6, ContentsTyped
  <1>9. Contents(<<>>, p) = 0
    <2>1. <<>> \in Seq(Bin) /\ Len(<<>>) = 0 /\ 1..0 = {}
      OBVIOUS
    <2>2. PICK h : h = [i \in DOMAIN <<>> |-> <<>>[i].held[p]]
      OBVIOUS
    <2>3. h \in [{} -> Nat] /\ Contents(<<>>, p) = SumFunction(h)
      BY <2>1, <2>2, ContentsTyped
    <2> QED BY <2>3, SumOfNone
  <1>10. F[0] = 0
    BY <1>2, <1>5, <1>9
  <1>11. ASSUME NEW n \in 1..N PROVE F[n] = F[n - 1] + part[n]
    <2>1. n - 1 \in 0..N /\ n \in 0..N
      BY <1>2
    <2>2. Contents(PlaceItem(up[n - 1], B[n]), p) =
             Contents(up[n - 1], p) + (IF p = B[n].product THEN B[n].quantity ELSE 0)
      BY <1>4, <1>6, <2>1, PlacedIs
    <2>3. F[n] = Contents(up[n], p) /\ F[n - 1] = Contents(up[n - 1], p)
      BY <2>1
    <2>4. part[n] = IF p = B[n].product THEN B[n].quantity ELSE 0
      OBVIOUS
    <2> QED BY <1>5, <2>2, <2>3, <2>4
  <1>12. F[N] = Contents(up[N], p)
    <2>1. N \in 0..N
      OBVIOUS
    <2> QED BY <2>1
  <1>13. SumFunction(part) = F[N]
    <2> HIDE DEF F, part
    <2>1. AddsUp(F, part, N)
      BY <1>2, <1>7, <1>8, <1>10, <1>11 DEF AddsUp
    <2> QED BY <2>1, SumUpTo
  <1>14. Sound(up[N], mu)
    BY <1>2, <1>6
  <1> QED BY <1>1, <1>2, <1>3, <1>7, <1>12, <1>13, <1>14

\* A total order on S, as the set of its pairs.
Orders(R, S) ==
    /\ IsFiniteSet(S)
    /\ \A i \in S : <<i, i>> \in R
    /\ \A i, j \in S : <<i, j>> \in R \/ <<j, i>> \in R
    /\ \A i, j \in S : <<i, j>> \in R /\ <<j, i>> \in R => i = j
    /\ \A i, j, k \in S : <<i, j>> \in R /\ <<j, k>> \in R => <<i, k>> \in R

Places(place, S) ==
    /\ IsFiniteSet(S) /\ place \in [S -> 1..Cardinality(S)]
    /\ \A i, j \in S : place[i] = place[j] => i = j

CountsBelow(place, R, S) == place = [j \in S |-> Cardinality({i \in S : <<i, j>> \in R})]

LEMMA UpToCount ==
    ASSUME NEW N \in Nat
    PROVE  IsFiniteSet(1..N) /\ Cardinality(1..N) = N
  <1>1. Cardinality(1..N) = IF 1 > N THEN 0 ELSE N - 1 + 1
    BY FS_Interval
  <1> QED BY <1>1, FS_Interval

LEMMA PlacesByOrder ==
    ASSUME NEW R, NEW S, NEW place, Orders(R, S), CountsBelow(place, R, S)
    PROVE  Places(place, S)
  <1> DEFINE Down(j) == {i \in S : <<i, j>> \in R}
  <1>1. /\ IsFiniteSet(S)
        /\ \A i \in S : <<i, i>> \in R
        /\ \A i, j \in S : <<i, j>> \in R \/ <<j, i>> \in R
        /\ \A i, j \in S : <<i, j>> \in R /\ <<j, i>> \in R => i = j
        /\ \A i, j, k \in S : <<i, j>> \in R /\ <<j, k>> \in R => <<i, k>> \in R
    BY DEF Orders
  <1>2. place = [j \in S |-> Cardinality(Down(j))]
    BY DEF CountsBelow
  <1>3. \A j \in S : j \in Down(j) /\ Down(j) \in SUBSET S
    BY <1>1
  <1>4. ASSUME NEW i \in S, NEW j \in S, <<i, j>> \in R, i # j
        PROVE  Down(i) \in SUBSET Down(j) /\ Down(i) # Down(j)
    <2>1. Down(i) \in SUBSET Down(j)
      BY <1>1, <1>4
    <2>2. j \notin Down(i) /\ j \in Down(j)
      BY <1>1, <1>4
    <2> QED BY <2>1, <2>2
  <1> HIDE DEF Down
  <1>5. ASSUME NEW j \in S
        PROVE  /\ IsFiniteSet(Down(j)) /\ Cardinality(Down(j)) \in 1..Cardinality(S)
    <2>1. IsFiniteSet(Down(j)) /\ Cardinality(Down(j)) <= Cardinality(S)
      BY <1>1, <1>3, FS_Subset
    <2>2. Down(j) # {}
      BY <1>3
    <2>3. Cardinality(Down(j)) \in Nat /\ Cardinality(S) \in Nat /\ Cardinality(Down(j)) # 0
      BY <1>1, <2>1, <2>2, FS_CardinalityType, FS_EmptySet
    <2> QED BY <2>1, <2>3
  <1>6. ASSUME NEW i \in S, NEW j \in S, <<i, j>> \in R, i # j
        PROVE  Cardinality(Down(i)) # Cardinality(Down(j))
    BY <1>4, <1>5, <1>6, FS_Subset
  <1>7. \A i, j \in S : place[i] = place[j] => i = j
    BY <1>1, <1>2, <1>6
  <1>8. place \in [S -> 1..Cardinality(S)]
    BY <1>2, <1>5
  <1> QED BY <1>1, <1>7, <1>8 DEF Places

\* The order that the places give has each of the numbers once.
LEMMA InOrderIs ==
    ASSUME NEW S, NEW place, Places(place, S)
    PROVE  /\ Cardinality(S) \in Nat
           /\ InOrder(S, place) \in [1..Cardinality(S) -> S]
           /\ \A i \in S : place[i] \in 1..Cardinality(S) /\ InOrder(S, place)[place[i]] = i
           /\ \A n \in 1..Cardinality(S) : place[InOrder(S, place)[n]] = n
  <1>1. PICK N : N = Cardinality(S)
    OBVIOUS
  <1>2. /\ IsFiniteSet(S) /\ place \in [S -> 1..N]
        /\ \A i, j \in S : place[i] = place[j] => i = j
    BY <1>1 DEF Places
  <1>3. N \in Nat
    BY <1>1, <1>2, FS_CardinalityType
  <1>4. IsFiniteSet(1..N) /\ Cardinality(1..N) = N
    BY <1>3, UpToCount
  <1>5. place \in Injection(S, 1..N)
    BY <1>2 DEF Injection, IsInjective
  <1>6. place \in Surjection(S, 1..N)
    BY <1>1, <1>4, <1>5, FS_Injection
  <1>7. \A n \in 1..N : \E i \in S : place[i] = n
    BY <1>6 DEF Surjection
  <1>8. PICK f : f = InOrder(S, place)
    OBVIOUS
  <1>9. f = [n \in 1..N |-> CHOOSE i \in S : place[i] = n]
    BY <1>1, <1>8 DEF InOrder
  <1>10. \A n \in 1..N : f[n] \in S /\ place[f[n]] = n
    BY <1>7, <1>9
  <1>11. f \in [1..N -> S]
    BY <1>9, <1>10
  <1>12. \A i \in S : place[i] \in 1..N /\ f[place[i]] = i
    BY <1>2, <1>10
  <1> QED BY <1>1, <1>3, <1>8, <1>10, <1>11, <1>12

\* A sum over them in that order is the sum over them.
LEMMA InOrderSums ==
    ASSUME NEW S, NEW place, Places(place, S), NEW amount \in [S -> Nat], NEW tall,
           tall = [n \in 1..Cardinality(S) |-> amount[InOrder(S, place)[n]]]
    PROVE  SumFunction(tall) = SumFunction(amount)
  <1>1. PICK N, f : N = Cardinality(S) /\ f = InOrder(S, place)
    OBVIOUS
  <1>2. /\ N \in Nat /\ f \in [1..N -> S]
        /\ \A i \in S : place[i] \in 1..N /\ f[place[i]] = i
        /\ \A n \in 1..N : place[f[n]] = n
    <2>1. /\ Cardinality(S) \in Nat
          /\ InOrder(S, place) \in [1..Cardinality(S) -> S]
          /\ \A i \in S : place[i] \in 1..Cardinality(S) /\ InOrder(S, place)[place[i]] = i
          /\ \A n \in 1..Cardinality(S) : place[InOrder(S, place)[n]] = n
      BY InOrderIs
    <2> QED BY <1>1, <2>1
  <1>3. IsFiniteSet(S) /\ place \in [S -> 1..N]
    BY <1>1 DEF Places
  <1>4. IsFiniteSet(1..N)
    BY <1>2, FS_Interval
  <1>5. tall = [n \in 1..N |-> amount[f[n]]]
    BY <1>1
  <1>6. tall \in [1..N -> Nat] /\ \A n \in 1..N : tall[n] = amount[f[n]]
    <2>1. \A n \in 1..N : f[n] \in S
      BY <1>2
    <2> QED BY <1>5, <2>1
  <1>7. amount \in [S -> Whole] /\ tall \in [1..N -> Whole]
    BY <1>6 DEF Whole
  <1>8. \A n \in 1..N : place[f[n]] = n
    BY <1>2
  <1>9. \A i \in S : f[place[i]] = i
    BY <1>2
  <1> DEFINE I == 1..N
  <1>10. f \in [I -> S] /\ place \in [S -> I] /\ tall \in [I -> Whole] /\ IsFiniteSet(I)
    BY <1>2, <1>3, <1>4, <1>7
  <1>11. \A n \in I : place[f[n]] = n
    BY <1>8
  <1>12. \A n \in I : tall[n] = amount[f[n]]
    BY <1>6
  <1>13. tall \in [I -> Nat]
    BY <1>6
  <1> HIDE DEF I
  <1>14. Reordered(tall, amount, I, S, f, place)
    BY <1>3, <1>9, <1>10, <1>11, <1>12, <1>13 DEF Reordered
  <1> QED BY <1>14, SumOrdered

Packable(mu) == {x \in [product : Product, quantity : Nat, measure : MeasureType] : CanPack(x, mu)}
\* How many units of p are in an item.
Units(x, p) == IF p = x.product THEN x.quantity ELSE 0

LEMMA ShareIs ==
    ASSUME NEW x, x.measure \in MeasureType
    PROVE  Share(x) \in Nat
  <1>1. CartonSize \in MeasureType
    BY PackingAssumption
  <1>2. PICK w, v, cw, cv : w = x.measure.weight /\ v = x.measure.volume
                            /\ cw = CartonSize.weight /\ cv = CartonSize.volume
    OBVIOUS
  <1>3. w \in Nat /\ v \in Nat /\ cw \in Nat /\ cv \in Nat
    BY <1>1, <1>2 DEF MeasureType
  <1>4. w * cv \in Nat /\ v * cw \in Nat
    BY <1>3
  <1>5. PICK a, b : a = w * cv /\ b = v * cw
    OBVIOUS
  <1>6. Share(x) = Max({a, b})
    BY <1>2, <1>5 DEF Share
  <1>7. Max({a, b}) = IF a <= b THEN b ELSE a
    BY <1>4, <1>5, MaxOfTwo
  <1> QED BY <1>4, <1>5, <1>6, <1>7

\* The numbers in the order of their shares, equals as they come.
ShareOrder(s, S) == {z \in S \X S : s[z[1]] > s[z[2]] \/ (s[z[1]] = s[z[2]] /\ z[1] <= z[2])}

LEMMA ShareOrders ==
    ASSUME NEW S, IsFiniteSet(S), S \subseteq Nat, NEW s \in [S -> Nat]
    PROVE  Orders(ShareOrder(s, S), S)
  <1>1. \A i, j \in S : <<i, j>> \in ShareOrder(s, S) <=> s[i] > s[j] \/ (s[i] = s[j] /\ i <= j)
    BY DEF ShareOrder
  <1>2. \A i \in S : s[i] \in Nat /\ i \in Nat
    OBVIOUS
  <1>3. \A i \in S : <<i, i>> \in ShareOrder(s, S)
    BY <1>1, <1>2
  <1>4. \A i, j \in S : <<i, j>> \in ShareOrder(s, S) \/ <<j, i>> \in ShareOrder(s, S)
    <2>1. ASSUME NEW i \in S, NEW j \in S
          PROVE  (s[i] > s[j] \/ (s[i] = s[j] /\ i <= j)) \/ (s[j] > s[i] \/ (s[j] = s[i] /\ j <= i))
      BY <1>2
    <2> QED BY <1>1, <2>1
  <1>5. \A i, j \in S : <<i, j>> \in ShareOrder(s, S) /\ <<j, i>> \in ShareOrder(s, S) => i = j
    BY <1>1, <1>2
  <1>6. \A i, j, k \in S : <<i, j>> \in ShareOrder(s, S) /\ <<j, k>> \in ShareOrder(s, S) => <<i, k>> \in ShareOrder(s, S)
    <2>1. ASSUME NEW i \in S, NEW j \in S, NEW k \in S,
                 s[i] > s[j] \/ (s[i] = s[j] /\ i <= j), s[j] > s[k] \/ (s[j] = s[k] /\ j <= k)
          PROVE  s[i] > s[k] \/ (s[i] = s[k] /\ i <= k)
      BY <1>2, <2>1
    <2> QED BY <1>1, <2>1
  <1> QED BY <1>3, <1>4, <1>5, <1>6 DEF Orders

LEMMA LargestFirstIs ==
    ASSUME NEW mu, NEW items \in Seq(Packable(mu)), NEW p \in Product
    PROVE  /\ CanPackAll(items, mu)
           /\ \A n \in 1..Len(items) : \E i \in 1..Len(items) : LargestFirst(items)[n] = items[i]
           /\ [n \in 1..Len(items) |-> Units(items[n], p)] \in [1..Len(items) -> Nat]
           /\ SumFunction([n \in 1..Len(items) |-> Units(LargestFirst(items)[n], p)])
                = SumFunction([n \in 1..Len(items) |-> Units(items[n], p)])
  <1>1. PICK N \in Nat : N = Len(items) /\ DOMAIN items = 1..N
    OBVIOUS
  <1>2. \A n \in 1..N : items[n] \in Packable(mu)
    BY <1>1
  <1>3. \A n \in 1..N : CanPack(items[n], mu) /\ items[n].measure \in MeasureType /\ items[n].quantity \in Nat
    BY <1>2 DEF Packable
  <1> DEFINE before(i, j) == \/ Share(items[i]) > Share(items[j])
                             \/ Share(items[i]) = Share(items[j]) /\ i <= j
             place == [j \in DOMAIN items |-> Cardinality({i \in DOMAIN items : before(i, j)})]
             s == [i \in 1..N |-> Share(items[i])]
             old == [n \in 1..N |-> Units(items[n], p)]
             new == [n \in 1..N |-> Units(LargestFirst(items)[n], p)]
  <1>4. LargestFirst(items) = [n \in DOMAIN items |-> items[InOrder(DOMAIN items, place)[n]]]
    BY DEF LargestFirst
  <1>5. s \in [1..N -> Nat]
    BY <1>3, ShareIs
  <1>6. IsFiniteSet(1..N) /\ Cardinality(1..N) = N /\ 1..N \subseteq Nat
    BY UpToCount
  <1>7. Orders(ShareOrder(s, 1..N), 1..N)
    <2> HIDE DEF s
    <2> QED BY <1>5, <1>6, ShareOrders
  <1>8. CountsBelow(place, ShareOrder(s, 1..N), 1..N)
    <2>1. ASSUME NEW j \in 1..N
          PROVE  {i \in DOMAIN items : before(i, j)} = {i \in 1..N : <<i, j>> \in ShareOrder(s, 1..N)}
      <3>1. \A i \in 1..N : <<i, j>> \in ShareOrder(s, 1..N) <=> before(i, j)
        BY DEF ShareOrder
      <3> QED BY <1>1, <3>1
    <2>2. \A j \in 1..N : Cardinality({i \in DOMAIN items : before(i, j)})
                            = Cardinality({i \in 1..N : <<i, j>> \in ShareOrder(s, 1..N)})
      BY <2>1
    <2> HIDE DEF before, s
    <2> QED BY <1>1, <2>2 DEF CountsBelow
  <1> HIDE DEF place, s
  <1>9. Places(place, 1..N)
    BY <1>7, <1>8, PlacesByOrder
  <1>10. PICK f : f = InOrder(1..N, place)
    OBVIOUS
  <1>11. f \in [1..N -> 1..N]
    BY <1>6, <1>9, <1>10, InOrderIs
  <1>12. \A n \in 1..N : LargestFirst(items)[n] = items[f[n]] /\ f[n] \in 1..N
    BY <1>1, <1>4, <1>10, <1>11
  <1>13. CanPackAll(items, mu)
    BY <1>1, <1>3, <1>12 DEF CanPackAll
  <1>14. old \in [1..N -> Nat]
    BY <1>3 DEF Units
  <1>15. new = [n \in 1..N |-> old[f[n]]]
    BY <1>12
  <1> HIDE DEF old, new
  <1>16. SumFunction(new) = SumFunction(old)
    <2>1. new = [n \in 1..Cardinality(1..N) |-> old[InOrder(1..N, place)[n]]]
      BY <1>6, <1>10, <1>15
    <2> QED BY <1>9, <1>14, <2>1, InOrderSums
  <1>17. \A n \in 1..N : \E i \in 1..N : LargestFirst(items)[n] = items[i]
    BY <1>12
  <1> QED BY <1>1, <1>13, <1>14, <1>16, <1>17 DEF old, new

\* A carton for everything: what the items hold, to the unit.
LEMMA BinsAsked ==
    ASSUME NEW mu, NEW items \in Seq(Packable(mu)), NEW p \in Product
    PROVE  /\ Sound(Bins(items), mu)
           /\ Contents(Bins(items), p) = SumFunction([n \in 1..Len(items) |-> Units(items[n], p)])
  <1>1. CanPackAll(items, mu)
        /\ SumFunction([n \in 1..Len(items) |-> Units(LargestFirst(items)[n], p)])
             = SumFunction([n \in 1..Len(items) |-> Units(items[n], p)])
    BY LargestFirstIs
  <1>2. Sound(Bins(items), mu)
        /\ Contents(Bins(items), p) =
              SumFunction([n \in 1..Len(items) |->
                 IF p = LargestFirst(items)[n].product THEN LargestFirst(items)[n].quantity ELSE 0])
    BY <1>1, BinsAre
  <1>3. [n \in 1..Len(items) |-> IF p = LargestFirst(items)[n].product THEN LargestFirst(items)[n].quantity ELSE 0]
           = [n \in 1..Len(items) |-> Units(LargestFirst(items)[n], p)]
    BY DEF Units
  <1> QED BY <1>1, <1>2, <1>3
\* Also of no product at all.
LEMMA BinsSound ==
    ASSUME NEW mu, NEW items \in Seq(Packable(mu))
    PROVE  Sound(Bins(items), mu)
  <1>1. CanPackAll(items, mu)
    <2>1. CASE Product = {}
      <3>1. \A n \in 1..Len(items) : items[n] \in Packable(mu)
        OBVIOUS
      <3>2. Packable(mu) = {}
        BY <2>1 DEF Packable
      <3> QED BY <3>1, <3>2 DEF CanPackAll
    <2>2. CASE Product # {}
      <3>1. PICK p \in Product : TRUE
        BY <2>2
      <3> QED BY <3>1, LargestFirstIs
    <2> QED BY <2>1, <2>2
  <1>2. PICK up : Filling(up, items, mu) /\ Bins(items) = up[Len(items)]
    BY <1>1, BinsIs
  <1>3. Len(items) \in 0..Len(items)
    OBVIOUS
  <1>4. up[Len(items)] \in SoundBins(mu)
    BY <1>2, <1>3 DEF Filling
  <1> QED BY <1>2, <1>4 DEF SoundBins

SheetLine == [product : Product, quantity : Nat \ {0}, family : STRING]

\* The sheet and the measures, as a page can have them.
PackTyped ==
    /\ parts \in KitRows /\ size \in [Product -> Measures]
    /\ sheet.who \in {"staff", "edit", "preparer"} /\ sheet.lines \in Seq(SheetLine)

\* The measures by which a page packs.
Unitary == [p \in Product |-> UnitOf(p)]

LEMMA UnitMeasureTyped ==
    ASSUME NEW rows \in KitRows, NEW measure \in [Product -> Nat], NEW p \in Product
    PROVE  UnitMeasure(rows, measure, p) \in Nat
  <1>1. PICK u : Unit(u, rows)
    BY UnitExists
  <1>2. PICK unit : unit = UnitQuantities(rows, p)
    OBVIOUS
  <1>3. unit \in Tally
    <2>1. {} \in SUBSET Product
      OBVIOUS
    <2>2. u[{}] \in [Product -> Tally] /\ unit = u[{}][p]
      BY <1>1, <1>2, <2>1 DEF Unit
    <2> QED BY <2>2
  <1>4. unit.of \in [Product -> Nat]
    BY <1>3 DEF Tally
  <1> DEFINE of == {q \in Product : unit.of[q] > 0}
             amounts == [q \in of |-> unit.of[q] * measure[q]]
  <1>5. amounts \in [of -> Nat]
    <2>1. ASSUME NEW q \in of PROVE unit.of[q] * measure[q] \in Nat
      <3>1. unit.of[q] \in Nat /\ measure[q] \in Nat
        BY <1>4
      <3> QED BY <3>1
    <2> QED BY <2>1
  <1>6. IsFiniteSet(of)
    BY KitsAssumption, FS_Subset
  <1>7. UnitMeasure(rows, measure, p) = IF ~unit.ok \/ \E q \in of : measure[q] = 0 THEN 0 ELSE SumFunction(amounts)
    BY <1>2 DEF UnitMeasure
  <1> HIDE DEF of, amounts
  <1>8. SumFunction(amounts) \in Nat
    BY <1>5, <1>6, SumIsHeap
  <1> QED BY <1>7, <1>8

LEMMA MeasuredTyped ==
    ASSUME PackTyped, NEW p \in Product
    PROVE  Measured(p) \in MeasureType
  <1>1. \A q \in Product : size[q] \in MeasureType
    BY PackingAssumption DEF PackTyped
  <1>2. \A q \in Product : size[q].weight \in Nat /\ size[q].volume \in Nat
    BY <1>1 DEF MeasureType
  <1>3. PICK w, v : w = [q \in Product |-> size[q].weight] /\ v = [q \in Product |-> size[q].volume]
    OBVIOUS
  <1>4. w \in [Product -> Nat] /\ v \in [Product -> Nat]
    BY <1>2, <1>3
  <1>5. UnitMeasure(parts, w, p) \in Nat /\ UnitMeasure(parts, v, p) \in Nat
    BY <1>4, UnitMeasureTyped DEF PackTyped
  <1>6. Measured(p) = [weight |-> UnitMeasure(parts, w, p), volume |-> UnitMeasure(parts, v, p)]
    BY <1>3 DEF Measured
  <1> QED BY <1>5, <1>6 DEF MeasureType

LEMMA UnitOfIs ==
    ASSUME PackTyped, NEW p \in Product
    PROVE  /\ UnitOf(p) \in MeasureType /\ UnitOf(p) = Unitary[p]
           /\ UnitOf(p) = IF Unmeasured(p) THEN DefaultMeasure ELSE Measured(p)
           /\ UnitOf(p).weight > 0 \/ UnitOf(p).volume > 0
  <1>1. UnitOf(p) = IF Unmeasured(p) THEN DefaultMeasure ELSE Measured(p)
    BY DEF UnitOf, Item
  <1>2. PICK m : m = Measured(p)
    OBVIOUS
  <1>3. m \in MeasureType
    BY <1>2, MeasuredTyped
  <1>4. /\ DefaultMeasure \in MeasureType /\ DefaultMeasure.weight > 0
    BY PackingAssumption
  <1>5. CASE Unmeasured(p)
    BY <1>1, <1>4, <1>5 DEF Unitary
  <1>6. CASE ~Unmeasured(p)
    <2>1. m # [weight |-> 0, volume |-> 0]
      BY <1>2, <1>6 DEF Unmeasured
    <2>2. m.weight \in Nat /\ m.volume \in Nat /\ m = [weight |-> m.weight, volume |-> m.volume]
      BY <1>3 DEF MeasureType
    <2>3. m.weight > 0 \/ m.volume > 0
      BY <2>1, <2>2
    <2>4. UnitOf(p) = m
      BY <1>1, <1>2, <1>6
    <2> QED BY <1>1, <1>3, <2>3, <2>4 DEF Unitary
  <1> QED BY <1>5, <1>6

LEMMA UnitaryTyped ==
    ASSUME PackTyped
    PROVE  Unitary \in Sizes
  <1>1. \A p \in Product : UnitOf(p) \in MeasureType
    BY UnitOfIs
  <1> QED BY <1>1 DEF Unitary, Sizes

\* Nothing that is too large: every item can be packed.
LEMMA ItemsPackable ==
    ASSUME PackTyped, ~TooLarge(Items)
    PROVE  /\ Items \in Seq(Packable(Unitary)) /\ Len(Items) = Len(sheet.lines)
           /\ DOMAIN Items = DOMAIN sheet.lines
           /\ \A i \in DOMAIN sheet.lines :
                /\ Items[i] \in Packable(Unitary) /\ Items[i] = Item(sheet.lines[i])
                /\ Items[i].product = sheet.lines[i].product /\ Items[i].quantity = sheet.lines[i].quantity
  <1>1. PICK n \in Nat : n = Len(sheet.lines) /\ DOMAIN sheet.lines = 1..n
    BY DEF PackTyped
  <1>2. Items = [i \in 1..n |-> Item(sheet.lines[i])]
    BY <1>1 DEF Items
  <1>3. ASSUME NEW i \in 1..n
        PROVE  /\ Items[i] \in Packable(Unitary) /\ Items[i] = Item(sheet.lines[i])
               /\ Items[i].product = sheet.lines[i].product /\ Items[i].quantity = sheet.lines[i].quantity
    <2>1. PICK l : l = sheet.lines[i]
      OBVIOUS
    <2>2. l \in SheetLine
      BY <1>1, <2>1 DEF PackTyped
    <2>3. PICK p, q : p = l.product /\ q = l.quantity
      OBVIOUS
    <2>4. p \in Product /\ q \in Nat
      BY <2>2, <2>3 DEF SheetLine
    <2>5. PICK m : m = UnitOf(p)
      OBVIOUS
    <2>6. m \in MeasureType /\ m = Unitary[p] /\ (m.weight > 0 \/ m.volume > 0)
          /\ m = IF Unmeasured(p) THEN DefaultMeasure ELSE Measured(p)
      BY <2>4, <2>5, UnitOfIs
    <2>7. Item(l) = [product |-> p, quantity |-> q, measure |-> m]
      BY <2>3, <2>6 DEF Item
    <2>8. Items[i] = Item(l)
      BY <1>2, <2>1
    <2>9. ~Tight(CartonSize, m)
      <3>1. i \in DOMAIN Items
        BY <1>2
      <3>2. \A d \in {"weight", "volume"} : ~(Items[i].measure[d] > CartonSize[d])
        BY <3>1 DEF TooLarge
      <3>3. ~(m.weight > CartonSize.weight) /\ ~(m.volume > CartonSize.volume)
        BY <2>7, <2>8, <3>2
      <3>4. CartonSize.weight \in Nat /\ CartonSize.volume \in Nat /\ m.weight \in Nat /\ m.volume \in Nat
        BY <2>6, PackingAssumption DEF MeasureType
      <3> QED BY <3>3, <3>4 DEF Tight
    <2>10. CanPack(Items[i], Unitary)
      <3>1. PICK x : x = Items[i]
        OBVIOUS
      <3>2. x.product = p /\ x.quantity = q /\ x.measure = m
        BY <2>7, <2>8, <3>1
      <3>3. CanPack(x, Unitary)
        BY <2>4, <2>6, <2>9, <3>2, UnitaryTyped DEF CanPack
      <3> QED BY <3>1, <3>3
    <2> QED BY <2>1, <2>3, <2>4, <2>6, <2>7, <2>8, <2>10 DEF Packable
  <1>4. Items \in [1..n -> Packable(Unitary)]
    BY <1>2, <1>3
  <1>5. Items \in Seq(Packable(Unitary)) /\ Len(Items) = n /\ DOMAIN Items = 1..n
    BY <1>4
  <1> QED BY <1>1, <1>3, <1>5

\* What BinsHold says of the cartons of one group of lines.
WithinFormat(bins) ==
    \A i \in DOMAIN bins : \A d \in {"weight", "volume"} : MeasureOf(bins[i], d) <= CartonSize[d]
NoneTooMany(bins) ==
    \A i, j \in DOMAIN bins : \A p \in Product :
       i < j /\ bins[j].held[p] > 0 =>
         \E d \in {"weight", "volume"} : MeasureOf(bins[i], d) + UnitOf(p)[d] > CartonSize[d]
AsAsked(bins, of) == \A p \in Product : Contents(bins, p) = Asked(of, p)

LEMMA LoadIs ==
    ASSUME PackTyped, NEW b, NEW d \in {"weight", "volume"}
    PROVE  MeasureOf(b, d) = Loaded(b.held, Unitary, d)
  <1>1. \A p \in Product : UnitOf(p) = Unitary[p]
    BY UnitOfIs
  <1>2. [p \in Product |-> b.held[p] * UnitOf(p)[d]] = [p \in Product |-> b.held[p] * Unitary[p][d]]
    BY <1>1
  <1> QED BY <1>2 DEF MeasureOf, Loaded

LEMMA SoundHolds ==
    ASSUME PackTyped, NEW bins, Sound(bins, Unitary)
    PROVE  WithinFormat(bins) /\ NoneTooMany(bins)
  <1>1. PICK n \in Nat : n = Len(bins) /\ DOMAIN bins = 1..n
    BY DEF Sound, Weighty
  <1>2. ASSUME NEW i \in 1..n
        PROVE  /\ bins[i].left.weight \in Nat /\ bins[i].left.volume \in Nat
               /\ bins[i].left.weight + MeasureOf(bins[i], "weight") = CartonSize.weight
               /\ bins[i].left.volume + MeasureOf(bins[i], "volume") = CartonSize.volume
               /\ MeasureOf(bins[i], "weight") \in Nat /\ MeasureOf(bins[i], "volume") \in Nat
    <2>1. Weighed(bins[i], Unitary)
      BY <1>1 DEF Sound, Weighty
    <2>2. bins[i] \in Bin
      BY <2>1 DEF Weighed
    <2>3. MeasureOf(bins[i], "weight") = Loaded(bins[i].held, Unitary, "weight")
          /\ MeasureOf(bins[i], "volume") = Loaded(bins[i].held, Unitary, "volume")
      BY LoadIs
    <2>4. bins[i].left.weight \in Nat /\ bins[i].left.volume \in Nat /\ bins[i].held \in [Product -> Nat]
      BY <2>2 DEF Bin, MeasureType
    <2>5. Loaded(bins[i].held, Unitary, "weight") \in Nat /\ Loaded(bins[i].held, Unitary, "volume") \in Nat
      BY <2>4, UnitaryTyped, LoadTyped
    <2> QED BY <2>1, <2>3, <2>4, <2>5 DEF Weighed
  <1>3. WithinFormat(bins)
    <2>1. ASSUME NEW i \in 1..n, NEW d \in {"weight", "volume"} PROVE MeasureOf(bins[i], d) <= CartonSize[d]
      <3>1. MeasureOf(bins[i], "weight") <= CartonSize.weight /\ MeasureOf(bins[i], "volume") <= CartonSize.volume
        BY <1>2
      <3> QED BY <3>1
    <2> QED BY <1>1, <2>1 DEF WithinFormat
  <1>4. ASSUME NEW i \in 1..n, NEW j \in 1..n, NEW p \in Product, i < j, bins[j].held[p] > 0
        PROVE  \E d \in {"weight", "volume"} : MeasureOf(bins[i], d) + UnitOf(p)[d] > CartonSize[d]
    <2>1. PICK m : m = UnitOf(p)
      OBVIOUS
    <2>2. m \in MeasureType /\ m = Unitary[p]
      BY <2>1, UnitOfIs
    <2>3. m.weight \in Nat /\ m.volume \in Nat
      BY <2>2 DEF MeasureType
    <2>4. Tight(bins[i].left, m)
      BY <1>1, <1>4, <2>2 DEF Sound, Snug
    <2>5. CASE bins[i].left.weight < m.weight
      <3>1. MeasureOf(bins[i], "weight") + m.weight > CartonSize.weight
        BY <1>2, <2>3, <2>5
      <3> QED BY <2>1, <3>1
    <2>6. CASE bins[i].left.volume < m.volume
      <3>1. MeasureOf(bins[i], "volume") + m.volume > CartonSize.volume
        BY <1>2, <2>3, <2>6
      <3> QED BY <2>1, <3>1
    <2> QED BY <2>4, <2>5, <2>6 DEF Tight
  <1>5. NoneTooMany(bins)
    BY <1>1, <1>4 DEF NoneTooMany
  <1> QED BY <1>3, <1>5

\* What is asked of a product, as the units of the items.
LEMMA AskedIs ==
    ASSUME PackTyped, ~TooLarge(Items), NEW of \in SUBSET DOMAIN sheet.lines, NEW p \in Product
    PROVE  /\ IsFiniteSet(of)
           /\ [i \in of |-> Units(Items[i], p)] \in [of -> Nat]
           /\ Asked(of, p) = SumFunction([i \in of |-> Units(Items[i], p)])
  <1>1. PICK n \in Nat : n = Len(sheet.lines) /\ DOMAIN sheet.lines = 1..n
    BY DEF PackTyped
  <1>2. IsFiniteSet(of)
    BY <1>1, UpToCount, FS_Subset
  <1>3. ASSUME NEW i \in of
        PROVE  /\ Units(Items[i], p) \in Nat
               /\ Units(Items[i], p) = IF p = sheet.lines[i].product THEN sheet.lines[i].quantity ELSE 0
    <2>1. Items[i].product = sheet.lines[i].product /\ Items[i].quantity = sheet.lines[i].quantity
          /\ Items[i] \in Packable(Unitary)
      BY ItemsPackable
    <2>2. Items[i].quantity \in Nat
      BY <2>1 DEF Packable
    <2> QED BY <2>1, <2>2 DEF Units
  <1> DEFINE T == {j \in of : sheet.lines[j].product = p}
             all == [i \in of |-> Units(Items[i], p)]
             some == [i \in T |-> sheet.lines[i].quantity]
  <1>4. all \in [of -> Nat]
    BY <1>3
  <1>5. some \in [T -> Nat] /\ \A i \in T : some[i] = all[i]
    <2>1. \A i \in T : sheet.lines[i].quantity = Units(Items[i], p) /\ Units(Items[i], p) \in Nat
      BY <1>3
    <2> QED BY <2>1
  <1>6. \A i \in of \ T : all[i] = 0
    BY <1>3
  <1>7. T \subseteq of
    OBVIOUS
  <1>8. Asked(of, p) = SumFunction(some)
    BY DEF Asked
  <1> HIDE DEF T, all, some
  <1>9. LeavesOut(some, all, T, of)
    BY <1>2, <1>4, <1>5, <1>6, <1>7 DEF LeavesOut
  <1>10. SumFunction(all) = SumFunction(some)
    BY <1>9, SumDropsZeros
  <1> QED BY <1>2, <1>4, <1>8, <1>10 DEF all

\* All the lines in one group.
LEMMA AllHold ==
    ASSUME PackTyped, ~TooLarge(Items)
    PROVE  /\ AsAsked(Bins(Items), DOMAIN sheet.lines)
           /\ WithinFormat(Bins(Items)) /\ NoneTooMany(Bins(Items))
  <1>1. Items \in Seq(Packable(Unitary)) /\ Len(Items) = Len(sheet.lines) /\ DOMAIN sheet.lines = 1..Len(Items)
    <2>1. sheet.lines \in Seq(SheetLine)
      BY DEF PackTyped
    <2>2. DOMAIN sheet.lines = 1..Len(sheet.lines)
      BY <2>1
    <2> QED BY <2>2, ItemsPackable
  <1>2. ASSUME NEW p \in Product
        PROVE  Sound(Bins(Items), Unitary) /\ Contents(Bins(Items), p) = Asked(DOMAIN sheet.lines, p)
    <2>1. Sound(Bins(Items), Unitary)
          /\ Contents(Bins(Items), p) = SumFunction([n \in 1..Len(Items) |-> Units(Items[n], p)])
      BY <1>1, BinsAsked
    <2>2. DOMAIN sheet.lines \in SUBSET DOMAIN sheet.lines
      OBVIOUS
    <2>3. Asked(DOMAIN sheet.lines, p) = SumFunction([i \in DOMAIN sheet.lines |-> Units(Items[i], p)])
      BY <2>2, AskedIs
    <2> QED BY <1>1, <2>1, <2>3
  <1>3. Sound(Bins(Items), Unitary)
    BY <1>1, BinsSound
  <1> QED BY <1>2, <1>3, SoundHolds DEF AsAsked

\* The lines of a family.
Of(f) == {i \in DOMAIN sheet.lines : sheet.lines[i].family = f}
\* Their places, in the order of the form.
FormPlace(S) == [j \in S |-> Cardinality({i \in S : i <= j})]
FormOrder(S) == {z \in S \X S : z[1] <= z[2]}

LEMMA FormPlaces ==
    ASSUME NEW S, IsFiniteSet(S), S \subseteq Nat
    PROVE  Places(FormPlace(S), S)
  <1>1. \A i, j \in S : <<i, j>> \in FormOrder(S) <=> i <= j
    BY DEF FormOrder
  <1>2. \A i \in S : i \in Nat
    OBVIOUS
  <1>3. /\ \A i \in S : <<i, i>> \in FormOrder(S)
        /\ \A i, j \in S : <<i, j>> \in FormOrder(S) \/ <<j, i>> \in FormOrder(S)
        /\ \A i, j \in S : <<i, j>> \in FormOrder(S) /\ <<j, i>> \in FormOrder(S) => i = j
    BY <1>1, <1>2
  <1>4. \A i, j, k \in S : <<i, j>> \in FormOrder(S) /\ <<j, k>> \in FormOrder(S) => <<i, k>> \in FormOrder(S)
    BY <1>1, <1>2
  <1>5. Orders(FormOrder(S), S)
    BY <1>3, <1>4 DEF Orders
  <1>6. CountsBelow(FormPlace(S), FormOrder(S), S)
    <2>1. ASSUME NEW j \in S PROVE {i \in S : i <= j} = {i \in S : <<i, j>> \in FormOrder(S)}
      BY <1>1
    <2>2. \A j \in S : Cardinality({i \in S : i <= j}) = Cardinality({i \in S : <<i, j>> \in FormOrder(S)})
      BY <2>1
    <2> QED BY <2>2 DEF CountsBelow, FormPlace
  <1> QED BY <1>5, <1>6, PlacesByOrder

\* What a family packs are its items, once each.
LEMMA OfFamilyIs ==
    ASSUME PackTyped, ~TooLarge(Items), NEW f
    PROVE  /\ Of(f) \in SUBSET DOMAIN sheet.lines /\ Cardinality(Of(f)) \in Nat
           /\ OfFamily(f) \in Seq(Packable(Unitary)) /\ Len(OfFamily(f)) = Cardinality(Of(f))
           /\ \A n \in 1..Cardinality(Of(f)) : \E i \in Of(f) : OfFamily(f)[n] = Items[i]
           /\ \A p \in Product :
                SumFunction([n \in 1..Len(OfFamily(f)) |-> Units(OfFamily(f)[n], p)]) = Asked(Of(f), p)
  <1>1. PICK n \in Nat : n = Len(sheet.lines) /\ DOMAIN sheet.lines = 1..n
    BY DEF PackTyped
  <1>2. PICK S : S = Of(f)
    OBVIOUS
  <1>3. S \in SUBSET DOMAIN sheet.lines
    BY <1>2 DEF Of
  <1>4. IsFiniteSet(S) /\ S \subseteq Nat
    BY <1>1, <1>3, UpToCount, FS_Subset
  <1>5. PICK place, N : place = FormPlace(S) /\ N = Cardinality(S)
    OBVIOUS
  <1>6. Places(place, S)
    BY <1>4, <1>5, FormPlaces
  <1>7. PICK listed : listed = InOrder(S, place)
    OBVIOUS
  <1>8. N \in Nat /\ listed \in [1..N -> S]
    BY <1>5, <1>6, <1>7, InOrderIs
  <1>9. OfFamily(f) = [k \in 1..N |-> Item(sheet.lines[listed[k]])]
    BY <1>2, <1>5, <1>7 DEF OfFamily, Of, FormPlace
  <1>10. \A i \in DOMAIN sheet.lines : Items[i] \in Packable(Unitary) /\ Items[i] = Item(sheet.lines[i])
    BY ItemsPackable
  <1>11. \A k \in 1..N : listed[k] \in S /\ listed[k] \in DOMAIN sheet.lines
    BY <1>3, <1>8
  <1>12. PICK O : O = OfFamily(f)
    OBVIOUS
  <1>13. O = [k \in 1..N |-> Items[listed[k]]]
    BY <1>9, <1>10, <1>11, <1>12
  <1>14. O \in [1..N -> Packable(Unitary)]
    BY <1>10, <1>11, <1>13
  <1>15. O \in Seq(Packable(Unitary)) /\ Len(O) = N
    BY <1>8, <1>14
  <1>16. ASSUME NEW p \in Product
         PROVE  SumFunction([k \in 1..N |-> Units(O[k], p)]) = Asked(S, p)
    <2>1. PICK all : all = [i \in S |-> Units(Items[i], p)]
      OBVIOUS
    <2>2. PICK some : some = [k \in 1..N |-> Units(O[k], p)]
      OBVIOUS
    <2>3. all \in [S -> Nat] /\ Asked(S, p) = SumFunction(all)
      BY <1>3, <2>1, AskedIs
    <2>4. some = [k \in 1..Cardinality(S) |-> all[InOrder(S, place)[k]]]
      <3>1. \A k \in 1..N : Units(O[k], p) = all[listed[k]]
        BY <1>11, <1>13, <2>1
      <3> QED BY <1>5, <1>7, <2>2, <3>1
    <2>5. SumFunction(some) = SumFunction(all)
      BY <1>6, <2>3, <2>4, InOrderSums
    <2> QED BY <2>2, <2>3, <2>5
  <1>17. \A k \in 1..N : \E i \in S : O[k] = Items[i]
    BY <1>11, <1>13
  <1> QED BY <1>2, <1>3, <1>5, <1>8, <1>12, <1>15, <1>16, <1>17

LEMMA FamilyHolds ==
    ASSUME PackTyped, ~TooLarge(Items), NEW f
    PROVE  /\ AsAsked(Bins(OfFamily(f)), Of(f))
           /\ WithinFormat(Bins(OfFamily(f))) /\ NoneTooMany(Bins(OfFamily(f)))
  <1>1. PICK O : O = OfFamily(f)
    OBVIOUS
  <1>2. O \in Seq(Packable(Unitary))
    BY <1>1, OfFamilyIs
  <1>3. ASSUME NEW p \in Product PROVE Contents(Bins(O), p) = Asked(Of(f), p)
    <2>1. Contents(Bins(O), p) = SumFunction([n \in 1..Len(O) |-> Units(O[n], p)])
      BY <1>2, BinsAsked
    <2>2. SumFunction([n \in 1..Len(O) |-> Units(O[n], p)]) = Asked(Of(f), p)
      BY <1>1, OfFamilyIs
    <2> QED BY <2>1, <2>2
  <1>4. Sound(Bins(O), Unitary)
    BY <1>2, BinsSound
  <1> QED BY <1>1, <1>3, <1>4, SoundHolds DEF AsAsked

LEMMA BinsOfNone ==
    ASSUME NEW mu, NEW items \in Seq(Packable(mu)), Len(items) = 0
    PROVE  Len(Bins(items)) = 0
  <1>1. CanPackAll(items, mu)
    BY DEF CanPackAll
  <1>2. PICK up : Filling(up, items, mu) /\ Bins(items) = up[Len(items)]
    BY <1>1, BinsIs
  <1>3. Bins(items) = <<>>
    BY <1>2 DEF Filling
  <1> QED BY <1>3

LEMMA PlacedFirst ==
    ASSUME NEW mu, NEW item, CanPack(item, mu)
    PROVE  Len(PlaceItem(<<>>, item)) = (item.quantity + Full(item) - 1) \div Full(item)
  <1>1. <<>> \in Seq(Bin) /\ Len(<<>>) = 0 /\ Weighty(<<>>, mu)
    BY NoneSound DEF SoundBins, Sound
  <1>2. PICK L : /\ Pours(L, <<>>, item)
                 /\ PlaceItem(<<>>, item) = Topped(<<>>, item, L) \o Opened(item, L[Len(<<>>)])
    BY <1>1, PlaceItemIs
  <1>3. Pouring(L, <<>>, item, mu)
    BY <1>1, <1>2 DEF Pouring
  <1>4. PICK T, O : T = Topped(<<>>, item, L) /\ O = Opened(item, item.quantity)
    OBVIOUS
  <1>5. T \in Seq(Bin) /\ Len(T) = 0
    BY <1>1, <1>3, <1>4, ToppedIs DEF Weighty
  <1>6. L[0] = item.quantity /\ item.quantity \in Nat
    BY <1>2 DEF Pours, CanPack
  <1>7. O \in Seq(Bin) /\ Len(O) = (item.quantity + Full(item) - 1) \div Full(item) /\ Len(O) \in Nat
    BY <1>4, <1>6, OpenedIs DEF Weighty
  <1>8. PlaceItem(<<>>, item) = T \o O
    BY <1>1, <1>2, <1>4, <1>6
  <1>9. Len(T \o O) = Len(T) + Len(O)
    BY <1>5, <1>7, JoinedIs
  <1>10. PICK k \in Nat : k = Len(O)
    BY <1>7
  <1>11. Len(T \o O) = k
    BY <1>5, <1>9, <1>10
  <1> QED BY <1>7, <1>8, <1>10, <1>11

LEMMA BinsOfOne ==
    ASSUME NEW mu, NEW items \in Seq(Packable(mu)), Len(items) = 1, NEW x, x = items[1]
    PROVE  Len(Bins(items)) = (x.quantity + Full(x) - 1) \div Full(x)
  <1>1. x \in Packable(mu) /\ x.product \in Product
    BY DEF Packable
  <1>2. CanPackAll(items, mu) /\ \A n \in 1..1 : \E i \in 1..1 : LargestFirst(items)[n] = items[i]
    <2>1. CanPackAll(items, mu)
          /\ \A n \in 1..Len(items) : \E i \in 1..Len(items) : LargestFirst(items)[n] = items[i]
      BY <1>1, LargestFirstIs
    <2> QED BY <2>1
  <1>3. PICK up : Filling(up, items, mu) /\ Bins(items) = up[1]
    <2>1. PICK up : Filling(up, items, mu) /\ Bins(items) = up[Len(items)]
      BY <1>2, BinsIs
    <2> QED BY <2>1
  <1>4. 1 \in 1..1 /\ 1 - 1 = 0 /\ \A i \in 1..1 : i = 1
    OBVIOUS
  <1>5. LargestFirst(items)[1] = x
    BY <1>2, <1>4
  <1>6. up[0] = <<>> /\ up[1] = PlaceItem(up[0], LargestFirst(items)[1])
    BY <1>3, <1>4 DEF Filling
  <1>7. Bins(items) = PlaceItem(<<>>, x)
    BY <1>3, <1>5, <1>6
  <1> QED BY <1>1, <1>7, PlacedFirst DEF Packable

\* The portal's number of a full carton is the page's.
LEMMA EstimateIs ==
    ASSUME PackTyped, ~TooLarge(Items), NEW i \in DOMAIN sheet.lines, Estimate(sheet.lines[i]) > 0
    PROVE  Estimate(sheet.lines[i]) = (Items[i].quantity + Full(Items[i]) - 1) \div Full(Items[i])
  <1>1. PICK l, x : l = sheet.lines[i] /\ x = Items[i]
    OBVIOUS
  <1>2. x \in Packable(Unitary) /\ x = Item(l) /\ x.product = l.product /\ x.quantity = l.quantity
    BY <1>1, ItemsPackable
  <1>3. PICK m, p : p = l.product /\ m = Measured(p)
    OBVIOUS
  <1>4. p \in Product /\ CanPack(x, Unitary)
    BY <1>2, <1>3 DEF Packable
  <1>5. m \in MeasureType
    BY <1>3, <1>4, MeasuredTyped
  <1> DEFINE D == {d \in {"weight", "volume"} : m[d] > 0}
             units == {Max({1, CartonSize[d] \div m[d]}) : d \in D}
             whole == {CartonSize[d] \div m[d] : d \in D}
  <1>6. Estimate(l) = IF units = {} THEN 0 ELSE (l.quantity + Min(units) - 1) \div Min(units)
    BY <1>3 DEF Estimate
  <1>7. units # {}
    <2>1. Estimate(l) > 0
      BY <1>1
    <2> HIDE DEF D, units
    <2> QED BY <1>6, <2>1
  <1>8. PICK e \in D : TRUE
    <2>1. D = {} => units = {}
      OBVIOUS
    <2> HIDE DEF D, units
    <2> QED BY <1>7, <2>1
  <1>9. ~Unmeasured(p)
    <2>1. e = "weight" \/ e = "volume"
      OBVIOUS
    <2>2. m.weight > 0 \/ m.volume > 0
      BY <1>8, <2>1
    <2>3. Unmeasured(p) => m.weight = 0 /\ m.volume = 0
      BY <1>3 DEF Unmeasured
    <2> QED BY <1>5, <2>2, <2>3 DEF MeasureType
  <1>10. x.measure = m
    BY <1>2, <1>3, <1>9 DEF Item
  <1>11. ~Tight(CartonSize, m)
    BY <1>4, <1>10 DEF CanPack
  <1>12. ASSUME NEW d \in D PROVE CartonSize[d] \div m[d] \in Nat /\ CartonSize[d] \div m[d] >= 1
    <2>1. m.weight \in Nat /\ m.volume \in Nat /\ CartonSize.weight \in Nat /\ CartonSize.volume \in Nat
      BY <1>5, PackingAssumption DEF MeasureType
    <2>2. m[d] <= CartonSize[d] /\ m[d] \in Nat \ {0} /\ CartonSize[d] \in Nat
      <3>1. m.weight <= CartonSize.weight /\ m.volume <= CartonSize.volume
        BY <1>11, <2>1 DEF Tight
      <3>2. d = "weight" \/ d = "volume"
        OBVIOUS
      <3> QED BY <2>1, <3>1, <3>2
    <2>3. PICK a, b : a = CartonSize[d] /\ b = m[d]
      OBVIOUS
    <2>4. a \div b \in Nat /\ a \div b >= 1
      BY <2>2, <2>3, Division
    <2> QED BY <2>3, <2>4
  <1>13. ASSUME NEW d \in D PROVE Max({1, CartonSize[d] \div m[d]}) = CartonSize[d] \div m[d]
    <2>1. PICK a : a = CartonSize[d] \div m[d]
      OBVIOUS
    <2>2. a \in Nat /\ a >= 1
      BY <1>12, <2>1
    <2>3. Max({1, a}) = IF 1 <= a THEN a ELSE 1
      BY <2>2, MaxOfTwo
    <2> QED BY <2>1, <2>2, <2>3
  <1>14. units = whole
    BY <1>13
  <1>15. Fit(CartonSize, m) = Min(whole)
    BY DEF Fit
  <1> HIDE DEF D, units, whole
  <1>16. PICK f : f = Fit(CartonSize, m)
    OBVIOUS
  <1>17. Full(x) = f
    BY <1>4, <1>10, <1>16, OpenedIs
  <1>18. Estimate(l) = (l.quantity + f - 1) \div f
    BY <1>6, <1>7, <1>14, <1>15, <1>16
  <1> QED BY <1>1, <1>2, <1>17, <1>18

GroupHolds(bins, of) == AsAsked(bins, of) /\ WithinFormat(bins) /\ NoneTooMany(bins)
Group(g) == {i \in DOMAIN sheet.lines : sheet.who = "preparer" => sheet.lines[i].family = Families[g]}
\* The cartons that the portal announced for a line that is alone.
Announced ==
    Len(sheet.lines) = 1 /\ Estimate(sheet.lines[1]) > 0 =>
       Len(sheet.cartons[1]) + (IF sheet.who = "preparer" THEN Len(sheet.cartons[2]) ELSE 0)
         = Estimate(sheet.lines[1])

LEMMA BinsHoldIs ==
    ASSUME sheet.step = "packed" =>
             (\A g \in DOMAIN sheet.cartons : GroupHolds(sheet.cartons[g], Group(g))) /\ Announced
    PROVE  BinsHold
  BY DEF BinsHold, GroupHolds, Group, AsAsked, WithinFormat, NoneTooMany, Announced

LEMMA AnnouncedAlone ==
    ASSUME PackTyped, ~TooLarge(Items), NEW items \in Seq(Packable(Unitary)), Len(items) = 1,
           1 \in DOMAIN sheet.lines, items[1] = Items[1], Estimate(sheet.lines[1]) > 0
    PROVE  Len(Bins(items)) = Estimate(sheet.lines[1])
  BY BinsOfOne, EstimateIs

\* What Pack makes of a sheet holds.
LEMMA PackedHolds ==
    ASSUME PackTyped, ~TooLarge(Items), ~Unsorted, sheet.cartons = Packed
    PROVE  (\A g \in DOMAIN sheet.cartons : GroupHolds(sheet.cartons[g], Group(g))) /\ Announced
  <1>1. PICK n \in Nat : n = Len(sheet.lines) /\ DOMAIN sheet.lines = 1..n
    BY DEF PackTyped
  <1>2. CASE sheet.who # "preparer"
    <2>1. sheet.cartons = <<Bins(Items)>> /\ DOMAIN sheet.cartons = {1} /\ sheet.cartons[1] = Bins(Items)
      BY <1>2 DEF Packed
    <2>2. Group(1) = DOMAIN sheet.lines
      BY <1>2 DEF Group
    <2>3. GroupHolds(sheet.cartons[1], Group(1))
      BY <2>1, <2>2, AllHold DEF GroupHolds
    <2>4. ASSUME n = 1, Estimate(sheet.lines[1]) > 0
          PROVE  Len(sheet.cartons[1]) = Estimate(sheet.lines[1])
      <3>1. Items \in Seq(Packable(Unitary)) /\ Len(Items) = 1 /\ 1 \in DOMAIN sheet.lines
        BY <1>1, <2>4, ItemsPackable
      <3> QED BY <2>1, <2>4, <3>1, AnnouncedAlone
    <2>5. PICK k : k = Estimate(sheet.lines[1])
      OBVIOUS
    <2>6. ASSUME n = 1, k > 0 PROVE Len(sheet.cartons[1]) + 0 = k
      <3>1. Len(sheet.cartons[1]) = k
        BY <2>4, <2>5, <2>6
      <3>2. Bins(Items) \in Seq(Bin)
        BY ItemsPackable, BinsSound DEF Sound, Weighty
      <3>3. Len(sheet.cartons[1]) \in Nat
        BY <2>1, <3>2
      <3> QED BY <3>1, <3>3
    <2>7. Announced
      BY <1>1, <1>2, <2>5, <2>6 DEF Announced
    <2> QED BY <2>1, <2>3, <2>7
  <1>3. CASE sheet.who = "preparer"
    <2>1. sheet.cartons = [g \in 1..2 |-> Bins(OfFamily(Families[g]))]
      BY <1>3 DEF Packed
    <2>2. ASSUME NEW g \in 1..2 PROVE GroupHolds(sheet.cartons[g], Group(g))
      <3>1. Group(g) = Of(Families[g])
        BY <1>3 DEF Group, Of
      <3>2. sheet.cartons[g] = Bins(OfFamily(Families[g]))
        BY <2>1
      <3> QED BY <3>1, <3>2, FamilyHolds DEF GroupHolds
    <2>3. Families[1] = "MM" /\ Families[2] = "CN"
      BY DEF Families
    <2>4. PICK a, b : a = OfFamily("MM") /\ b = OfFamily("CN")
      OBVIOUS
    <2>5. sheet.cartons[1] = Bins(a) /\ sheet.cartons[2] = Bins(b)
      BY <2>1, <2>3, <2>4
    <2>6. /\ a \in Seq(Packable(Unitary)) /\ Len(a) = Cardinality(Of("MM"))
          /\ b \in Seq(Packable(Unitary)) /\ Len(b) = Cardinality(Of("CN"))
      BY <2>4, OfFamilyIs
    <2>7. PICK k : k = Estimate(sheet.lines[1])
      OBVIOUS
    <2>8. ASSUME n = 1, k > 0 PROVE Len(Bins(a)) + Len(Bins(b)) = k
      <3>1. DOMAIN sheet.lines = {1}
        BY <1>1, <2>8
      <3>2. Cardinality({1}) = 1 /\ Cardinality({}) = 0
        BY FS_Singleton, FS_EmptySet
      <3>3. sheet.lines[1].family \in {"MM", "CN"}
        BY <1>3, <3>1 DEF Unsorted
      <3>4. CASE sheet.lines[1].family = "MM"
        <4>1. Of("MM") = {1} /\ Of("CN") = {}
          BY <3>1, <3>4 DEF Of
        <4>2. Len(a) = 1 /\ Len(b) = 0
          BY <2>6, <3>2, <4>1
        <4>3. Len(Bins(b)) = 0
          BY <2>6, <4>2, BinsOfNone
        <4>4. a[1] = Items[1]
          <5>1. \A m \in 1..Cardinality(Of("MM")) : \E i \in Of("MM") : a[m] = Items[i]
            BY <2>4, OfFamilyIs
          <5> QED BY <3>2, <4>1, <5>1
        <4>5. Len(Bins(a)) = k
          BY <2>6, <2>7, <2>8, <3>1, <4>2, <4>4, AnnouncedAlone
        <4>6. Bins(a) \in Seq(Bin)
          BY <2>6, BinsSound DEF Sound, Weighty
        <4>7. Len(Bins(a)) \in Nat
          BY <4>6
        <4> QED BY <4>3, <4>5, <4>7
      <3>5. CASE sheet.lines[1].family = "CN"
        <4>1. Of("CN") = {1} /\ Of("MM") = {}
          BY <3>1, <3>5 DEF Of
        <4>2. Len(b) = 1 /\ Len(a) = 0
          BY <2>6, <3>2, <4>1
        <4>3. Len(Bins(a)) = 0
          BY <2>6, <4>2, BinsOfNone
        <4>4. b[1] = Items[1]
          <5>1. \A m \in 1..Cardinality(Of("CN")) : \E i \in Of("CN") : b[m] = Items[i]
            BY <2>4, OfFamilyIs
          <5> QED BY <3>2, <4>1, <5>1
        <4>5. Len(Bins(b)) = k
          BY <2>6, <2>7, <2>8, <3>1, <4>2, <4>4, AnnouncedAlone
        <4>6. Bins(b) \in Seq(Bin)
          BY <2>6, BinsSound DEF Sound, Weighty
        <4>7. Len(Bins(b)) \in Nat
          BY <4>6
        <4> QED BY <4>3, <4>5, <4>7
      <3> QED BY <3>3, <3>4, <3>5
    <2>9. Announced
      BY <1>1, <1>3, <2>5, <2>7, <2>8 DEF Announced
    <2>10. DOMAIN sheet.cartons = 1..2
      BY <2>1
    <2> QED BY <2>2, <2>9, <2>10
  <1> QED BY <1>2, <1>3

\* The sheet's own fields, and that it is packed as Pack says.
PackInv(rows) ==
    /\ PackTyped /\ parts \in rows
    /\ sheet = [who |-> sheet.who, lines |-> sheet.lines, confirmed |-> sheet.confirmed,
                step |-> sheet.step, cartons |-> sheet.cartons]
    /\ sheet.step \in {"sent", "asked", "refused", "packed"} /\ sheet.confirmed \in BOOLEAN
    /\ sheet.step = "packed" => ~Unsorted /\ ~TooLarge(Items) /\ sheet.cartons = Packed

LEMMA PackStart ==
    ASSUME NEW rows \in SUBSET Rows, PackingInit(rows)
    PROVE  PackInv(rows)
  <1>1. PICK f \in PackForms :
          sheet = [who |-> f.who, lines |-> f.lines, confirmed |-> FALSE, step |-> "sent", cartons |-> <<>>]
    BY DEF PackingInit
  <1>2. f.who \in {"staff", "edit", "preparer"} /\ f.lines \in Seq(SheetLine)
    BY PackingAssumption DEF SheetLine
  <1>3. parts \in rows /\ parts \in KitRows /\ size \in [Product -> Measures]
    BY RowsAreAmounts DEF PackingInit
  <1> QED BY <1>1, <1>2, <1>3 DEF PackInv, PackTyped

LEMMA PackSteps ==
    ASSUME NEW rows, PackInv(rows), [PackingNext /\ UNCHANGED parts]_<<packVars, parts>>
    PROVE  PackInv(rows)'
  <1>1. CASE UNCHANGED <<packVars, parts>>
    <2>1. UNCHANGED <<size, sheet, parts>>
      BY <1>1 DEF packVars
    <2>2. PackTyped'
      BY <2>1 DEF PackInv, PackTyped
    <2>3. Packed' = Packed /\ (TooLarge(Items))' = TooLarge(Items) /\ Unsorted' = Unsorted
      BY <2>1 DEF Packed, Items, OfFamily, Item, Measured, Unmeasured, TooLarge, Unsorted
    <2> QED BY <2>1, <2>2, <2>3 DEF PackInv
  <1>2. ASSUME UNCHANGED <<size, parts>>, NEW c \in BOOLEAN, NEW st \in {"sent", "asked", "refused", "packed"},
               NEW ca,
               sheet' = [who |-> sheet.who, lines |-> sheet.lines, confirmed |-> c, step |-> st, cartons |-> ca],
               st = "packed" => ~Unsorted /\ ~TooLarge(Items) /\ ca = Packed
        PROVE  PackInv(rows)'
    <2>1. sheet'.who = sheet.who /\ sheet'.lines = sheet.lines /\ sheet'.step = st /\ sheet'.cartons = ca
          /\ sheet'.confirmed = c
      BY <1>2
    <2>2. PackTyped'
      BY <1>2, <2>1 DEF PackInv, PackTyped
    <2>3. size' = size /\ parts' = parts
      BY <1>2
    <2>4. \A l : Item(l)' = Item(l)
      BY <2>3 DEF Item, Measured, Unmeasured
    <2>5. Items' = Items
      BY <2>1, <2>4 DEF Items
    <2>6. \A f : OfFamily(f)' = OfFamily(f)
      BY <2>1, <2>4 DEF OfFamily
    <2>7. Packed' = Packed
      BY <2>1, <2>5, <2>6 DEF Packed
    <2>8. Unsorted' = Unsorted
      BY <2>1 DEF Unsorted
    <2>9. (TooLarge(Items))' = TooLarge(Items)
      BY <2>5 DEF TooLarge
    <2> QED BY <1>2, <2>1, <2>2, <2>3, <2>7, <2>8, <2>9 DEF PackInv
  <1>3. /\ sheet = [who |-> sheet.who, lines |-> sheet.lines, confirmed |-> sheet.confirmed,
                   step |-> sheet.step, cartons |-> sheet.cartons]
        /\ sheet.confirmed \in BOOLEAN
    BY DEF PackInv
  <1>4. ASSUME NEW st, NEW ca, Answer(st, ca)
        PROVE  /\ sheet' = [who |-> sheet.who, lines |-> sheet.lines, confirmed |-> sheet.confirmed,
                            step |-> st, cartons |-> ca]
               /\ size' = size
    BY <1>3, <1>4 DEF Answer
  <1>5. CASE PackingNext /\ UNCHANGED parts
    <2>1. CASE AskToConfirm
      <3>1. Answer("asked", <<>>)
        BY <2>1 DEF AskToConfirm
      <3> QED BY <1>2, <1>3, <1>4, <1>5, <3>1
    <2>2. CASE Confirm
      <3>1. sheet' = [sheet EXCEPT !.step = "sent", !.confirmed = TRUE] /\ size' = size
        BY <2>2 DEF Confirm
      <3>2. sheet' = [who |-> sheet.who, lines |-> sheet.lines, confirmed |-> TRUE,
                      step |-> "sent", cartons |-> sheet.cartons]
        BY <1>3, <3>1
      <3> QED BY <1>2, <1>5, <3>1, <3>2
    <2>3. CASE Refuse
      <3>1. Answer("refused", <<>>)
        BY <2>3 DEF Refuse
      <3> QED BY <1>2, <1>3, <1>4, <1>5, <3>1
    <2>4. CASE Pack
      <3>1. Answer("packed", Packed) /\ ~Unsorted /\ ~TooLarge(Items)
        BY <2>4 DEF Pack
      <3> QED BY <1>2, <1>3, <1>4, <1>5, <3>1
    <2> QED BY <1>5, <2>1, <2>2, <2>3, <2>4 DEF PackingNext
  <1> QED BY <1>1, <1>5

\* What a sheet is, and that its cartons are those of its lines once it is packed.
THEOREM PackingStaysSound ==
    ASSUME NEW rows \in SUBSET Rows
    PROVE  PackingSpec(rows) => []PackInv(rows)
  <1>1. PackingInit(rows) => PackInv(rows)
    BY PackStart
  <1>2. PackInv(rows) /\ [PackingNext /\ UNCHANGED parts]_<<packVars, parts>> => PackInv(rows)'
    BY PackSteps
  <1> QED BY <1>1, <1>2, PTL DEF PackingSpec

\* The measures and the sheet keep their types.
THEOREM PackingStaysTyped ==
    ASSUME NEW rows \in SUBSET Rows
    PROVE  PackingSpec(rows) => []PackingTypeOK
  <1>1. PackInv(rows) => PackingTypeOK
    BY DEF PackInv, PackTyped, PackingTypeOK
  <1> QED BY <1>1, PackingStaysSound, PTL

\* Whatever the kits, the measures, the format of the carton and the form: what
\* build_packing_bins packs is what was asked, to the unit, in no carton more than it holds,
\* in no later carton what an earlier one has room for, and for a line alone in as many
\* cartons as the portal announced.
THEOREM BinsAlwaysHold ==
    ASSUME NEW rows \in SUBSET Rows
    PROVE  PackingSpec(rows) => []BinsHold
  <1>1. PackInv(rows) => BinsHold
    BY PackedHolds, BinsHoldIs DEF PackInv
  <1> QED BY <1>1, PackingStaysSound, PTL
===============================================================================
