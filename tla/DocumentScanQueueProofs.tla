----------------------- MODULE DocumentScanQueueProofs -----------------------
(***************************************************************************)
(* What the scan queue and its documents keep true for any documents, any  *)
(* number of runs that overlap and die, any limit and any verdicts.        *)
(***************************************************************************)
EXTENDS DocumentScanQueue, TLAPS

\* What a run x holds of a document, unless a lease of it lapsed: the event is
\* its own, and the document says what x loaded, or what x wrote over it.
Holds(x, d) ==
    /\ event[d].status = "processing"
    /\ d \in x.cur /\ x.written => doc[d] \in {x.verdict, "deleted"}
    /\ ~ (d \in x.cur /\ x.written) => doc[d] \in {"pending", "error", "deleted"}

\* What a run x remembers is so.
Knows(x) ==
    /\ x \in Scan
    /\ x.cur \subseteq x.selected
    /\ \A d \in x.cur : x.cur = {d} /\ x.todo = {} /\ (x.verdict = "clean" => d \in cleared)
    /\ x.cur = {} => ~ x.written
    /\ x.old \subseteq outlived
    /\ \A d \in x.todo \cup x.selected : event[d].status # "absent"
    /\ \A d \in x.selected \ outlived : Holds(x, d)
    /\ \A d \in x.cur \ outlived : ~ x.written => doc[d] \in {x.seen, "deleted"}

\* What the rows say of each other, runs aside.
RowsAgree ==
    \A d \in Document :
        /\ event[d].status # "absent" => doc[d] # "absent"
        /\ event[d].stale => d \in outlived
        /\ d \notin outlived /\ event[d].status \in {"absent", "pending"} =>
              doc[d] \in {"absent", "pending", "deleted"}

\* Two runs hold one event only if a lease of it lapsed.
OneHolder ==
    \A v, w \in Scanner : v # w => scan[v].selected \cap scan[w].selected \subseteq outlived

ScanInv ==
    /\ ScanTypeOK
    /\ \A w \in Scanner : Knows(scan[w])
    /\ RowsAgree
    /\ OneHolder
    /\ ServedWasCleared
    /\ VerdictsAgree

(***************************************************************************)
(* The bookkeeping of a run.                                               *)
(***************************************************************************)
LEMMA NoScanFacts ==
    /\ NoScan \in Scan
    /\ NoScan.todo = {} /\ NoScan.selected = {} /\ NoScan.cur = {} /\ NoScan.old = {}
    /\ NoScan.written = FALSE
  BY DEF NoScan, Scan, Verdict

\* Forgetting what is done with changes nothing of what a run holds.
LEMMA GoingFacts ==
    ASSUME NEW x \in Scan, x.cur \subseteq x.selected, x.cur = {} => ~ x.written
    PROVE  /\ Going(x) \in Scan
           /\ Going(x).todo = x.todo /\ Going(x).selected = x.selected /\ Going(x).cur = x.cur
           /\ Going(x).old \subseteq x.old
           /\ x.cur # {} => /\ Going(x).seen = x.seen /\ Going(x).verdict = x.verdict
           /\ Going(x).written = x.written
  <1>1. CASE x.todo = {} /\ x.selected = {}
    <2>1. Going(x) = NoScan
      BY <1>1 DEF Going
    <2>2. x.written = FALSE
      BY <1>1 DEF Scan
    <2> QED
      BY <1>1, <2>1, <2>2, NoScanFacts
  <1>2. CASE ~ (x.todo = {} /\ x.selected = {})
    <2> DEFINE y == [x EXCEPT !.old = @ \cap x.todo, !.failedToo = @ /\ x.todo # {}]
    <2>1. Going(x) = y
      BY <1>2 DEF Going
    <2>2. (x.failedToo /\ x.todo # {}) \in BOOLEAN
      OBVIOUS
    <2>3. y \in Scan
      BY <2>2 DEF Scan
    <2>4. /\ y.todo = x.todo /\ y.selected = x.selected /\ y.cur = x.cur
          /\ y.old = x.old \cap x.todo
          /\ y.seen = x.seen /\ y.verdict = x.verdict /\ y.written = x.written
      BY DEF Scan
    <2> QED
      BY <2>1, <2>3, <2>4
  <1> QED
    BY <1>1, <1>2

\* A run that knows keeps knowing when it forgets what is done with.
LEMMA GoingKnows ==
    ASSUME NEW x, Knows(x)
    PROVE  Knows(Going(x))
  <1>1. /\ Going(x) \in Scan
        /\ Going(x).todo = x.todo /\ Going(x).selected = x.selected /\ Going(x).cur = x.cur
        /\ Going(x).old \subseteq x.old
        /\ x.cur # {} => Going(x).seen = x.seen /\ Going(x).verdict = x.verdict
        /\ Going(x).written = x.written
    BY GoingFacts DEF Knows
  <1>2. \A d : d \in x.cur => x.cur # {}
    OBVIOUS
  <1> QED
    BY <1>1, <1>2 DEF Knows, Holds

(***************************************************************************)
(* Steps of one kind.                                                      *)
(***************************************************************************)
\* A step that only replaces what run w holds in memory, by no more than it
\* held; a scan may clear a document.
LEMMA MemoryStep ==
    ASSUME ScanInv, NEW w \in Scanner, NEW x, Knows(x)',
           x.selected \subseteq scan[w].selected,
           scan' = [scan EXCEPT ![w] = x],
           cleared \subseteq cleared', cleared' \subseteq Document,
           UNCHANGED <<doc, copied, event, outlived>>
    PROVE  ScanInv'
  <1>1. /\ \A v \in Scanner : scan'[v] = IF v = w THEN x ELSE scan[v]
        /\ x \in Scan
        /\ scan' \in [Scanner -> Scan]
    BY DEF ScanInv, ScanTypeOK, Knows
  <1>2. ScanTypeOK'
    BY <1>1 DEF ScanInv, ScanTypeOK
  <1>3. ASSUME NEW v \in Scanner PROVE Knows(scan[v])'
    <2>1. CASE v = w
      BY <1>1, <2>1
    <2>2. CASE v # w
      <3>1. Knows(scan[v]) /\ scan'[v] = scan[v]
        BY <1>1, <2>2 DEF ScanInv
      <3> QED
        BY <3>1 DEF Knows, Holds
    <2> QED
      BY <2>1, <2>2
  <1>4. RowsAgree' /\ VerdictsAgree' /\ ServedWasCleared'
    BY DEF ScanInv, RowsAgree, VerdictsAgree, ServedWasCleared
  <1>5. OneHolder'
    BY <1>1 DEF ScanInv, OneHolder
  <1> QED
    BY <1>2, <1>3, <1>4, <1>5 DEF ScanInv

\* A step of the pages or of time, that the runs do not see: no row of an event
\* that exists changes its status, no document changes but that is new or
\* deleted.
LEMMA PageStep ==
    ASSUME ScanInv, UNCHANGED <<scan, cleared>>, ScanTypeOK',
           outlived \subseteq outlived',
           \A d \in Document : event[d].status # "absent" => event'[d].status = event[d].status,
           \A d \in Document : doc[d] # "absent" => doc'[d] \in {doc[d], "deleted"}
    PROVE  (\A w \in Scanner : Knows(scan[w]))' /\ OneHolder'
  <1>1. ASSUME NEW w \in Scanner PROVE Knows(scan[w])'
    <2>0. PICK x : x = scan[w]
      OBVIOUS
    <2>1. Knows(x) /\ scan'[w] = x /\ x.selected \subseteq Document /\ x.todo \subseteq Document
      BY <2>0 DEF ScanInv, ScanTypeOK, Scan
    <2>2. \A d \in x.todo \cup x.selected : /\ event'[d].status = event[d].status
                                            /\ doc'[d] \in {doc[d], "deleted"}
      BY <2>1 DEF Knows, ScanInv, RowsAgree
    <2>3. \A d \in x.selected \ outlived : Holds(x, d) => Holds(x, d)'
      BY <2>2 DEF Holds
    <2>4. Knows(x)'
      BY <2>1, <2>2, <2>3 DEF Knows
    <2> QED
      BY <2>1, <2>4
  <1>2. OneHolder'
    BY DEF ScanInv, OneHolder
  <1> QED
    BY <1>1, <1>2

(***************************************************************************)
(* One lemma per action.                                                   *)
(***************************************************************************)
LEMMA ScanInitHolds == ScanInit => ScanInv
  <1> SUFFICES ASSUME ScanInit PROVE ScanInv
    OBVIOUS
  <1>1. ScanTypeOK
    BY NoScanFacts DEF ScanInit, ScanTypeOK, Copy, ScanEvent, Verdict
  <1>2. \A w \in Scanner : scan[w] = NoScan
    BY DEF ScanInit
  <1>3. \A w \in Scanner : Knows(scan[w])
    BY <1>2, NoScanFacts DEF Knows
  <1>4. \A d \in Document : /\ doc[d] = "absent" /\ copied[d] = "absent"
                            /\ event[d].status = "absent" /\ event[d].stale = FALSE
    BY DEF ScanInit
  <1>5. RowsAgree /\ ServedWasCleared /\ VerdictsAgree
    BY <1>4 DEF RowsAgree, ServedWasCleared, VerdictsAgree
  <1>6. OneHolder
    BY <1>2, NoScanFacts DEF OneHolder
  <1> QED
    BY <1>1, <1>3, <1>5, <1>6 DEF ScanInv

LEMMA PagesKeep ==
    ASSUME ScanInv, NEW d \in Document,
           Upload(d) \/ QueueScan(d) \/ Attach(d) \/ DeleteDocument(d) \/ DeleteCopy(d)
    PROVE  ScanInv'
  <1>1. /\ doc \in [Document -> Verdict \cup {"absent", "pending", "deleted"}]
        /\ copied \in [Document -> Copy]
        /\ event \in [Document -> ScanEvent]
        /\ UNCHANGED <<scan, cleared, outlived>>
    BY DEF ScanInv, ScanTypeOK, Upload, QueueScan, Attach, DeleteDocument, DeleteCopy
  <1>2. /\ doc' \in [Document -> Verdict \cup {"absent", "pending", "deleted"}]
        /\ copied' \in [Document -> Copy]
    BY <1>1 DEF Upload, QueueScan, Attach, DeleteDocument, DeleteCopy, Copy
  <1>3. event' \in [Document -> ScanEvent]
    BY <1>1 DEF Upload, QueueScan, Attach, DeleteDocument, DeleteCopy, ScanEvent
  <1>4. ScanTypeOK'
    BY <1>1, <1>2, <1>3 DEF ScanInv, ScanTypeOK
  <1>5. \A o \in Document :
           /\ event[o].status # "absent" => event'[o].status = event[o].status
           /\ event'[o].stale = event[o].stale
           /\ doc[o] # "absent" => doc'[o] \in {doc[o], "deleted"}
           /\ doc[o] = "absent" => doc'[o] \in {"absent", "pending"}
           /\ event[o].status = "absent" => \/ event'[o].status = "absent"
                                            \/ event'[o].status = "pending" /\ doc[o] # "absent"
           /\ copied[o] = "absent" => copied'[o] = "absent" \/ doc[o] = "clean"
           /\ doc[o] = "absent" => event[o].status = "absent"
    BY <1>1 DEF Upload, QueueScan, Attach, DeleteDocument, DeleteCopy, ScanEvent, ScanInv, RowsAgree
  <1>6. RowsAgree'
    BY <1>1, <1>5 DEF ScanInv, RowsAgree
  <1>7. ServedWasCleared'
    BY <1>1, <1>5 DEF ScanInv, ServedWasCleared
  <1>8. VerdictsAgree'
    BY <1>1, <1>5 DEF ScanInv, VerdictsAgree
  <1> QED
    BY <1>1, <1>4, <1>5, <1>6, <1>7, <1>8, PageStep DEF ScanInv

LEMMA ScanLapsesKeeps ==
    ASSUME ScanInv, NEW d \in Document, ScanLapses(d)
    PROVE  ScanInv'
  <1>1. event \in [Document -> ScanEvent] /\ UNCHANGED <<doc, copied, scan, cleared>>
    BY DEF ScanInv, ScanTypeOK, ScanLapses
  <1>2. event' \in [Document -> ScanEvent] /\ outlived' = outlived \cup {d}
    BY <1>1 DEF ScanLapses, ScanEvent
  <1>3. \A o \in Document : /\ event'[o].status = event[o].status
                            /\ o # d => event'[o].stale = event[o].stale
    BY <1>1 DEF ScanLapses, ScanEvent
  <1>4. ScanTypeOK'
    BY <1>1, <1>2 DEF ScanInv, ScanTypeOK
  <1>5. RowsAgree' /\ ServedWasCleared' /\ VerdictsAgree'
    BY <1>1, <1>2, <1>3 DEF ScanInv, RowsAgree, ServedWasCleared, VerdictsAgree
  <1> QED
    BY <1>1, <1>2, <1>3, <1>4, <1>5, PageStep DEF ScanInv

LEMMA StartScanKeeps ==
    ASSUME ScanInv, NEW w \in Scanner, NEW failedToo \in BOOLEAN, StartScan(w, failedToo)
    PROVE  ScanInv'
  <1> DEFINE old == {d \in Document : event[d].stale}
             candidates == {d \in Document : ScanFilter(d, failedToo, old)}
             oldest == {d \in candidates : Cardinality({o \in candidates : o < d}) < ScanLimit}
             y == [NoScan EXCEPT !.todo = oldest, !.old = old, !.failedToo = failedToo]
  <1>1. /\ scan' = [scan EXCEPT ![w] = Going(y)]
        /\ UNCHANGED <<doc, copied, event, cleared, outlived>>
    BY DEF StartScan
  <1>2. oldest \subseteq Document /\ old \subseteq outlived
    BY DEF ScanInv, RowsAgree
  <1>3. \A d \in oldest : event[d].status # "absent"
    BY DEF ScanFilter
  <1> HIDE DEF oldest, old, candidates
  <1>4. /\ y \in Scan
        /\ y.todo = oldest /\ y.old = old /\ y.selected = {} /\ y.cur = {} /\ y.written = FALSE
    <2>1. outlived \subseteq Document
      BY DEF ScanInv, ScanTypeOK
    <2> QED
      BY <1>2, <2>1, NoScanFacts DEF Scan
  <1> HIDE DEF y
  <1>5. Knows(y)
    BY <1>2, <1>3, <1>4 DEF Knows
  <1>6. PICK x : x = Going(y)
    OBVIOUS
  <1>7. Knows(x) /\ x.selected = {}
    BY <1>4, <1>5, <1>6, GoingKnows, GoingFacts
  <1>8. Knows(x)'
    BY <1>1, <1>7 DEF Knows, Holds
  <1> QED
    BY <1>1, <1>6, <1>7, <1>8, MemoryStep DEF ScanInv, ScanTypeOK

LEMMA SkipScanKeeps ==
    ASSUME ScanInv, NEW w \in Scanner, NEW d \in Document, SkipScan(w, d)
    PROVE  ScanInv'
  <1>1. PICK y : y = [scan[w] EXCEPT !.todo = @ \ {d}]
    OBVIOUS
  <1>2. Knows(scan[w]) /\ scan[w] \in Scan
    BY DEF ScanInv, Knows
  <1>3. /\ y \in Scan
        /\ y.todo = scan[w].todo \ {d} /\ y.old = scan[w].old /\ y.selected = scan[w].selected
        /\ y.cur = scan[w].cur /\ y.written = scan[w].written
        /\ y.seen = scan[w].seen /\ y.verdict = scan[w].verdict
    BY <1>1, <1>2 DEF Scan
  <1>4. Knows(y)
    BY <1>2, <1>3 DEF Knows, Holds
  <1>5. PICK x : x = Going(y)
    OBVIOUS
  <1>6. Knows(x) /\ x.selected = scan[w].selected
    BY <1>3, <1>4, <1>5, GoingKnows, GoingFacts DEF Knows
  <1>7. /\ scan' = [scan EXCEPT ![w] = x]
        /\ UNCHANGED <<doc, copied, event, cleared, outlived>>
    BY <1>1, <1>5 DEF SkipScan
  <1>8. Knows(x)'
    BY <1>6, <1>7 DEF Knows, Holds
  <1> QED
    BY <1>6, <1>7, <1>8, MemoryStep DEF ScanInv, ScanTypeOK

LEMMA ScanFileKeeps ==
    ASSUME ScanInv, NEW w \in Scanner, NEW d \in Document, NEW verdict \in Verdict,
           ScanFile(w, d, verdict)
    PROVE  ScanInv'
  <1>1. PICK x : x = [scan[w] EXCEPT !.cur = {d}, !.seen = doc[d], !.verdict = verdict]
    OBVIOUS
  <1>2. /\ Knows(scan[w]) /\ scan[w] \in Scan
        /\ scan[w].todo = {} /\ scan[w].cur = {} /\ d \in scan[w].selected
        /\ scan[w].written = FALSE /\ doc[d] # "deleted"
    BY DEF ScanInv, Knows, Scan, ScanFile, Turn, Earliest
  <1>3. /\ scan' = [scan EXCEPT ![w] = x]
        /\ cleared' = IF verdict = "clean" THEN cleared \cup {d} ELSE cleared
        /\ UNCHANGED <<doc, copied, event, outlived>>
    BY <1>1 DEF ScanFile
  <1>4. doc[d] \in Verdict \cup {"pending"}
    BY <1>2 DEF ScanInv, ScanTypeOK, RowsAgree, Knows
  <1>5. /\ x \in Scan
        /\ x.todo = {} /\ x.old = scan[w].old /\ x.selected = scan[w].selected
        /\ x.cur = {d} /\ x.written = FALSE /\ x.seen = doc[d] /\ x.verdict = verdict
    BY <1>1, <1>2, <1>4 DEF Scan
  <1>6. \A o \in x.selected \ outlived : Holds(x, o)'
    BY <1>2, <1>3, <1>5 DEF Knows, Holds
  <1>7. Knows(x)'
    BY <1>2, <1>3, <1>5, <1>6 DEF Knows
  <1> QED
    BY <1>3, <1>5, <1>7, MemoryStep DEF ScanInv, ScanTypeOK

LEMMA CrashScanKeeps ==
    ASSUME ScanInv, NEW w \in Scanner, scan' = [scan EXCEPT ![w] = NoScan],
           UNCHANGED <<doc, copied, event, cleared, outlived>>
    PROVE  ScanInv'
  <1>1. PICK x : x = NoScan
    OBVIOUS
  <1>2. Knows(x)'
    BY <1>1, NoScanFacts DEF Knows
  <1> QED
    BY <1>1, <1>2, NoScanFacts, MemoryStep DEF ScanInv, ScanTypeOK

\* An event is claimed from nobody, or from a run whose lease lapsed.
LEMMA ClaimScanKeeps ==
    ASSUME ScanInv, NEW w \in Scanner, NEW d \in Document, ClaimScan(w, d)
    PROVE  /\ ScanInv'
           /\ \A v \in Scanner : scan'[v].selected =
                  IF v = w THEN scan[w].selected \cup {d} ELSE scan[v].selected
           /\ \/ event[d].status \in {"pending", "failed"}
              \/ event[d].status = "processing" /\ d \in outlived
           /\ d \notin outlived => \A v \in Scanner : d \notin scan[v].selected
  <1>1. PICK y : y = [scan[w] EXCEPT !.todo = @ \ {d}, !.selected = @ \cup {d}]
    OBVIOUS
  <1>2. /\ \A v \in Scanner : Knows(scan[v]) /\ scan[v] \in Scan
        /\ event \in [Document -> ScanEvent] /\ d \in scan[w].todo
    BY DEF ScanInv, ScanTypeOK, Knows, ClaimScan, Earliest
  <1>3. /\ y \in Scan
        /\ y.todo = scan[w].todo \ {d} /\ y.old = scan[w].old
        /\ y.selected = scan[w].selected \cup {d}
        /\ y.cur = scan[w].cur /\ y.written = scan[w].written
        /\ y.seen = scan[w].seen /\ y.verdict = scan[w].verdict
    BY <1>1, <1>2 DEF Scan
  <1>4. \/ event[d].status \in {"pending", "failed"}
        \/ event[d].status = "processing" /\ d \in outlived
    BY <1>2 DEF ClaimScan, ScanFilter, Knows
  <1>5. d \notin outlived => \A v \in Scanner : d \notin scan[v].selected
    BY <1>2, <1>4 DEF Knows, Holds
  <1>6. /\ event' \in [Document -> ScanEvent]
        /\ event'[d].status = "processing" /\ event'[d].stale = FALSE
        /\ \A o \in Document : o # d => event'[o] = event[o]
        /\ UNCHANGED <<doc, copied, cleared, outlived>>
    BY <1>2 DEF ClaimScan, ScanEvent
  <1>7. PICK x : x = Going(y)
    OBVIOUS
  <1>8. \A v \in Scanner : scan'[v] = IF v = w THEN x ELSE [scan[v] EXCEPT !.old = @ \ {d}]
    BY <1>1, <1>7 DEF ClaimScan
  <1>9. d \notin y.cur
    BY <1>2, <1>3 DEF Knows
  <1>10. Knows(y)'
    <2>1. \A o \in y.selected : o # d => event'[o] = event[o]
      BY <1>3, <1>6 DEF Scan
    <2>2. d \notin outlived => doc[d] \in {"pending", "error", "deleted"}
      <3>1. d \notin outlived => event[d].status \in {"pending", "failed"}
        BY <1>4
      <3> QED
        BY <3>1 DEF ScanInv, RowsAgree, VerdictsAgree
    <2>3. \A o \in y.selected \ outlived : Holds(y, o)'
      BY <1>2, <1>3, <1>5, <1>6, <1>9, <2>1, <2>2 DEF Knows, Holds
    <2>4. \A o \in y.todo \cup y.selected : event'[o].status # "absent"
      BY <1>2, <1>3, <1>6 DEF Knows, Scan
    <2>5. \A o \in y.cur : y.cur = {o} /\ y.todo = {} /\ (y.verdict = "clean" => o \in cleared')
      BY <1>2, <1>3, <1>6 DEF Knows
    <2>6. \A o \in y.cur \ outlived' : ~ y.written => doc'[o] \in {y.seen, "deleted"}
      BY <1>2, <1>3, <1>6 DEF Knows
    <2> QED
      BY <1>2, <1>3, <1>6, <2>3, <2>4, <2>5, <2>6 DEF Knows
  <1>11. /\ x \in Scan /\ x.selected = y.selected
         /\ Knows(x)'
    <2>1. /\ x \in Scan /\ x.selected = y.selected
          /\ x.todo = y.todo /\ x.cur = y.cur /\ x.old \subseteq y.old
          /\ x.cur # {} => x.seen = y.seen /\ x.verdict = y.verdict
          /\ x.written = y.written
      BY <1>3, <1>7, <1>10, GoingFacts DEF Knows
    <2>2. \A o : o \in x.cur => x.cur # {}
      OBVIOUS
    <2> QED
      BY <1>10, <2>1, <2>2 DEF Knows, Holds
  <1>12. ASSUME NEW v \in Scanner, v # w
         PROVE  /\ scan'[v] \in Scan /\ scan'[v].selected = scan[v].selected
                /\ Knows(scan[v])'
    <2>1. PICK z : z = [scan[v] EXCEPT !.old = @ \ {d}]
      OBVIOUS
    <2>2. /\ z \in Scan /\ z.todo = scan[v].todo /\ z.selected = scan[v].selected
          /\ z.cur = scan[v].cur /\ z.old \subseteq scan[v].old /\ z.written = scan[v].written
          /\ z.seen = scan[v].seen /\ z.verdict = scan[v].verdict
      BY <1>2, <2>1 DEF Scan
    <2>3. Knows(scan[v])
      BY <1>2
    <2>4. \A o \in z.todo \cup z.selected : event'[o].status # "absent"
      BY <1>6, <2>2, <2>3 DEF Knows, Scan
    <2>5. \A o \in z.selected \ outlived : Holds(z, o)'
      BY <1>5, <1>6, <2>2, <2>3 DEF Knows, Holds, Scan
    <2>6. Knows(z)'
      BY <1>6, <2>2, <2>3, <2>4, <2>5 DEF Knows
    <2> QED
      BY <1>12, <1>8, <2>1, <2>2, <2>6
  <1>13. ScanTypeOK'
    <2>1. scan' \in [Scanner -> Scan]
      <3>1. DOMAIN scan' = Scanner /\ scan' = [v \in Scanner |-> scan'[v]]
        BY DEF ClaimScan
      <3> QED
        BY <1>8, <1>11, <1>12, <3>1
    <2> QED
      BY <1>6, <2>1 DEF ScanInv, ScanTypeOK
  <1>14. (\A v \in Scanner : Knows(scan[v]))'
    BY <1>8, <1>11, <1>12
  <1>15. \A v \in Scanner : scan'[v].selected =
                  IF v = w THEN scan[w].selected \cup {d} ELSE scan[v].selected
    BY <1>3, <1>8, <1>11, <1>12
  <1>16. OneHolder'
    BY <1>5, <1>6, <1>15 DEF ScanInv, OneHolder
  <1>17. RowsAgree' /\ ServedWasCleared' /\ VerdictsAgree'
    BY <1>4, <1>6 DEF ScanInv, RowsAgree, ServedWasCleared, VerdictsAgree
  <1> QED
    BY <1>4, <1>5, <1>13, <1>14, <1>15, <1>16, <1>17 DEF ScanInv

\* A run w that saves a row of an event it holds, or of its document, surprises
\* no other run that still has its lease.
LEMMA HolderStep ==
    ASSUME ScanInv, NEW w \in Scanner, NEW d \in scan[w].selected,
           NEW x, Knows(x)', x.selected \subseteq scan[w].selected,
           scan' = [scan EXCEPT ![w] = x],
           doc' \in [Document -> Verdict \cup {"absent", "pending", "deleted"}],
           event' \in [Document -> ScanEvent],
           \A o \in Document : o # d => event'[o] = event[o] /\ doc'[o] = doc[o],
           event'[d].status # "absent",
           UNCHANGED <<copied, cleared, outlived>>
    PROVE  ScanTypeOK' /\ (\A v \in Scanner : Knows(scan[v]))' /\ OneHolder'
  <1>1. /\ \A v \in Scanner : scan'[v] = IF v = w THEN x ELSE scan[v]
        /\ x \in Scan
        /\ scan' \in [Scanner -> Scan]
    BY DEF ScanInv, ScanTypeOK, Knows
  <1>2. ScanTypeOK'
    BY <1>1 DEF ScanInv, ScanTypeOK
  <1>3. ASSUME NEW v \in Scanner PROVE Knows(scan[v])'
    <2>1. CASE v = w
      BY <1>1, <2>1
    <2>2. CASE v # w
      <3>1. PICK y : y = scan[v]
        OBVIOUS
      <3>2. /\ Knows(y) /\ scan'[v] = y /\ y \in Scan
            /\ y.selected \cap scan[w].selected \subseteq outlived
        BY <1>1, <2>2, <3>1 DEF ScanInv, Knows, OneHolder
      <3>3. \A o \in y.selected \ outlived : o # d /\ o \in Document
        BY <3>2 DEF Scan
      <3>4. \A o \in y.todo \cup y.selected : event'[o].status # "absent"
        BY <3>2 DEF Knows, Scan
      <3>5. Knows(y)'
        BY <3>2, <3>3, <3>4 DEF Knows, Holds
      <3> QED
        BY <3>2, <3>5
    <2> QED
      BY <2>1, <2>2
  <1>4. OneHolder'
    BY <1>1 DEF ScanInv, OneHolder
  <1> QED
    BY <1>2, <1>3, <1>4

LEMMA WriteVerdictKeeps ==
    ASSUME ScanInv, NEW w \in Scanner, NEW d \in Document, WriteVerdict(w, d)
    PROVE  ScanInv'
  <1>1. CASE doc[d] = "deleted"
    BY <1>1, CrashScanKeeps DEF WriteVerdict
  <1>2. CASE doc[d] # "deleted"
    <2>1. PICK x : x = [scan[w] EXCEPT !.written = TRUE]
      OBVIOUS
    <2>2. /\ Knows(scan[w]) /\ scan[w] \in Scan /\ scan[w].cur = {d} /\ scan[w].written = FALSE
          /\ d \in scan[w].selected
      BY DEF ScanInv, Knows, WriteVerdict, Scan
    <2>3. /\ x \in Scan
          /\ x.todo = scan[w].todo /\ x.old = scan[w].old /\ x.selected = scan[w].selected
          /\ x.cur = {d} /\ x.written = TRUE
          /\ x.seen = scan[w].seen /\ x.verdict = scan[w].verdict
      BY <2>1, <2>2 DEF Scan
    <2>4. /\ scan' = [scan EXCEPT ![w] = x]
          /\ doc' = IF x.verdict = x.seen THEN doc ELSE [doc EXCEPT ![d] = x.verdict]
          /\ UNCHANGED <<copied, event, cleared, outlived>>
      BY <1>2, <2>1, <2>3 DEF WriteVerdict
    <2>5. /\ doc \in [Document -> Verdict \cup {"absent", "pending", "deleted"}]
          /\ event \in [Document -> ScanEvent]
          /\ event[d].status # "absent" /\ doc[d] # "absent"
      BY <2>2 DEF ScanInv, ScanTypeOK, Knows, RowsAgree
    <2>6. /\ doc' \in [Document -> Verdict \cup {"absent", "pending", "deleted"}]
          /\ \A o \in Document : o # d => doc'[o] = doc[o]
          /\ doc'[d] \in {doc[d], x.verdict}
          /\ x.verdict \in Verdict
      BY <2>3, <2>4, <2>5 DEF Scan
    <2>7. d \notin outlived => doc'[d] = x.verdict
      BY <1>2, <2>2, <2>3, <2>4, <2>5 DEF Knows
    <2>8. \A o \in x.selected \ outlived : Holds(x, o)'
      BY <2>2, <2>3, <2>4, <2>6, <2>7 DEF Knows, Holds, Scan
    <2>9. Knows(x)'
      BY <2>2, <2>3, <2>4, <2>8 DEF Knows
    <2>10. ScanTypeOK' /\ (\A v \in Scanner : Knows(scan[v]))' /\ OneHolder'
      BY <2>2, <2>3, <2>4, <2>5, <2>6, <2>9, HolderStep
    <2>11. d \notin outlived => event[d].status = "processing"
      BY <2>2 DEF Knows, Holds
    <2>12. RowsAgree'
      BY <2>4, <2>5, <2>6, <2>11 DEF ScanInv, RowsAgree, Verdict
    <2>13. ServedWasCleared'
      <3>1. x.verdict = "clean" => d \in cleared
        BY <2>2, <2>3 DEF Knows
      <3> QED
        BY <2>4, <2>6, <3>1 DEF ScanInv, ServedWasCleared
    <2>14. VerdictsAgree'
      BY <2>4, <2>6, <2>11 DEF ScanInv, VerdictsAgree
    <2> QED
      BY <2>10, <2>12, <2>13, <2>14 DEF ScanInv
  <1> QED
    BY <1>1, <1>2

\* The end of a run's work on an event, whatever it saves of it.
LEMMA SettleKeeps ==
    ASSUME ScanInv, NEW w \in Scanner, NEW d \in Document, ScanGone(w, d) \/ SaveScan(w, d)
    PROVE  /\ ScanInv'
           /\ d \in scan[w].selected
           /\ \A v \in Scanner : scan'[v].selected =
                  IF v = w THEN scan[w].selected \ {d} ELSE scan[v].selected
           /\ \A o \in Document : event'[o].status =
                  IF o = d THEN event'[d].status ELSE event[o].status
           /\ event'[d].status \in {"failed", "processed"}
           /\ outlived' = outlived
  <1>1. /\ Knows(scan[w]) /\ scan[w] \in Scan /\ d \in scan[w].selected
        /\ \A o \in scan[w].cur : o = d
    BY DEF ScanInv, Knows, ScanGone, SaveScan, Turn, Earliest
  <1>2. PICK y : y = IF scan[w].cur = {}
                     THEN [scan[w] EXCEPT !.selected = @ \ {d}]
                     ELSE [scan[w] EXCEPT !.selected = @ \ scan[w].cur, !.cur = {},
                                          !.seen = "pending", !.verdict = "error", !.written = FALSE]
    OBVIOUS
  <1>3. /\ y \in Scan /\ y.selected = scan[w].selected \ {d}
        /\ y.todo = scan[w].todo /\ y.old = scan[w].old
        /\ y.cur = {} /\ y.written = FALSE
    <2>1. CASE scan[w].cur = {}
      BY <1>1, <1>2, <2>1 DEF Scan, Knows
    <2>2. CASE scan[w].cur # {}
      <3>1. scan[w].cur = {d}
        BY <1>1, <2>2
      <3> QED
        BY <1>1, <1>2, <3>1 DEF Scan, Verdict
    <2> QED
      BY <2>1, <2>2
  <1>4. PICK x : x = Going(y)
    OBVIOUS
  <1>5. /\ x \in Scan /\ x.selected = scan[w].selected \ {d}
        /\ x.todo = scan[w].todo /\ x.old \subseteq scan[w].old
        /\ x.cur = {} /\ x.written = FALSE
    BY <1>3, <1>4, GoingFacts
  <1>6. scan' = [scan EXCEPT ![w] = x] /\ UNCHANGED <<doc, copied, cleared, outlived>>
    <2>1. CASE ScanGone(w, d)
      BY <1>2, <1>4, <2>1 DEF ScanGone, Turn
    <2>2. CASE SaveScan(w, d)
      BY <1>2, <1>4, <2>2 DEF SaveScan, NextOne
    <2> QED
      BY <2>1, <2>2
  <1>7. /\ event \in [Document -> ScanEvent]
        /\ doc \in [Document -> Verdict \cup {"absent", "pending", "deleted"}]
    BY DEF ScanInv, ScanTypeOK
  <1>8. /\ event' \in [Document -> ScanEvent]
        /\ event'[d].status \in {"failed", "processed"} /\ event'[d].stale = FALSE
        /\ \A o \in Document : o # d => event'[o] = event[o]
    <2>1. PICK s \in {"failed", "processed"} :
             event' = [event EXCEPT ![d] = [status |-> s, stale |-> FALSE]]
      BY DEF ScanGone, SaveScan
    <2> QED
      BY <1>7, <2>1 DEF ScanEvent
  <1>9. Knows(x)'
    <2>1. \A o \in x.selected \ outlived : Holds(x, o)'
      BY <1>1, <1>5, <1>6, <1>8 DEF Knows, Holds, Scan
    <2>2. \A o \in x.todo \cup x.selected : event'[o].status # "absent"
      BY <1>1, <1>5, <1>8 DEF Knows, Scan
    <2> QED
      BY <1>1, <1>5, <1>6, <2>1, <2>2 DEF Knows
  <1>10. ScanTypeOK' /\ (\A v \in Scanner : Knows(scan[v]))' /\ OneHolder'
    <2>1. event'[d].status # "absent" /\ doc' = doc
      BY <1>6, <1>8
    <2> QED
      BY <1>1, <1>5, <1>6, <1>7, <1>8, <1>9, <2>1, HolderStep
  <1>11. d \notin outlived =>
            /\ event'[d].status = "failed" => doc[d] \in {"error", "deleted"}
            /\ event'[d].status = "processed" => doc[d] \in {"clean", "infected", "deleted"}
    <2>1. CASE ScanGone(w, d)
      BY <1>7, <2>1 DEF ScanGone, Turn, ScanEvent
    <2>2. CASE SaveScan(w, d)
      <3>1. event'[d].status = IF scan[w].verdict = "error" THEN "failed" ELSE "processed"
        BY <1>7, <2>2 DEF SaveScan
      <3>2. d \notin outlived => doc[d] \in {scan[w].verdict, "deleted"}
        BY <1>1, <2>2 DEF SaveScan, Knows, Holds
      <3>3. scan[w].verdict \in Verdict
        BY <1>1 DEF Scan
      <3> QED
        BY <3>1, <3>2, <3>3 DEF Verdict
    <2> QED
      BY <2>1, <2>2
  <1>12. RowsAgree'
    <2>1. doc[d] # "absent"
      BY <1>1 DEF Knows, ScanInv, RowsAgree
    <2> QED
      BY <1>6, <1>8, <2>1 DEF ScanInv, RowsAgree
  <1>13. ServedWasCleared'
    BY <1>6 DEF ScanInv, ServedWasCleared
  <1>14. VerdictsAgree'
    BY <1>6, <1>8, <1>11 DEF ScanInv, VerdictsAgree
  <1>15. \A v \in Scanner : scan'[v].selected =
                  IF v = w THEN scan[w].selected \ {d} ELSE scan[v].selected
    BY <1>5, <1>6 DEF ScanInv, ScanTypeOK
  <1> QED
    BY <1>1, <1>6, <1>8, <1>10, <1>12, <1>13, <1>14, <1>15 DEF ScanInv

LEMMA ScanStepKeeps == ScanInv /\ [ScanNext]_scanVars => ScanInv'
  <1> SUFFICES ASSUME ScanInv, [ScanNext]_scanVars PROVE ScanInv'
    OBVIOUS
  <1>1. CASE Pages
    BY <1>1, PagesKeep DEF Pages
  <1>2. ASSUME NEW w \in Scanner, AdvanceScan(w) PROVE ScanInv'
    <2>1. PICK d \in Document :
             \/ ClaimScan(w, d) \/ SkipScan(w, d) \/ ScanGone(w, d)
             \/ \E verdict \in Verdict : ScanFile(w, d, verdict)
             \/ WriteVerdict(w, d) \/ SaveScan(w, d)
      BY <1>2 DEF AdvanceScan
    <2>2. CASE ClaimScan(w, d)
      BY <2>2, ClaimScanKeeps
    <2>3. CASE SkipScan(w, d)
      BY <2>3, SkipScanKeeps
    <2>4. CASE ScanGone(w, d) \/ SaveScan(w, d)
      BY <2>4, SettleKeeps
    <2>5. CASE \E verdict \in Verdict : ScanFile(w, d, verdict)
      BY <2>5, ScanFileKeeps
    <2>6. CASE WriteVerdict(w, d)
      BY <2>6, WriteVerdictKeeps
    <2> QED
      BY <2>1, <2>2, <2>3, <2>4, <2>5, <2>6
  <1>3. ASSUME NEW w \in Scanner, CrashScan(w) PROVE ScanInv'
    BY <1>3, CrashScanKeeps DEF CrashScan
  <1>4. ASSUME NEW w \in Scanner, NEW failedToo \in BOOLEAN, StartScan(w, failedToo) PROVE ScanInv'
    BY <1>4, StartScanKeeps
  <1>5. ASSUME NEW d \in Document, ScanLapses(d) PROVE ScanInv'
    BY <1>5, ScanLapsesKeeps
  <1>6. CASE UNCHANGED scanVars
    BY <1>6 DEF scanVars, ScanInv, ScanTypeOK, Knows, Holds, RowsAgree, OneHolder,
                ServedWasCleared, VerdictsAgree
  <1> QED
    BY <1>1, <1>2, <1>3, <1>4, <1>5, <1>6 DEF ScanNext

(***************************************************************************)
(* The runs of the command are workers of a leased queue.                  *)
(***************************************************************************)
LeasedStep == [LQ!Next]_(LQ!vars)

\* What pages write of documents, and what a run reads, looks over, scans or
\* writes of them, is no step of the queue.
LEMMA QueueUntouched ==
    ASSUME UNCHANGED outlived,
           \A d \in Document : event'[d].status = event[d].status,
           \A w \in Scanner : scan'[w].selected = scan[w].selected
    PROVE  LeasedStep
  <1>1. [d \in Document |-> event'[d].status] = [d \in Document |-> event[d].status]
    OBVIOUS
  <1>2. \A d \in Document : {w \in Scanner : d \in scan'[w].selected}
                              = {w \in Scanner : d \in scan[w].selected}
    OBVIOUS
  <1>3. [d \in Document |-> {w \in Scanner : d \in scan'[w].selected}]
            = [d \in Document |-> {w \in Scanner : d \in scan[w].selected}]
    BY <1>2
  <1> QED
    BY <1>1, <1>3 DEF LeasedStep, LQ!vars

LEMMA PagesLeased ==
    ASSUME ScanInv, NEW d \in Document,
           Upload(d) \/ QueueScan(d) \/ Attach(d) \/ DeleteDocument(d) \/ DeleteCopy(d)
    PROVE  LeasedStep
  <1>1. event \in [Document -> ScanEvent] /\ UNCHANGED <<scan, outlived>>
    BY DEF ScanInv, ScanTypeOK, Upload, QueueScan, Attach, DeleteDocument, DeleteCopy
  <1>2. CASE QueueScan(d)
    <2>1. [o \in Document |-> event'[o].status]
            = [[o \in Document |-> event[o].status] EXCEPT ![d] = "pending"]
      BY <1>1, <1>2 DEF QueueScan, ScanEvent
    <2>2. LQ!Add(d)
      BY <1>1, <1>2, <2>1 DEF LQ!Add, QueueScan
    <2> QED
      BY <2>2 DEF LeasedStep, LQ!Next
  <1>3. CASE ~ QueueScan(d)
    <2>1. event' = event
      BY <1>3 DEF Upload, Attach, DeleteDocument, DeleteCopy
    <2> QED
      BY <1>1, <2>1, QueueUntouched
  <1> QED
    BY <1>2, <1>3

LEMMA ClaimScanTakes ==
    ASSUME ScanInv, NEW w \in Scanner, NEW d \in Document, ClaimScan(w, d)
    PROVE  LeasedStep
  <1>1. event \in [Document -> ScanEvent] /\ UNCHANGED outlived
    BY DEF ScanInv, ScanTypeOK, ClaimScan
  <1>2. [o \in Document |-> event'[o].status]
          = [[o \in Document |-> event[o].status] EXCEPT ![d] = "processing"]
    BY <1>1 DEF ClaimScan, ScanEvent
  <1>3. \A o \in Document : {v \in Scanner : o \in scan'[v].selected}
                              = IF o = d THEN {v \in Scanner : d \in scan[v].selected} \cup {w}
                                ELSE {v \in Scanner : o \in scan[v].selected}
    <2>1. \A v \in Scanner : scan'[v].selected =
             IF v = w THEN scan[w].selected \cup {d} ELSE scan[v].selected
      BY ClaimScanKeeps
    <2> QED
      BY <2>1
  <1>4. [o \in Document |-> {v \in Scanner : o \in scan'[v].selected}]
          = [[o \in Document |-> {v \in Scanner : o \in scan[v].selected}] EXCEPT
                ![d] = {v \in Scanner : d \in scan[v].selected} \cup {w}]
    BY <1>3
  <1>5. /\ \/ event[d].status \in {"pending", "failed"}
           \/ event[d].status = "processing" /\ d \in outlived
        /\ d \notin outlived => {v \in Scanner : d \in scan[v].selected} = {}
    BY ClaimScanKeeps
  <1>6. LQ!Take(w, d)
    BY <1>1, <1>2, <1>4, <1>5 DEF LQ!Take
  <1> QED
    BY <1>6 DEF LeasedStep, LQ!Next

LEMMA SettleLeased ==
    ASSUME ScanInv, NEW w \in Scanner, NEW d \in Document, ScanGone(w, d) \/ SaveScan(w, d)
    PROVE  LeasedStep
  <1>1. [o \in Document |-> event'[o].status]
          = [[o \in Document |-> event[o].status] EXCEPT ![d] = event'[d].status]
    BY SettleKeeps
  <1>2. \A o \in Document : {v \in Scanner : o \in scan'[v].selected}
                              = IF o = d THEN {v \in Scanner : d \in scan[v].selected} \ {w}
                                ELSE {v \in Scanner : o \in scan[v].selected}
    <2>1. \A v \in Scanner : scan'[v].selected =
             IF v = w THEN scan[w].selected \ {d} ELSE scan[v].selected
      BY SettleKeeps
    <2> QED
      BY <2>1
  <1>3. [o \in Document |-> {v \in Scanner : o \in scan'[v].selected}]
          = [[o \in Document |-> {v \in Scanner : o \in scan[v].selected}] EXCEPT
                ![d] = {v \in Scanner : d \in scan[v].selected} \ {w}]
    BY <1>2
  <1>4. /\ event'[d].status \in {"pending", "processed", "failed"}
        /\ w \in {v \in Scanner : d \in scan[v].selected} /\ UNCHANGED outlived
    BY SettleKeeps
  <1>5. LQ!Settle(w, d)
    BY <1>1, <1>3, <1>4 DEF LQ!Settle
  <1> QED
    BY <1>5 DEF LeasedStep, LQ!Next

LEMMA CrashScanDrops ==
    ASSUME ScanInv, NEW w \in Scanner, scan' = [scan EXCEPT ![w] = NoScan],
           UNCHANGED <<event, outlived>>
    PROVE  LeasedStep
  <1>1. \A v \in Scanner : scan'[v].selected = IF v = w THEN {} ELSE scan[v].selected
    BY NoScanFacts DEF ScanInv, ScanTypeOK
  <1>2. \A o \in Document : {v \in Scanner : o \in scan'[v].selected}
                              = {v \in Scanner : o \in scan[v].selected} \ {w}
    BY <1>1
  <1>3. LQ!Drop(w)
    BY <1>2 DEF LQ!Drop
  <1> QED
    BY <1>3 DEF LeasedStep, LQ!Next

LEMMA ScanLapsesLeased ==
    ASSUME ScanInv, NEW d \in Document, ScanLapses(d)
    PROVE  LeasedStep
  <1>1. \A o \in Document : event'[o].status = event[o].status
    BY DEF ScanInv, ScanTypeOK, ScanLapses, ScanEvent
  <1>2. LQ!Lapse(d)
    BY <1>1 DEF LQ!Lapse, ScanLapses
  <1> QED
    BY <1>2 DEF LeasedStep, LQ!Next

LEMMA ScanStepLeased == ScanInv /\ [ScanNext]_scanVars => LeasedStep
  <1> SUFFICES ASSUME ScanInv, [ScanNext]_scanVars PROVE LeasedStep
    OBVIOUS
  <1>1. \A w \in Scanner : Knows(scan[w]) /\ scan[w] \in Scan
    BY DEF ScanInv, Knows
  <1>2. ASSUME NEW w \in Scanner, NEW x, x.selected = scan[w].selected,
               scan' = [scan EXCEPT ![w] = x], UNCHANGED <<event, outlived>>
        PROVE  LeasedStep
    <2>1. \A v \in Scanner : scan'[v].selected = scan[v].selected
      BY <1>2 DEF ScanInv, ScanTypeOK
    <2> QED
      BY <1>2, <2>1, QueueUntouched
  <1>3. ASSUME NEW w \in Scanner, NEW d \in Document, SkipScan(w, d) PROVE LeasedStep
    <2> DEFINE y == [scan[w] EXCEPT !.todo = @ \ {d}]
    <2>1. /\ y \in Scan /\ y.selected = scan[w].selected /\ y.cur = scan[w].cur
          /\ y.written = scan[w].written
      BY <1>1 DEF Scan
    <2>2. scan' = [scan EXCEPT ![w] = Going(y)] /\ UNCHANGED <<event, outlived>>
      BY <1>3 DEF SkipScan
    <2> HIDE DEF y
    <2>3. Going(y).selected = scan[w].selected
      BY <1>1, <2>1, GoingFacts DEF Knows
    <2> QED
      BY <1>2, <2>2, <2>3
  <1>4. ASSUME NEW w \in Scanner, NEW d \in Document, NEW verdict \in Verdict,
               ScanFile(w, d, verdict)
        PROVE  LeasedStep
    <2>1. [scan[w] EXCEPT !.cur = {d}, !.seen = doc[d], !.verdict = verdict].selected
            = scan[w].selected
      BY <1>1 DEF Scan
    <2> QED
      BY <1>2, <1>4, <2>1 DEF ScanFile
  <1>5. ASSUME NEW w \in Scanner, NEW d \in Document, WriteVerdict(w, d) PROVE LeasedStep
    <2>1. CASE doc[d] = "deleted"
      BY <1>5, <2>1, CrashScanDrops DEF WriteVerdict
    <2>2. CASE doc[d] # "deleted"
      <3>1. [scan[w] EXCEPT !.written = TRUE].selected = scan[w].selected
        BY <1>1 DEF Scan
      <3> QED
        BY <1>2, <1>5, <2>2, <3>1 DEF WriteVerdict
    <2> QED
      BY <2>1, <2>2
  <1>6. ASSUME NEW w \in Scanner, NEW failedToo \in BOOLEAN, StartScan(w, failedToo)
        PROVE  LeasedStep
    <2> DEFINE old == {d \in Document : event[d].stale}
               candidates == {d \in Document : ScanFilter(d, failedToo, old)}
               oldest == {d \in candidates : Cardinality({o \in candidates : o < d}) < ScanLimit}
               y == [NoScan EXCEPT !.todo = oldest, !.old = old, !.failedToo = failedToo]
    <2>1. /\ scan' = [scan EXCEPT ![w] = Going(y)] /\ scan[w] = NoScan
          /\ UNCHANGED <<event, outlived>>
      BY <1>6 DEF StartScan
    <2>2. oldest \subseteq Document /\ old \subseteq Document
      OBVIOUS
    <2> HIDE DEF oldest, old, candidates
    <2>3. y \in Scan /\ y.selected = {} /\ y.cur = {} /\ y.written = FALSE
      BY <2>2, NoScanFacts DEF Scan
    <2> HIDE DEF y
    <2>4. Going(y).selected = scan[w].selected
      BY <2>1, <2>3, GoingFacts, NoScanFacts
    <2> QED
      BY <1>2, <2>1, <2>4
  <1>7. CASE UNCHANGED scanVars
    BY <1>7, QueueUntouched DEF scanVars
  <1> QED
    BY <1>3, <1>4, <1>5, <1>6, <1>7, PagesLeased, ClaimScanTakes, SettleLeased, CrashScanDrops,
       ScanLapsesLeased
    DEF ScanNext, Pages, AdvanceScan, CrashScan

(***************************************************************************)
(* The theorems.                                                           *)
(***************************************************************************)
\* The inductive invariant: what each run remembers of its documents is so,
\* unless a lease of theirs lapsed.
THEOREM ScansRemember == ScanSpec => []ScanInv
  BY ScanInitHolds, ScanStepKeeps, PTL DEF ScanSpec

\* The rows and the runs hold what their fields may hold.
THEOREM ScanTypeCorrect == ScanSpec => []ScanTypeOK
  <1>1. ScanInv => ScanTypeOK
    BY DEF ScanInv
  <1> QED
    BY <1>1, ScansRemember, PTL

\* No document, and no copy of one, is served that no scan found clean.
THEOREM OnlyClearedServed == ScanSpec => []ServedWasCleared
  <1>1. ScanInv => ServedWasCleared
    BY DEF ScanInv
  <1> QED
    BY <1>1, ScansRemember, PTL

\* An event at rest and its document say the same, unless a lease lapsed: the
\* two rows are committed one after the other by one run that holds both.
THEOREM VerdictsStayAgreed == ScanSpec => []VerdictsAgree
  <1>1. ScanInv => VerdictsAgree
    BY DEF ScanInv
  <1> QED
    BY <1>1, ScansRemember, PTL

\* An infected document is given back only where a lease lapsed: a run that
\* holds an event alone has not found its document infected before.
THEOREM InfectedStays == ScanSpec => InfectedStaysBlocked
  <1> DEFINE Blocked == \A d \in Document :
                           doc[d] = "infected" /\ doc'[d] = "clean" => d \in outlived
  <1>1. ScanInv /\ [ScanNext]_scanVars => [Blocked]_scanVars
    <2> SUFFICES ASSUME ScanInv, ScanNext, NEW o \in Document,
                        doc[o] = "infected", doc'[o] = "clean"
                 PROVE  o \in outlived
      BY DEF Blocked
    <2>1. doc \in [Document -> Verdict \cup {"absent", "pending", "deleted"}]
      BY DEF ScanInv, ScanTypeOK
    <2>2. ASSUME NEW d \in Document,
                 Upload(d) \/ QueueScan(d) \/ Attach(d) \/ DeleteDocument(d) \/ DeleteCopy(d)
                 \/ ScanLapses(d)
          PROVE  FALSE
      BY <2>1, <2>2 DEF Upload, QueueScan, Attach, DeleteDocument, DeleteCopy, ScanLapses
    <2>3. ASSUME NEW w \in Scanner, NEW d \in Document, WriteVerdict(w, d) PROVE o \in outlived
      <3>1. scan[w].cur = {d} /\ ~ scan[w].written /\ doc'[d] \in {doc[d], scan[w].verdict} /\ d = o
        BY <2>1, <2>3 DEF WriteVerdict
      <3>2. Knows(scan[w]) /\ d \in scan[w].selected
        BY <3>1 DEF ScanInv, Knows
      <3> QED
        BY <3>1, <3>2 DEF Knows, Holds
    <2>4. ASSUME doc' = doc PROVE FALSE
      BY <2>4
    <2>5. CASE Pages \/ \E d \in Document : ScanLapses(d)
      BY <2>2, <2>5 DEF Pages
    <2>6. ASSUME NEW w \in Scanner, AdvanceScan(w) PROVE o \in outlived
      <3>1. PICK d \in Document :
               \/ ClaimScan(w, d) \/ SkipScan(w, d) \/ ScanGone(w, d)
               \/ \E verdict \in Verdict : ScanFile(w, d, verdict)
               \/ WriteVerdict(w, d) \/ SaveScan(w, d)
        BY <2>6 DEF AdvanceScan
      <3>2. WriteVerdict(w, d) \/ doc' = doc
        BY <3>1 DEF ClaimScan, SkipScan, ScanGone, ScanFile, SaveScan
      <3> QED
        BY <2>3, <2>4, <3>2
    <2>7. ASSUME NEW w \in Scanner, CrashScan(w) \/ \E failedToo \in BOOLEAN : StartScan(w, failedToo)
          PROVE  FALSE
      BY <2>4, <2>7 DEF CrashScan, StartScan
    <2> QED
      BY <2>5, <2>6, <2>7 DEF ScanNext
  <1> QED
    BY <1>1, ScansRemember, PTL DEF ScanSpec, InfectedStaysBlocked

\* The scan queue implements the leased queue: an event is taken over only once
\* its lease has lapsed, and settled only by a run that holds it.
THEOREM ScanQueueIsLeased == ScanSpec => ScansAreLeased
  <1>1. ScanInit => LQ!Init
    <2> SUFFICES ASSUME ScanInit PROVE LQ!Init
      OBVIOUS
    <2>1. \A w \in Scanner : scan[w].selected = {}
      BY NoScanFacts DEF ScanInit
    <2> QED
      BY <2>1 DEF ScanInit, LQ!Init
  <1> QED
    BY <1>1, ScanStepLeased, ScansRemember, PTL DEF ScanSpec, ScansAreLeased, LQ!Spec, LeasedStep
=============================================================================
