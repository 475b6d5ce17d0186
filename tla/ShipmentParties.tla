-------------------------- MODULE ShipmentParties --------------------------
(* Who may send what to whom at one stopover: the receiving structures, the  *)
(* persons who answer for them, the shippers' links to them and the persons  *)
(* each link authorizes, one of them by default. The portal, the contact     *)
(* form, the cockpit, the two merges and the hooks that run after a commit   *)
(* all write these rows. Every operation is one transaction, taken alone,    *)
(* and a save that full_clean refuses undoes the whole of it: such an        *)
(* operation is not a step. Rows are only ever written active, so a row that *)
(* exists is active, except for structures and contacts, which are switched  *)
(* off and on.                                                               *)
EXTENDS Naturals, FiniteSets, FiniteSetsExt

CONSTANTS
    Sender,     \* organizations with a ShipmentShipper, active while they have it
    DefaultSender,  \* the shipper that is linked to every receiver
    Receiver,   \* organizations that may be receiving structures
    Person,     \* contacts of type person
    NoHome      \* the organization of a person who has no record yet

ASSUME PartiesAssumption ==
    /\ IsFiniteSet(Sender) /\ DefaultSender \in Sender
    /\ IsFiniteSet(Receiver)
    /\ NoHome \notin Receiver

VARIABLE book   \* the registry
partyVars == <<book>>

\* A contact's is_active, and its ShipmentRecipientOrganization if it has one.
Structure == [alive : BOOLEAN, row : BOOLEAN, on : BOOLEAN, valid : BOOLEAN, corr : BOOLEAN]
NoRow(alive) == [alive |-> alive, row |-> FALSE, on |-> FALSE, valid |-> FALSE, corr |-> FALSE]

\* An authorization joins a link (from, to) and the seat of a person at a structure.
Authorization == [from : Sender, to : Receiver, at : Receiver, who : Person]
OnLink(S, s, o) == {a \in S : a.from = s /\ a.to = o}
OtherCorrespondent(org, o) == \E x \in Receiver \ {o} : org[x].on /\ org[x].corr

PartiesInit ==
    book = [sends |-> Sender,
            org |-> [o \in Receiver |-> NoRow(TRUE)],
            home |-> [p \in Person |-> NoHome],
            living |-> {},
            strayed |-> {},     \* persons moved away from a structure they answered for
            seat |-> {},        \* ShipmentRecipientContact rows: <<structure, person>>
            link |-> {},        \* ShipmentShipperRecipientLink rows: <<shipper, structure>>
            auth |-> {},        \* ShipmentAuthorizedRecipientContact rows
            first |-> {}]       \* those with is_default

----------------------------------------------------------------------------
(* What the operations are made of.                                          *)

\* A structure's row may be saved: its contact is active and at most one row of
\* the stopover is an active correspondent.
RowSaves(org, o) == org[o].alive /\ ~(org[o].on /\ org[o].corr /\ OtherCorrespondent(org, o))

\* Mutant: the other defaults of the link are left.
AuthorizeBesideDefault(b, s, o, p, asDefault) ==
    LET a == [from |-> s, to |-> o, at |-> o, who |-> p]
    IN [b EXCEPT !.link = @ \cup {<<s, o>>},
                 !.auth = @ \cup {a},
                 !.first = IF asDefault THEN @ \cup {a} ELSE @]

\* A person is authorized on a link, which is there by then; the default is the one
\* asked for, the one that was, or the only one.
Authorize(b, s, o, p, asDefault) ==
    LET a == [from |-> s, to |-> o, at |-> o, who |-> p]
        becomesFirst == asDefault \/ a \in b.first \/ OnLink(b.first, s, o) = {}
    IN [b EXCEPT !.link = @ \cup {<<s, o>>},
                 !.auth = @ \cup {a},
                 !.first = IF becomesFirst THEN (@ \ OnLink(@, s, o)) \cup {a} ELSE @]

\* What the saved structures' hooks do once the transaction is committed: the
\* default shipper is linked to those that are active and validated, and one
\* active person of each is authorized (the first, which pick stands for).
Answering(b, o) == {p \in Person : <<o, p>> \in b.seat /\ p \in b.living}
Bound(b, o) == b.org[o].alive /\ b.org[o].on /\ b.org[o].valid
BindDefaultSender(b, o, p) ==
    LET s == DefaultSender
        linked == [b EXCEPT !.link = @ \cup {<<s, o>>}]
    IN IF Answering(b, o) = {} THEN linked
       ELSE Authorize(linked, s, o, p, OnLink(b.first, s, o) = {})
Hooked(b, saved) == {o \in saved : Bound(b, o) /\ DefaultSender \in b.sends}
Hooks(b, bound, pick) ==
    LET bind(o, acc) == BindDefaultSender(acc, o, pick[o]) IN FoldSet(bind, b, bound)

\* A transaction commits, and its hooks run unless the worker dies first.
Commit(b, saved) ==
    \E bound \in {Hooked(b, saved), {}} :
        \E pick \in [{o \in bound : Answering(b, o) # {}} -> Person] :
            /\ \A o \in DOMAIN pick : pick[o] \in Answering(b, o)
            /\ book' = Hooks(b, bound, pick)

----------------------------------------------------------------------------
(* The portal, the contact form and the cockpit.                             *)

\* A person, found among the structure's members or new to it, answers for it.
Seat(b, o, p) == [b EXCEPT !.home[p] = o, !.living = @ \cup {p}, !.seat = @ \cup {<<o, p>>}]

\* The structure a recipient of the portal stands for: one that is not in the
\* registry waits for validation, one that was switched off comes back.
Entered(org, o) == [org EXCEPT ![o] = [@ EXCEPT !.alive = TRUE, !.row = TRUE, !.on = TRUE]]

\* An association saves a recipient, or orders for it.
PortalSync(s, o, p, asDefault) ==
    LET known == book.org[o].row /\ book.org[o].on
        org == Entered(book.org, o)
        entered == Seat([book EXCEPT !.org = org], o, p)
    IN /\ s \in book.sends
       /\ book.home[p] \in {NoHome, o}
       /\ known \/ RowSaves(org, o)
       /\ Commit(Authorize(entered, s, o, p, asDefault), IF known THEN {} ELSE {o})

\* A person is authorized on the links of several shippers, as the default of each.
Granted(b, o, p, allowed) ==
    LET grant(s, acc) == Authorize(acc, s, o, p, TRUE)
    IN FoldSet(grant, b, allowed)

\* A person's contact is given another structure; the seats held elsewhere stay,
\* with their authorizations.
Rehomed(b, p, o) ==
    LET left == {x \in b.seat : x[2] = p /\ x[1] # o}
    IN [b EXCEPT !.home[p] = o, !.strayed = IF left = {} THEN @ ELSE @ \cup {p}]

\* The contact form makes a structure when what it replaces is a person: a contact
\* that nobody belongs to, without a row.
NewStructure(o) == book.org[o] = NoRow(TRUE) /\ \A q \in Person : book.home[q] # o

\* The contact form, for a recipient and the shippers allowed to send to it, or
\* for a correspondent, whose predecessor is only demoted after the row is saved:
\* while that one is active the form is refused. So is a form left inactive. The
\* person is new, or a member, or one that the form replaces and moves.
FormRecipient(o, p, corr, allowed) ==
    LET org == [book.org EXCEPT ![o] = [alive |-> TRUE, row |-> TRUE, on |-> TRUE,
                                        valid |-> TRUE, corr |-> corr]]
        demoted == [x \in Receiver |-> [org[x] EXCEPT !.corr = @ /\ (x = o \/ ~corr)]]
    IN /\ book.home[p] \in {NoHome, o} \/ NewStructure(o)
       /\ allowed \subseteq book.sends
       /\ corr => allowed = {}
       /\ RowSaves(org, o)
       /\ Commit(Granted(Seat([Rehomed(book, p, o) EXCEPT !.org = demoted], o, p),
                         o, p, allowed),
                 IF corr THEN Receiver ELSE {o})

\* The contact form, for a person who is not there to receive (a volunteer): a new
\* one, or one that it replaces and moves to the structure of the name given.
FormPerson(p, o, active) ==
    book' = [Rehomed(book, p, o) EXCEPT !.living = IF active THEN @ \cup {p} ELSE @ \ {p}]

DeactivateStructure(o) ==
    /\ book.org[o].alive
    /\ book' = [book EXCEPT !.org[o].alive = FALSE]

DeactivatePerson(p) ==
    /\ p \in book.living
    /\ book' = [book EXCEPT !.living = @ \ {p}]

SetDefault(a) ==
    /\ a \in book.auth
    /\ a.at = a.to
    /\ book' = [book EXCEPT !.first = (@ \ OnLink(@, a.from, a.to)) \cup {a}]

SetCorrespondent(o) ==
    /\ book.org[o].on
    /\ book.org[o].corr \/ book.org[o].alive
    /\ Commit([book EXCEPT !.org = [x \in Receiver |-> [@[x] EXCEPT !.corr = x = o]]],
              Receiver)

\* A stopover is saved with a correspondent contact, a person or an organization:
\* if no structure is its correspondent, the contact's organization becomes it.
NameCorrespondent(x) ==
    LET isPerson == x \in Person
        o == IF isPerson THEN book.home[x] ELSE x
        promotes == /\ \A y \in Receiver : ~book.org[y].corr
                    /\ IF isPerson THEN x \in book.living ELSE book.org[x].alive
        org == [book.org EXCEPT ![o] = [alive |-> TRUE, row |-> TRUE, on |-> TRUE,
                                        valid |-> TRUE, corr |-> TRUE]]
    IN /\ o # NoHome
       /\ IF promotes THEN Commit([book EXCEPT !.org = org], Receiver)
                      ELSE Commit(book, Receiver)

----------------------------------------------------------------------------
(* The merges.                                                               *)

\* The rows of one structure become those of another.
Reseated(seat, o, t) == {IF x[1] = o THEN <<t, x[2]>> ELSE x : x \in seat}
Rehung(link, o, t) == {IF l[2] = o THEN <<l[1], t>> ELSE l : l \in link}
Moved(a, o, t) == [a EXCEPT !.to = IF @ = o THEN t ELSE @, !.at = IF @ = o THEN t ELSE @]
MovedAll(S, o, t) == {Moved(a, o, t) : a \in S}

\* The cockpit's merge. A default is kept only if its link is joined to one of
\* the target's that has none: a link that moved counts its own as the target's.
KeptDefaults(o, t) ==
    {a \in book.first : a.to = o => /\ <<a.from, t>> \in book.link
                                    /\ OnLink(book.first, a.from, t) = {}}
\* Mutant: the links of the source that the target has too are deleted with
\* their authorizations before these are moved.
CockpitMergeCascades(o, t) ==
    LET joined(a) == a.to = o /\ <<a.from, t>> \in book.link
    IN /\ o # t /\ book.org[o].row /\ book.org[o].alive /\ book.org[t].on
       /\ book' = [book EXCEPT
              !.org[o].alive = FALSE, !.org[o].on = FALSE, !.org[o].corr = FALSE,
              !.home = [p \in Person |-> IF <<o, p>> \in book.seat THEN t ELSE @[p]],
              !.seat = Reseated(@, o, t),
              !.link = Rehung(@, o, t),
              !.auth = MovedAll({a \in @ : ~joined(a)}, o, t),
              !.first = MovedAll({a \in KeptDefaults(o, t) : ~joined(a)}, o, t)]
CockpitMerge(o, t) ==
    LET moves == \E x \in book.seat \cup book.link :
                     x \in {<<o, p>> : p \in Person} \cup {<<s, o>> : s \in Sender}
        promoted == book.org[o].corr /\ ~book.org[t].corr
        org == [x \in Receiver |->
                   [book.org[x] EXCEPT
                        !.alive = @ /\ x # o,
                        !.on = @ /\ x # o,
                        !.corr = IF promoted THEN x = t ELSE @ /\ x # o]]
        home == [p \in Person |-> IF <<o, p>> \in book.seat THEN t ELSE book.home[p]]
    IN /\ o # t /\ book.org[o].row /\ book.org[t].row
       /\ book.org[o].alive
       /\ moves => book.org[t].on
       /\ promoted => book.org[t].alive
       /\ \A p \in Person : <<o, p>> \in book.seat => p \in book.living \/ <<t, p>> \in book.seat
       /\ Commit([book EXCEPT !.org = org,
                              !.home = home,
                              !.seat = Reseated(@, o, t),
                              !.link = Rehung(@, o, t),
                              !.auth = MovedAll(@, o, t),
                              !.first = MovedAll(KeptDefaults(o, t), o, t)],
                 IF promoted THEN {t} ELSE {})
\* The contacts' merge, of two organizations: members first, then the rows.
MergedMembers(o, t) == [p \in Person |-> IF book.home[p] = o THEN t ELSE book.home[p]]
MergedAlive(o, t) == book.org[o].alive \/ book.org[t].alive

\* The source has no row, or gives its row to a target that has none.
MergeIntoContact(o, t) ==
    LET alive == MergedAlive(o, t)
        org == [book.org EXCEPT ![o] = NoRow(FALSE),
                                ![t] = IF book.org[o].row
                                       THEN [book.org[o] EXCEPT !.alive = alive]
                                       ELSE [@ EXCEPT !.alive = alive]]
        merged == [book EXCEPT !.org = org, !.home = MergedMembers(o, t)]
    IN /\ o # t
       /\ ~(book.org[o].row /\ book.org[t].row)
       /\ IF book.org[o].row
          THEN /\ RowSaves(org, t)
               /\ Commit([merged EXCEPT !.seat = Reseated(@, o, t),
                                        !.link = Rehung(@, o, t),
                                        !.auth = MovedAll(@, o, t),
                                        !.first = MovedAll(@, o, t)], {t})
          ELSE book' = merged

\* Both have a row. What moves is saved one by one and checked each time: a link
\* that both have is joined only if no default meets another, and an active
\* correspondent is never merged away, its flag being copied while it holds it.
MergeRows(o, t) ==
    LET from == book.org[o]
        to == book.org[t]
        row == [alive |-> MergedAlive(o, t), row |-> TRUE, on |-> from.on \/ to.on,
                valid |-> from.valid \/ to.valid, corr |-> from.corr \/ to.corr]
        saved == row # [to EXCEPT !.alive = row.alive]
        moving == {p \in Person : <<o, p>> \in book.seat}
        linked == {s \in Sender : <<s, o>> \in book.link}
    IN /\ o # t /\ from.row /\ to.row
       /\ saved => RowSaves([book.org EXCEPT ![t] = row], t)
       /\ \A p \in moving :
              IF <<t, p>> \in book.seat THEN \A a \in book.auth : ~(a.at = o /\ a.who = p)
              ELSE row.on /\ p \in book.living /\ MergedMembers(o, t)[p] = t
       /\ \A s \in linked :
              IF <<s, t>> \in book.link
              THEN OnLink(book.first, s, o) = {} \/ OnLink(book.first, s, t) = {}
              ELSE row.on
       /\ Commit([book EXCEPT !.org = [@ EXCEPT ![o] = NoRow(FALSE), ![t] = row],
                              !.home = MergedMembers(o, t),
                              !.seat = Reseated(@, o, t),
                              !.link = Rehung(@, o, t),
                              !.auth = MovedAll(@, o, t),
                              !.first = MovedAll(@, o, t)],
                 IF saved THEN {t} ELSE {})
\* Of two persons of one structure: the second takes the first's seats, and of
\* two authorizations on one link the target keeps one, the default if either is.
MergePersons(p, q) ==
    LET renamed(a) == IF a.who = p THEN [a EXCEPT !.who = q] ELSE a
        living == (book.living \ {p}) \cup (IF p \in book.living THEN {q} ELSE {})
    IN /\ p # q
       /\ book.home[p] # NoHome /\ book.home[p] = book.home[q]
       /\ \A o \in Receiver : <<o, p>> \in book.seat /\ <<o, q>> \notin book.seat =>
              q \in living /\ book.org[o].on /\ book.home[q] = o
       /\ book' = [book EXCEPT
              !.living = living,
              !.seat = {IF x[2] = p THEN <<x[1], q>> ELSE x : x \in @},
              !.auth = {renamed(a) : a \in @},
              !.first = {renamed(a) : a \in @}]

\* Of two shippers: the links follow, and a link that both have is joined. A
\* default that must be written on a link with another default is refused.
MergeShippers(s, t) ==
    LET handed(a) == IF a.from = s THEN [a EXCEPT !.from = t] ELSE a
        theirs(S, o) == {handed(a) : a \in OnLink(S, s, o)}
        beaten(a) == a.from = t /\ theirs(book.first, a.to) # {}
    IN /\ s # t /\ {s, t} \subseteq book.sends
       /\ \A o \in Receiver : <<s, o>> \in book.link =>
              IF <<t, o>> \in book.link
              THEN OnLink(book.first, t, o) = {} \/ theirs(book.first, o) \subseteq book.auth
              ELSE book.org[o].on
       /\ book' = [book EXCEPT
              !.sends = @ \ {s},
              !.link = {IF l[1] = s THEN <<t, l[2]>> ELSE l : l \in @},
              !.auth = {handed(a) : a \in @},
              !.first = {handed(a) : a \in {x \in @ : ~beaten(x)}}]

PartiesNext ==
    \/ \E o \in Receiver, p \in Person :
           \/ \E s \in Sender, asDefault \in BOOLEAN : PortalSync(s, o, p, asDefault)
           \/ \E active \in BOOLEAN : FormPerson(p, o, active)
           \/ \E corr \in BOOLEAN, allowed \in SUBSET Sender : FormRecipient(o, p, corr, allowed)
    \/ \E o \in Receiver : DeactivateStructure(o) \/ SetCorrespondent(o)
    \/ \E p \in Person : DeactivatePerson(p)
    \/ \E a \in book.auth : SetDefault(a)
    \/ \E x \in Receiver \cup Person : NameCorrespondent(x)
    \/ \E o, t \in Receiver : CockpitMerge(o, t) \/ MergeIntoContact(o, t) \/ MergeRows(o, t)
    \/ \E p, q \in Person : MergePersons(p, q)
    \/ \E s, t \in Sender : MergeShippers(s, t)

PartiesSpec == PartiesInit /\ [][PartiesNext]_partyVars

----------------------------------------------------------------------------
(* Properties.                                                               *)

PartiesTypeOK ==
    /\ book.sends \subseteq Sender
    /\ book.org \in [Receiver -> Structure]
    /\ book.home \in [Person -> Receiver \cup {NoHome}]
    /\ book.living \subseteq Person
    /\ book.strayed \subseteq Person
    /\ book.seat \subseteq Receiver \X Person
    /\ book.link \subseteq Sender \X Receiver
    /\ book.auth \subseteq Authorization
    /\ book.first \subseteq book.auth

\* Whatever the portal, the form and the merges did, and in whatever order: an
\* authorization joins a link to a seat at the link's own structure, a link has at
\* most one default and a stopover one correspondent, and nothing hangs on a
\* structure that was merged away unless an operation brought it back. A person
\* answers only for the structure they belong to, as the seats' validation asks,
\* but for those whom the contact form moved: what makes that false is the form
\* alone, whatever the merges do with its persons and their seats afterwards.
PartiesCoherent ==
    /\ \A a \in book.auth :
           /\ a.at = a.to /\ a.from \in book.sends
           /\ <<a.from, a.to>> \in book.link
           /\ <<a.at, a.who>> \in book.seat
    /\ \A x \in book.seat : x[2] \notin book.strayed => book.home[x[2]] = x[1]
    /\ \A s \in Sender, o \in Receiver : Cardinality(OnLink(book.first, s, o)) <= 1
    /\ Cardinality({o \in Receiver : book.org[o].on /\ book.org[o].corr}) <= 1
    /\ \A o \in Receiver : ~book.org[o].on =>
           /\ \A x \in book.seat : x[1] # o
           /\ \A l \in book.link : l[2] # o

\* No merge of structures loses an authorization: who was authorized on a link to
\* the source or the target is authorized on that shipper's link to the target
\* afterwards. Nor a default, except that the cockpit's merge takes it from every
\* link that it moves: the shipper is left with authorized persons and no default
\* (the default shipper may get another from the hooks). A source ends switched off,
\* which tells the steps that may be a merge of it.
AuthorizationsKept(o, t) == MovedAll(book.auth, o, t) \subseteq book'.auth
DefaultKept(s, o, t) ==
    OnLink(book.first, s, o) \cup OnLink(book.first, s, t) # {}
        => OnLink(book'.first, s, t) # {}
MergesKeepAuthorizations ==
    [][\A o, t \in Receiver :
           LET contacts == MergeIntoContact(o, t) \/ MergeRows(o, t)
               cockpit == CockpitMerge(o, t)
           IN ~book'.org[o].alive =>
              /\ ~AuthorizationsKept(o, t) => ~contacts /\ ~cockpit
              /\ \A s \in Sender :
                     /\ ~DefaultKept(s, o, t) =>
                            ~contacts /\ (<<s, t>> \in book.link => ~cockpit)
                     /\ <<s, t>> \notin book.link /\ s # DefaultSender
                            /\ OnLink(book'.first, s, t) # {} => ~cockpit]_partyVars
=============================================================================
