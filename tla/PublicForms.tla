----------------------------- MODULE PublicForms -----------------------------
(***************************************************************************)
(* The two forms that are open to the public, for an order                 *)
(* (views_public_order.py) and for an account                              *)
(* (account_request_handlers.py), with the slots that slow their senders   *)
(* down: one per email and one per network address, kept for a while in a  *)
(* cache that every server process has for itself. The orders are those of *)
(* one link; the pending request that is looked for by the name it asks    *)
(* for, beside its email, is left out.                                     *)
(***************************************************************************)
EXTENDS Naturals

CONSTANTS
    Visit,      \* the forms that are sent
    Sender,     \* the emails they give
    Address,    \* the network addresses they come from
    Process,    \* the processes that serve them
    Unknown     \* stands for none of these

VARIABLES
    slot,       \* the keys in the cache of each process
    visit,      \* the forms, and the requests for an account that came of them
    overran    \* a form was under way longer than a slot lasts

formVars == <<slot, visit, overran>>

Kinds == {"order", "account"}
Keys(v) == {<<v.kind, v.email>>, <<v.kind, v.address>>}
NotSent == [step |-> "unsent", kind |-> "order", email |-> Unknown, address |-> Unknown,
            process |-> Unknown, got |-> {}, open |-> {}, review |-> "none"]

FormsInit ==
    /\ slot = [p \in Process |-> {}]
    /\ visit = [v \in Visit |-> NotSent]
    /\ overran = FALSE

Refused == [NotSent EXCEPT !.step = "refused"]
UnderWay(v) == visit[v].step \in {"checked", "half", "reserved", "returning"}

----------------------------------------------------------------------------
\* _has_pending_request_for_email
HasPending(email) == \E v \in Visit : visit[v].review = "pending" /\ visit[v].email = email

\* A form that is filled in, from an email that no request for an account is pending for.
Check(v, kind, email, address, process) ==
    /\ visit[v].step = "unsent"
    /\ kind = "account" => ~HasPending(email)
    /\ visit' = [visit EXCEPT ![v] = [NotSent EXCEPT !.step = "checked", !.kind = kind,
                    !.email = email, !.address = address, !.process = process]]
    /\ UNCHANGED <<slot, overran>>

\* _reserve_throttle_slot adds the key of the email and then that of the address, each
\* unless it is there.
AddKey(v, key) ==
    LET p == visit[v].process
        mine == IF key \in slot[p] THEN visit[v].got ELSE visit[v].got \cup {key}
        step == CASE visit[v].step = "checked" -> "half"
                  [] mine = Keys(visit[v]) -> "reserved"
                  [] OTHER -> "returning"
    IN  /\ slot' = [slot EXCEPT ![p] = @ \cup {key}]
        /\ visit' = [visit EXCEPT ![v].got = mine, ![v].open = mine, ![v].step = step]
        /\ UNCHANGED overran
AddEmail(v) == visit[v].step = "checked" /\ AddKey(v, <<visit[v].kind, visit[v].email>>)
AddAddress(v) == visit[v].step = "half" /\ AddKey(v, <<visit[v].kind, visit[v].address>>)

\* The form that does not get both gives back what it got, one that fails gives back both.
GivesBackBoth(v) == Keys(visit[v])
GivesBack(v) == visit[v].got
GiveBack(v) ==
    /\ visit[v].step = "returning"
    /\ IF GivesBack(v) = {}
       THEN visit' = [visit EXCEPT ![v] = Refused] /\ UNCHANGED slot
       ELSE \E key \in GivesBack(v) :
              /\ slot' = [slot EXCEPT ![visit[v].process] = @ \ {key}]
              /\ visit' = [visit EXCEPT ![v] =
                              IF visit[v].got \subseteq {key} THEN Refused
                              ELSE [visit[v] EXCEPT !.got = @ \ {key}, !.open = {}]]
    /\ UNCHANGED overran

\* create_public_order, or the request for an account with its documents, is one
\* transaction; when it fails the slot is given back, but what fails before it leaves it.
Accept(v) ==
    /\ visit[v].step = "reserved"
    /\ visit' = [visit EXCEPT ![v].step = "accepted", ![v].got = {},
                   ![v].review = IF visit[v].kind = "account" THEN "pending" ELSE "none"]
    /\ UNCHANGED <<slot, overran>>
Fail(v) ==
    /\ visit[v].step = "reserved"
    /\ visit' = [visit EXCEPT ![v].step = "returning"]
    /\ UNCHANGED <<slot, overran>>
Abandon(v) ==
    /\ visit[v].step = "reserved" /\ visit[v].kind = "account"
    /\ visit' = [visit EXCEPT ![v] = Refused]
    /\ UNCHANGED <<slot, overran>>

\* The administration approves or refuses a request.
Decide(v) ==
    /\ visit[v].review = "pending"
    /\ visit' = [visit EXCEPT ![v].review = "reviewed"]
    /\ UNCHANGED <<slot, overran>>

\* The cache drops a key after its time.
Expire(p, key) ==
    /\ key \in slot[p]
    /\ slot' = [slot EXCEPT ![p] = @ \ {key}]
    /\ visit' = [v \in Visit |-> IF visit[v].process = p THEN [visit[v] EXCEPT !.open = @ \ {key}]
                                 ELSE visit[v]]
    /\ overran' = (overran \/ \E v \in Visit :
                       UnderWay(v) /\ visit[v].process = p /\ key \in Keys(visit[v]))

\* A process that is started again has an empty cache; what it was serving is lost.
StartAgain(p) ==
    /\ slot' = [slot EXCEPT ![p] = {}]
    /\ visit' = [v \in Visit |->
                    IF visit[v].process # p THEN visit[v]
                    ELSE IF UnderWay(v) THEN Refused ELSE [visit[v] EXCEPT !.open = {}]]
    /\ UNCHANGED overran

FormsNext ==
    \/ \E v \in Visit :
         \/ \E kind \in Kinds, e \in Sender, a \in Address, p \in Process : Check(v, kind, e, a, p)
         \/ AddEmail(v) \/ AddAddress(v) \/ GiveBack(v)
         \/ Accept(v) \/ Fail(v) \/ Abandon(v) \/ Decide(v)
    \/ \E p \in Process : StartAgain(p) \/ \E key \in slot[p] : Expire(p, key)

FormsSpec == FormsInit /\ [][FormsNext]_formVars

----------------------------------------------------------------------------
(* Properties *)

FormsTypeOK ==
    /\ slot \in [Process -> SUBSET (Kinds \X (Sender \cup Address))]
    /\ \A v \in Visit :
         /\ visit[v].kind \in Kinds /\ visit[v].review \in {"none", "pending", "reviewed"}
         /\ visit[v].email \in Sender \cup {Unknown} /\ visit[v].address \in Address \cup {Unknown}
         /\ visit[v].step \in {"unsent", "checked", "half", "reserved", "returning", "refused", "accepted"}
         /\ visit[v].got \subseteq Keys(visit[v]) /\ visit[v].open \subseteq Keys(visit[v])
    /\ overran \in BOOLEAN

\* Unless a form is under way longer than its slot lasts, a process accepts no two forms
\* of a kind with one email, or from one address, before their slot has run out; and
\* only forms that different processes served make two requests for an account pending
\* for one email, although each looks for the other before it is written.
FormsOnce ==
    /\ FormsTypeOK
    /\ overran \/ \A v, w \in Visit :
         v # w /\ visit[v].step = "accepted" /\ visit[w].step = "accepted" =>
             /\ visit[v].process = visit[w].process => visit[v].open \cap visit[w].open = {}
             /\ visit[v].review = "pending" /\ visit[w].review = "pending"
                  /\ visit[v].email = visit[w].email => visit[v].process # visit[w].process
=============================================================================
