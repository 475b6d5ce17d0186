------------------------------- MODULE Accounts -------------------------------
(***************************************************************************)
(* Requests for an account and what becomes of them: the action of the     *)
(* administration and the form of a request (admin.py), and                *)
(* approve_account_request (admin_account_request_approval.py), which      *)
(* makes or takes up an account. An account for a person is one of the     *)
(* staff, under the name that was asked for; an association's is one of    *)
(* the portal, and its name is its email. PublicForms says which requests  *)
(* come to be pending.                                                     *)
(***************************************************************************)
EXTENDS Naturals

CONSTANTS
    Application,  \* the requests
    Mail,         \* the emails
    Nickname,     \* the names asked for, which may be someone's email
    User,         \* the accounts
    Approver,     \* those who decide on requests
    Nobody

ASSUME MailsAreNames == Nobody \notin Mail \cup Nickname \cup User

VARIABLES
    application,  \* the requests
    account,      \* the accounts, each with its name, email, and what it may enter
    approver,     \* who is approving what, with the account that was found
    crossed       \* a request was approved on what another approval had changed

accountVars == <<application, account, approver, crossed>>

NoApplication == [status |-> "absent", type |-> "association", email |-> Nobody, name |-> Nobody,
                  granted |-> FALSE]
NoAccount == [name |-> Nobody, email |-> Nobody, staff |-> FALSE, portal |-> FALSE]
NoApproval == [step |-> "idle", app |-> Nobody, found |-> Nobody, copy |-> NoAccount, behind |-> FALSE]

Accounts == {u \in User : account[u] # NoAccount}
Of(email) == {u \in Accounts : account[u].email = email}
Taken(name) == \E u \in Accounts : account[u].name = name

\* No account yet, or one of a colleague.
AccountsInit ==
    /\ application = [q \in Application |-> NoApplication]
    /\ \E colleagues \in SUBSET (User \X Mail \X (Mail \cup Nickname)) :
         /\ \A c, d \in colleagues : c = d
         /\ account = [u \in User |->
                         IF \E c \in colleagues : c[1] = u
                         THEN LET c == CHOOSE x \in colleagues : x[1] = u
                              IN  [name |-> c[3], email |-> c[2], staff |-> TRUE, portal |-> FALSE]
                         ELSE NoAccount]
    /\ approver = [a \in Approver |-> NoApproval]
    /\ crossed = FALSE

----------------------------------------------------------------------------
Apply(q, type, email, name) ==
    /\ application[q].status = "absent"
    /\ type = "association" <=> name = email
    /\ application' = [application EXCEPT ![q] =
                         [NoApplication EXCEPT !.status = "pending", !.type = type,
                                               !.email = email, !.name = name]]
    /\ UNCHANGED <<account, approver, crossed>>

\* reject_requests, whatever became of the requests.
RejectRequest(q) ==
    /\ application[q].status \notin {"absent", "rejected"}
    /\ application' = [application EXCEPT ![q].status = "rejected"]
    /\ UNCHANGED <<account, approver, crossed>>

\* What approve_account_request finds for a request, and why it skips one: its email is
\* one of the staff, or the name it asks for is someone else's.
FoundByName(r) == {u \in Accounts : account[u].name = r.name}
Found(r) == Of(r.email)
Reserved(r, u) ==
    \/ u # Nobody /\ account[u].staff
    \/ r.type = "user" /\ \E w \in Accounts : account[w].name = r.name /\ account[w].email # r.email

\* approve_requests, and save_model with the status approved, pass over a request that
\* was approved if its account is there. The form saves the status of one that is skipped.
StartApproval(a, q, page) ==
    LET r == application[q]
        found == IF Found(r) = {} THEN {Nobody} ELSE Found(r)
    IN  /\ approver[a].step = "idle" /\ r.status # "absent"
        /\ ~(r.status = "approved" /\ Of(r.email) # {})
        /\ \E u \in found :
             IF Reserved(r, u)
             THEN /\ page = "form"
                  /\ application' = [application EXCEPT ![q].status = "approved"]
                  /\ UNCHANGED approver
             ELSE /\ approver' = [approver EXCEPT ![a] =
                                    [step |-> page, app |-> q, found |-> u, behind |-> FALSE,
                                     copy |-> IF u = Nobody THEN NoAccount ELSE account[u]]]
                  /\ UNCHANGED application
        /\ UNCHANGED <<account, crossed>>

\* The account that was found is given what it lacked when it was read; another is made
\* otherwise.
Granted(r, now, copy) ==
    IF r.type = "user"
    THEN [now EXCEPT !.name = IF copy.name # r.name THEN r.name ELSE @, !.email = r.email, !.staff = TRUE]
    ELSE [now EXCEPT !.name = IF copy = NoAccount THEN r.name ELSE @, !.email = r.email, !.portal = TRUE]

\* The others who approve for the same email are behind.
Approved(a, q, u) ==
    LET r == application[q]
    IN  /\ account' = [account EXCEPT ![u] = Granted(r, @, approver[a].copy)]
        /\ \A w \in User : w # u /\ account[w] # NoAccount => account'[u].name # account[w].name
        /\ application' = [application EXCEPT ![q].status = "approved", ![q].granted = TRUE]
        /\ crossed' = (crossed \/ approver[a].behind)
        /\ approver' = [b \in Approver |->
                          IF b = a THEN NoApproval
                          ELSE IF approver[b].step # "idle" /\ application[approver[b].app].email = r.email
                          THEN [approver[b] EXCEPT !.behind = TRUE] ELSE approver[b]]

ApproveFound(a) ==
    LET p == approver[a]
    IN  p.step # "idle" /\ p.found # Nobody /\ Approved(a, p.app, p.found)
ApproveNew(a, u) ==
    LET p == approver[a]
    IN  p.step # "idle" /\ p.found = Nobody /\ account[u] = NoAccount /\ Approved(a, p.app, u)

\* A name that is taken by now, or an error, undoes it all, the form's save included.
ApprovalFails(a) ==
    /\ approver[a].step # "idle"
    /\ approver' = [approver EXCEPT ![a] = NoApproval]
    /\ UNCHANGED <<application, account, crossed>>

AccountsNext ==
    \/ \E q \in Application :
         \/ \E email \in Mail, name \in Mail \cup Nickname, type \in {"user", "association"} :
              Apply(q, type, email, name)
         \/ RejectRequest(q)
         \/ \E a \in Approver, page \in {"action", "form"} : StartApproval(a, q, page)
    \/ \E a \in Approver : ApproveFound(a) \/ ApprovalFails(a) \/ \E u \in User : ApproveNew(a, u)

AccountsSpec == AccountsInit /\ [][AccountsNext]_accountVars

----------------------------------------------------------------------------
(* Properties *)

AccountsTypeOK ==
    /\ \A q \in Application :
         /\ application[q].status \in {"absent", "pending", "approved", "rejected"}
         /\ application[q].email \in Mail \cup {Nobody} /\ application[q].granted \in BOOLEAN
    /\ \A u \in User : account[u].staff \in BOOLEAN /\ account[u].portal \in BOOLEAN
    /\ \A a \in Approver : approver[a].found \in User \cup {Nobody} /\ approver[a].behind \in BOOLEAN
    /\ crossed \in BOOLEAN

\* As long as no request was approved on what another approval had changed meanwhile,
\* an email has one account, whatever was asked for it and in which order, and every
\* request whose approval was announced has its account, open to what it was asked
\* for. No two accounts have one name, even then.
AccountsFollow ==
    /\ AccountsTypeOK
    /\ \A u, w \in Accounts : u # w => account[u].name # account[w].name
    /\ crossed \/
         /\ \A u, w \in Accounts : u # w => account[u].email # account[w].email
         /\ \A q \in Application : application[q].granted =>
              \E u \in Of(application[q].email) :
                IF application[q].type = "user" THEN account[u].staff ELSE account[u].portal
=============================================================================
