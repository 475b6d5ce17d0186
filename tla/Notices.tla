-------------------------------- MODULE Notices --------------------------------
(***************************************************************************)
(* The notices of signals.py about an order, or a shipment: before it is   *)
(* saved, what the database holds is read; after it, the change is noted,  *)
(* and the notice is sent once the transaction is committed. Which changes *)
(* are made, Stock, OrderDesk and Shipping say; here requests make any     *)
(* change, with the copies, the saves and the transactions that the code   *)
(* makes them with.                                                        *)
(***************************************************************************)
EXTENDS Integers, Sequences, FiniteSets, Functions

CONSTANTS
    Field,      \* what is watched: status and review of an order, status of a shipment
    Value,      \* what they may be
    Clerk       \* the requests that work on it

ASSUME SomethingWatched == Field # {} /\ Value # {} /\ IsFiniteSet(Clerk)

VARIABLES
    watched,    \* the row as committed
    atWork,     \* the requests
    told,       \* of each state, the notices sent that tell of leaving it less those of coming to it
    blurred     \* a request saved what another had overtaken, or died with a notice to send

noticeVars == <<watched, atWork, told, blurred>>

States == [Field -> Value]
Original == CHOOSE s \in States : \A f, g \in Field : s[f] = s[g]
Away == [step |-> "away", atomic |-> FALSE, copy |-> Original, saves |-> {}, before |-> Original,
         mine |-> <<>>, notices |-> <<>>]

NoticesInit ==
    /\ watched = Original
    /\ atWork = [r \in Clerk |-> Away]
    /\ told = [s \in States |-> 0]
    /\ blurred = FALSE

----------------------------------------------------------------------------
\* What a request reads of the row: what it wrote in its transaction, or what is committed.
Current(r) == IF atWork[r].mine # <<>> THEN Head(atWork[r].mine) ELSE watched
Locked(r) == \E s \in Clerk \ {r} : atWork[s].mine # <<>>

\* A view loads the order or the shipment, and may begin a transaction then or later.
Take(r) ==
    /\ atWork[r].step = "away"
    /\ atWork' = [atWork EXCEPT ![r] = [Away EXCEPT !.step = "loaded", !.copy = watched]]
    /\ UNCHANGED <<watched, told, blurred>>
Begin(r) ==
    /\ atWork[r].step = "loaded" /\ ~atWork[r].atomic
    /\ atWork' = [atWork EXCEPT ![r].atomic = TRUE]
    /\ UNCHANGED <<watched, told, blurred>>

\* refresh_from_db, as prepare_order does.
Refresh(r) ==
    /\ atWork[r].step = "loaded" /\ atWork[r].copy # Current(r)
    /\ atWork' = [atWork EXCEPT ![r].copy = Current(r)]
    /\ UNCHANGED <<watched, told, blurred>>

\* The copy is changed and some of its fields are saved, all of them, or only others than
\* those watched. _capture_order_state and _capture_shipment_status read the row first.
Capture(r, copy, saves) ==
    /\ atWork[r].step = "loaded"
    /\ \A f \in Field \ saves : copy[f] = atWork[r].copy[f]
    /\ atWork' = [atWork EXCEPT ![r].step = "captured", ![r].copy = copy, ![r].saves = saves,
                                ![r].before = Current(r)]
    /\ UNCHANGED <<watched, told, blurred>>

\* _notify_order_status_change compares the copy, saved or not, with what was read, and
\* leaves its notice to the commit, which comes with the save where there is no transaction.
HeldBackNever(r) == FALSE
HeldBack(r) == atWork[r].atomic
SaveRow(r) ==
    LET w == atWork[r]
        saved == [f \in Field |-> IF f \in w.saves THEN w.copy[f] ELSE Current(r)[f]]
        notes == IF w.copy = w.before THEN w.notices ELSE Append(w.notices, <<w.before, w.copy>>)
    IN  /\ w.step = "captured" /\ ~Locked(r)
        /\ watched' = IF w.atomic THEN watched ELSE saved
        /\ atWork' = [atWork EXCEPT ![r].mine = IF w.atomic THEN <<saved>> ELSE <<>>,
                                    ![r].step = IF HeldBack(r) THEN "loaded" ELSE "sending",
                                    ![r].notices = notes]
        /\ blurred' = (blurred \/ w.before # Current(r) \/ saved # w.copy)
        /\ UNCHANGED told

Commit(r) ==
    /\ atWork[r].step = "loaded" /\ atWork[r].atomic
    /\ watched' = Current(r)
    /\ atWork' = [atWork EXCEPT ![r].step = "sending", ![r].atomic = FALSE, ![r].mine = <<>>]
    /\ UNCHANGED <<told, blurred>>

\* An error undoes the transaction with its notices.
Undo(r) ==
    /\ atWork[r].step \in {"loaded", "captured"} /\ atWork[r].atomic
    /\ atWork' = [atWork EXCEPT ![r] = Away]
    /\ UNCHANGED <<watched, told, blurred>>

\* A notice tells of the state it leaves and the one it comes to.
Tells(notice, s) == (IF notice[1] = s THEN 1 ELSE 0) - (IF notice[2] = s THEN 1 ELSE 0)

\* send_or_enqueue_email_safe, one notice after the other; EmailQueue says what becomes of them.
SendNotice(r) ==
    LET w == atWork[r]
    IN  /\ w.step = "sending"
        /\ IF w.notices = <<>>
           THEN /\ atWork' = [atWork EXCEPT ![r].step = "loaded"]
                /\ UNCHANGED told
           ELSE /\ told' = [s \in States |-> told[s] + Tells(Head(w.notices), s)]
                /\ atWork' = [atWork EXCEPT ![r].notices = Tail(@)]
        /\ UNCHANGED <<watched, blurred>>

\* The answer is given, or the process dies.
Leave(r) ==
    /\ atWork[r].step # "away" /\ ~(atWork[r].atomic /\ atWork[r].step = "loaded")
    /\ atWork' = [atWork EXCEPT ![r] = Away]
    /\ blurred' = (blurred \/ (atWork[r].step = "sending" /\ atWork[r].notices # <<>>))
    /\ UNCHANGED <<watched, told>>

NoticesNext == \E r \in Clerk :
    \/ \E saves \in SUBSET Field : \E copy \in States : Capture(r, copy, saves)
    \/ Take(r) \/ Begin(r) \/ Refresh(r) \/ SaveRow(r) \/ Commit(r) \/ Undo(r) \/ SendNotice(r) \/ Leave(r)

NoticesSpec == NoticesInit /\ [][NoticesNext]_noticeVars

----------------------------------------------------------------------------
(* Properties *)

Asker == [step : {"away", "loaded", "captured", "sending"}, atomic : BOOLEAN, copy : States,
          saves : SUBSET Field, before : States, mine : Seq(States), notices : Seq(States \X States)]

NoticesTypeOK ==
    /\ watched \in States /\ told \in [States -> Int] /\ blurred \in BOOLEAN
    /\ atWork \in [Clerk -> Asker]
    /\ \A r \in Clerk : Len(atWork[r].mine) <= 1

\* What some notices tell of a state, and what a request whose change is committed has to tell.
Telling(notices, s) == SumFunction([i \in DOMAIN notices |-> Tells(notices[i], s)])
Owed(r, s) == IF atWork[r].step = "sending" THEN Telling(atWork[r].notices, s) ELSE 0

\* Whatever requests save copies that are behind, in transactions that last or are undone,
\* the notices sent, with those of committed changes still to be sent, lead from what the
\* row was at first to what it is: no change is left out, told twice or made up. Except
\* where a change comes between what a save reads and what it writes, a save leaves out
\* a field that its copy is behind on, or a process dies before it sends.
NoticesFollow ==
    /\ NoticesTypeOK
    /\ blurred \/ \A s \in States :
         told[s] + SumFunction([r \in Clerk |-> Owed(r, s)]) = Tells(<<Original, watched>>, s)
=============================================================================
