----------------------------- MODULE SaveCustody -----------------------------
(***************************************************************************)
(* What a hosted server promises Atlas about players' saves: a slot holds  *)
(* the save of one account at a time and lets go of it before it holds     *)
(* another's; what is submitted for an account comes from a slot holding   *)
(* it and is that account's own data; and Atlas's copy changes only to     *)
(* what was submitted.  RemoteSaves implements it.                         *)
(***************************************************************************)
CONSTANTS Uids, Clients, NoUid, Pdata

VARIABLES
    holder,     \* the account whose save a slot holds
    inFlight,   \* submissions Atlas has not decided on
    atlas       \* the save Atlas holds for each account

vars == <<holder, inFlight, atlas>>

Init ==
    /\ holder = [c \in Clients |-> NoUid]
    /\ inFlight = {}
    /\ atlas \in [Uids -> Pdata]

Hold(c, u) ==
    /\ holder[c] \in {NoUid, u}
    /\ holder' = [holder EXCEPT ![c] = u]
    /\ UNCHANGED <<inFlight, atlas>>

OwnSubmission(s) ==
    /\ holder[s.client] = s.uid
    /\ s.pdata.owner = s.uid /\ s.pdata.tail = s.uid

SubmitAndRelease ==
    /\ inFlight \subseteq inFlight'
    /\ \A s \in inFlight' \ inFlight : OwnSubmission(s)
    /\ DOMAIN holder' = Clients
    /\ \A c \in Clients : holder'[c] \in {holder[c], NoUid}
    /\ UNCHANGED atlas

Store(s) ==
    /\ atlas' = [atlas EXCEPT ![s.uid] = s.pdata]
    /\ inFlight' = inFlight \ {s}
    /\ UNCHANGED holder

Lose(s) ==
    /\ inFlight' = inFlight \ {s}
    /\ UNCHANGED <<holder, atlas>>

Next ==
    \/ \E c \in Clients, u \in Uids : Hold(c, u)
    \/ SubmitAndRelease
    \/ \E s \in inFlight : Store(s) \/ Lose(s)

Spec == Init /\ [][Next]_vars

=============================================================================
