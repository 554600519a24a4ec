------------------------------ MODULE Datagrams ------------------------------
(***************************************************************************)
(* The retry around the engine's NET_GetPacket (runtime_netmessage_fixes). *)
(* A datagram that does not decode makes NET_GetPacket return nothing, as  *)
(* an empty socket does, and the engine then stops reading for the frame.  *)
(* The guard tries again as long as recvfrom had data, which a wrapper of  *)
(* recvfrom notes in a table of the threads that receive.                  *)
(***************************************************************************)
EXTENDS Integers, Sequences

CONSTANTS
    Receivers,         \* the engine's threads that process sockets
    StateSlots,        \* the entries of g_threads
    ReceiveLimit,      \* ns_recvfrom_per_frame_limit
    MaxDatagrams       \* bound on the datagrams that arrive

\* A thread is its pointer, which is not null.
ASSUME DatagramsAssumption ==
    StateSlots \in Nat \ {0} /\ ReceiveLimit \in Nat \ {0} /\ 0 \notin Receivers

NoOne == 0
NoSlot == 0

VARIABLES
    socket,       \* the datagrams waiting: whether each decodes
    arrived,      \* how many have come
    redirected,   \* the calls that are redirected: "recvfrom", then "getpacket"
    threads,      \* g_threads: the thread of each entry and its flag
    receiver      \* per engine thread, how far its call is

datagramVars == <<socket, arrived, redirected, threads, receiver>>

Slots1 == 1..StateSlots
OutsideCall == [at |-> "outside", slot |-> NoSlot, scan |-> 1, tries |-> 0, got |-> "none",
                empty |-> FALSE,                      \* history: the socket was empty at the last try
                guarded |-> FALSE]

DatagramsInit ==
    /\ socket = <<>> /\ arrived = 0 /\ redirected = {}
    /\ threads = [i \in Slots1 |-> [thread |-> NoOne, received |-> FALSE]]
    /\ receiver = [r \in Receivers |-> OutsideCall]

-----------------------------------------------------------------------------
\* InstallDatagramLimit redirects recvfrom's call first, and the guard's only
\* when that was written.
InstallDatagramLimit ==
    /\ \/ redirected = {} /\ redirected' = {"recvfrom"}
       \/ redirected = {"recvfrom"} /\ redirected' = {"recvfrom", "getpacket"}
    /\ UNCHANGED <<socket, arrived, threads, receiver>>

Arrive == \E decodes \in BOOLEAN :
    /\ arrived < MaxDatagrams /\ arrived' = arrived + 1
    /\ socket' = Append(socket, decodes)
    /\ UNCHANGED <<redirected, threads, receiver>>

\* The engine asks for a packet: through the guard, or as it always has.
AskPacket(r) ==
    /\ receiver[r].at = "outside"
    /\ receiver' = [receiver EXCEPT ![r] =
           [OutsideCall EXCEPT !.guarded = "getpacket" \in redirected,
                               !.at = IF "getpacket" \in redirected THEN "find" ELSE "receive"]]
    /\ UNCHANGED <<socket, arrived, redirected, threads>>

\* CurrentThreadState: the entry with the thread's own pointer; without one, the
\* first entry that a compare-and-exchange finds free.
Own(r) == {i \in Slots1 : threads[i].thread = r}

FindState(r) ==
    /\ receiver[r].at = "find"
    /\ receiver' = [receiver EXCEPT ![r] =
           IF Own(r) # {} THEN [@ EXCEPT !.at = "reset", !.slot = CHOOSE i \in Own(r) : TRUE]
           ELSE [@ EXCEPT !.at = "claim"]]
    /\ UNCHANGED <<socket, arrived, redirected, threads>>

ClaimState(r) ==
    /\ receiver[r].at = "claim"
    /\ LET i == receiver[r].scan
       IN  IF i \notin Slots1
           THEN receiver' = [receiver EXCEPT ![r].at = "reset"] /\ UNCHANGED threads
           ELSE IF threads[i].thread = NoOne
           THEN /\ threads' = [threads EXCEPT ![i].thread = r]
                /\ receiver' = [receiver EXCEPT ![r].at = "reset", ![r].slot = i]
           ELSE receiver' = [receiver EXCEPT ![r].scan = i + 1] /\ UNCHANGED threads
    /\ UNCHANGED <<socket, arrived, redirected>>

\* GetPacketGuard's loop: the flag is taken down, a packet is asked for ...
\* A plausible bug: the flag of the last datagram stays up.
LeftUp(entry) == entry
Lowered(entry) == [entry EXCEPT !.received = FALSE]

ResetFlag(r) ==
    /\ receiver[r].at = "reset"
    /\ threads' = IF receiver[r].slot = NoSlot THEN threads
                  ELSE [threads EXCEPT ![receiver[r].slot] = Lowered(@)]
    /\ receiver' = [receiver EXCEPT ![r].at = "receive"]
    /\ UNCHANGED <<socket, arrived, redirected>>

\* ... which the wrapped recvfrom notes in the thread's entry.  A call that is
\* not guarded yet finds or claims one here.
Entries(r) == IF Own(r) # {} THEN Own(r)
              ELSE {i \in Slots1 : threads[i].thread = NoOne /\ \A j \in 1..i - 1 : threads[j].thread # NoOne}
Noted(r) == IF "recvfrom" \in redirected
            THEN [i \in Slots1 |-> IF i \in Entries(r) THEN [thread |-> r, received |-> TRUE] ELSE threads[i]]
            ELSE threads

GetPacket(r) ==
    /\ receiver[r].at = "receive"
    /\ IF socket = <<>>
       THEN /\ receiver' = [receiver EXCEPT ![r].at = "returned", ![r].empty = TRUE]
            /\ UNCHANGED <<socket, threads>>
       ELSE /\ threads' = Noted(r)
            /\ socket' = Tail(socket)
            /\ receiver' = [receiver EXCEPT ![r].at = "returned", ![r].got = IF Head(socket) THEN "packet" ELSE "none"]
    /\ UNCHANGED <<arrived, redirected>>

\* ... and the loop ends with a packet, without data, or at the limit.
Again(r) ==
    /\ receiver[r].guarded /\ receiver[r].got = "none"
    /\ receiver[r].slot # NoSlot /\ threads[receiver[r].slot].received
    /\ receiver[r].tries + 1 < ReceiveLimit

Retry(r) ==
    /\ receiver[r].at = "returned"
    /\ receiver' = [receiver EXCEPT ![r].at = IF Again(r) THEN "reset" ELSE "done", ![r].tries = @ + 1]
    /\ UNCHANGED <<socket, arrived, redirected, threads>>

EndCall(r) ==
    /\ receiver[r].at = "done" /\ receiver' = [receiver EXCEPT ![r] = OutsideCall]
    /\ UNCHANGED <<socket, arrived, redirected, threads>>

DatagramsNext ==
    \/ InstallDatagramLimit \/ Arrive
    \/ \E r \in Receivers : \/ AskPacket(r) \/ FindState(r) \/ ClaimState(r) \/ ResetFlag(r)
                            \/ GetPacket(r) \/ Retry(r) \/ EndCall(r)

DatagramsSpec == DatagramsInit /\ [][DatagramsNext]_datagramVars

-----------------------------------------------------------------------------
ThreadStates == [thread: Receivers \cup {NoOne}, received: BOOLEAN]
ReceiverCalls == [at: {"outside", "find", "claim", "reset", "receive", "returned", "done"},
                  slot: {NoSlot} \cup Slots1, scan: 1..(StateSlots + 1), tries: 0..ReceiveLimit,
                  got: {"none", "packet"}, empty: BOOLEAN, guarded: BOOLEAN]
DatagramsTypeOK ==
    /\ socket \in Seq(BOOLEAN) /\ redirected \in {{}, {"recvfrom"}, {"recvfrom", "getpacket"}}
    /\ threads \in [Slots1 -> ThreadStates] /\ receiver \in [Receivers -> ReceiverCalls]

\* No thread owns two entries, so the wrapper sets the flag the guard reads.
OneEntryEach == \A r \in Receivers : \A i, j \in Own(r) : i = j

\* A guarded call that comes back with nothing has found the socket empty, has
\* made all its tries, or got no entry because the table is full of other
\* threads: datagrams that do not decode hide no packet behind them.
NothingMeansNothing ==
    \A r \in Receivers :
        receiver[r].at = "done" /\ receiver[r].guarded /\ receiver[r].got = "none" =>
            \/ receiver[r].empty
            \/ receiver[r].tries = ReceiveLimit
            \/ receiver[r].slot = NoSlot /\ \A i \in Slots1 : threads[i].thread \notin {r, NoOne}

\* And an empty socket is asked once: the flag of an earlier datagram does not
\* keep the loop going.
NoSpin == \A r \in Receivers : receiver[r].empty => receiver[r].at \in {"returned", "done"}

DatagramsSound == OneEntryEach /\ NothingMeansNothing /\ NoSpin
=============================================================================
