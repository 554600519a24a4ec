--------------------------- MODULE ConnectRecords ---------------------------
(***************************************************************************)
(* Admission to a hosted server through Atlas (runtime_atlas_server.inl):  *)
(* Atlas announces a joining player's token in a signed packet; a thread   *)
(* of its own fetches the player's pdata, records it and accepts; the      *)
(* player's connect request then has to carry a recorded token.  Packets   *)
(* are UDP and repeated, so several threads may be started for one token.  *)
(* The host's own session is recorded the same way (AddSelfAuthRecord).    *)
(***************************************************************************)
EXTENDS Integers, Sequences, FiniteSets

CONSTANTS
    Uids,              \* Atlas accounts
    HostUids,          \* the accounts the console itself signs in with
    MaxJoins,          \* bound on the tokens Atlas issues for one account
    Saves,             \* pdata Atlas can serve
    NoSave,            \* no pdata
    MaxRecords,        \* kMaxRecords, the cap of g_records and g_authenticatedUids
    MaxPdataRecords,   \* kMaxPdataRecords
    MaxHandledTokens,  \* the cap of g_handledTokens
    MaxThreads         \* bound on the ProcessSigreq1 threads at one time

ASSUME HostUidsAssumption == HostUids \subseteq Uids
ASSUME SavesAssumption == NoSave \notin Saves
ASSUME CapsAssumption ==
    /\ MaxPdataRecords \in Nat \ {0} /\ MaxRecords \in Nat /\ MaxPdataRecords < MaxRecords
    /\ MaxHandledTokens \in Nat \ {0} /\ MaxThreads \in Nat /\ MaxJoins \in Nat

(* A connection token names its account; number 0 stands for the tokens of *)
(* the host's own session.                                                 *)
JoinTokens == Uids \X (1 .. MaxJoins)
SelfTokens == HostUids \X {0}
Tokens == JoinTokens \cup SelfTokens
Account(token) == token[1]

VARIABLES
    listed,           \* g_serverAuthToken is set (the server is on the list)
    records,          \* g_records
    handledTokens,    \* g_handledTokens
    authenticated,    \* g_authenticatedUids
    banned,           \* the players banlist.txt bans
    requests,         \* the ProcessSigreq1 threads: [id, token, stage, pdata]
    answer            \* what Atlas was told about each join

recordVars == <<listed, records, handledTokens, authenticated, banned, requests, answer>>

Contains(seq, x) == \E i \in DOMAIN seq : seq[i] = x

(* A push that forgets the cap.                                            *)
PushUncapped(seq, x, cap) == Append(seq, x)

(* Push at the end, dropping the oldest entry at the cap.                  *)
PushCapped(seq, x, cap) ==
    LET longer == Append(seq, x)
    IN IF Len(longer) > cap THEN Tail(longer) ELSE longer

-----------------------------------------------------------------------------
(* The list of connect records *)

Record(token, pdata, hostConnection) ==
    [token |-> token, uid |-> Account(token), pdata |-> pdata, hostConnection |-> hostConnection]

(* Slips in that index: one record too new, and one too old.               *)
DropPdataTooNew(seq) ==
    IF Len(seq) > MaxPdataRecords
    THEN [seq EXCEPT ![Len(seq) - MaxPdataRecords + 1].pdata = NoSave]
    ELSE seq

(* The record that has just left the newest MaxPdataRecords loses its      *)
(* pdata.                                                                  *)
DropOldPdata(seq) ==
    IF Len(seq) > MaxPdataRecords
    THEN [seq EXCEPT ![Len(seq) - MaxPdataRecords].pdata = NoSave]
    ELSE seq

RecordConnect(seq, token, pdata) ==
    DropOldPdata(PushCapped(seq, Record(token, pdata, FALSE), MaxRecords))

(* AddSelfAuthRecord does not drop any pdata.                              *)
RecordSelfAuth(seq, token, pdata) ==
    PushCapped(seq, Record(token, pdata, TRUE), MaxRecords)

-----------------------------------------------------------------------------
(* HandleAtlasPacket and the ProcessSigreq1 threads *)

ThreadIds == 1 .. MaxThreads
IdleThread(i) == \A r \in requests : r.id # i

(* A signed packet about a join arrives, first or repeated, and starts a   *)
(* thread; without the server's auth token it is ignored.                  *)
AtlasPacket(token) ==
    /\ listed
    /\ \E i \in ThreadIds :
          /\ IdleThread(i)
          /\ requests' = requests \cup
                {[id |-> i, token |-> token, stage |-> "start", pdata |-> NoSave]}
    /\ UNCHANGED <<listed, records, handledTokens, authenticated, banned, answer>>

(* The order of a request's steps: the record is there before Atlas is     *)
(* told to let the player go on.                                           *)
StepAfter(stage) ==
    CASE stage = "start" -> "checkBan"
      [] stage = "checkBan" -> "fetch"
      [] stage = "fetch" -> "record"
      [] stage = "record" -> "accept"
      [] stage = "accept" -> "done"

Ends(r) == requests' = requests \ {r}
Becomes(r, next) ==
    IF next.stage = "done" THEN Ends(r) ELSE requests' = (requests \ {r}) \cup {next}
Advances(r) == Becomes(r, [r EXCEPT !.stage = StepAfter(@)])

(* The console's own player is never banned.                               *)
IsUidAllowed(uid) == uid \in HostUids \/ uid \notin banned

(* A claim that looks the token up without adding it.                      *)
LookUpToken(token) == UNCHANGED handledTokens

(* The token is claimed under the lock.                                    *)
ClaimToken(token) == handledTokens' = PushCapped(handledTokens, token, MaxHandledTokens)

IgnoreHandledToken(r) ==
    /\ r.stage = "start"
    /\ Contains(handledTokens, r.token)
    /\ Ends(r)
    /\ UNCHANGED <<listed, records, handledTokens, authenticated, banned, answer>>

StartRequest(r) ==
    /\ r.stage = "start"
    /\ ~Contains(handledTokens, r.token)
    /\ ClaimToken(r.token)
    /\ Advances(r)
    /\ UNCHANGED <<listed, records, authenticated, banned, answer>>

(* A list that is being rewritten can be read as if it banned nobody       *)
(* (ServerBans), so a banned player may get past this check.               *)
CheckBan(r) ==
    /\ r.stage = "checkBan"
    /\ \/ Advances(r)
       \/ ~IsUidAllowed(Account(r.token)) /\ Becomes(r, [r EXCEPT !.stage = "reject"])
    /\ UNCHANGED <<listed, records, handledTokens, authenticated, banned, answer>>

(* The rejection is posted; whether it arrives is only logged.             *)
PostReject(r) ==
    /\ r.stage = "reject"
    /\ \E arrives \in BOOLEAN :
          answer' = IF arrives THEN [answer EXCEPT ![r.token] = "rejected"] ELSE answer
    /\ Ends(r)
    /\ UNCHANGED <<listed, records, handledTokens, authenticated, banned>>

FetchPdata(r, pdata) ==
    /\ r.stage = "fetch"
    /\ Becomes(r, [r EXCEPT !.stage = StepAfter(@), !.pdata = pdata])
    /\ UNCHANGED <<listed, records, handledTokens, authenticated, banned, answer>>

(* No answer, a status other than 200, or a size out of range: the request *)
(* is dropped, and its token stays handled.                                *)
FetchFails(r) ==
    /\ r.stage = "fetch"
    /\ Ends(r)
    /\ UNCHANGED <<listed, records, handledTokens, authenticated, banned, answer>>

AddRecord(r) ==
    /\ r.stage = "record"
    /\ records' = RecordConnect(records, r.token, r.pdata)
    /\ Advances(r)
    /\ UNCHANGED <<listed, handledTokens, authenticated, banned, answer>>

PostAccept(r) ==
    /\ r.stage = "accept"
    /\ \E arrives \in BOOLEAN :
          answer' = IF arrives THEN [answer EXCEPT ![r.token] = "accepted"] ELSE answer
    /\ Advances(r)
    /\ UNCHANGED <<listed, records, handledTokens, authenticated, banned>>

(* The host's own session (SelfAuthWorker).                                *)
AddSelfAuthRecord(uid, pdata) ==
    /\ records' = RecordSelfAuth(records, <<uid, 0>>, pdata)
    /\ UNCHANGED <<listed, handledTokens, authenticated, banned, requests, answer>>

-----------------------------------------------------------------------------
(* The game thread *)

(* The record a connect request's uid and token match: the oldest such.    *)
MatchingRecord(token) ==
    {i \in DOMAIN records : /\ records[i].token = token
                            /\ \A j \in 1 .. i - 1 : records[j].token # token}

NoteConnectRequest(token) ==
    authenticated' = IF Contains(authenticated, Account(token)) THEN authenticated
                     ELSE PushCapped(authenticated, Account(token), MaxRecords)

(* A connect request with a recorded token.  A banned player's is refused  *)
(* only where RejectConnection was found in the engine and the list is     *)
(* read as it is (ServerBans); so a banned player may come this far, too.  *)
(* What the engine and the persistence code do with the request is         *)
(* RemoteSaves'.                                                           *)
ConnectWithToken(token) ==
    /\ MatchingRecord(token) # {}
    /\ NoteConnectRequest(token)
    /\ UNCHANGED <<listed, records, handledTokens, banned, requests, answer>>

Ban(uid) ==
    /\ uid \notin HostUids
    /\ banned' = banned \cup {uid}
    /\ UNCHANGED <<listed, records, handledTokens, authenticated, requests, answer>>

LiftBan(uid) ==
    /\ uid \in banned
    /\ banned' = banned \ {uid}
    /\ UNCHANGED <<listed, records, handledTokens, authenticated, requests, answer>>

(* The presence reporter lists the server or takes it off the list.        *)
ListingChanges ==
    /\ listed' = ~listed
    /\ UNCHANGED <<records, handledTokens, authenticated, banned, requests, answer>>

-----------------------------------------------------------------------------
ConnectInit ==
    /\ listed = FALSE
    /\ records = <<>>
    /\ handledTokens = <<>>
    /\ authenticated = <<>>
    /\ banned = {}
    /\ requests = {}
    /\ answer = [t \in JoinTokens |-> "none"]

ConnectNext ==
    \/ \E t \in JoinTokens : AtlasPacket(t)
    \/ \E r \in requests : IgnoreHandledToken(r)
    \/ \E r \in requests : StartRequest(r)
    \/ \E r \in requests : CheckBan(r)
    \/ \E r \in requests : PostReject(r)
    \/ \E r \in requests, p \in Saves : FetchPdata(r, p)
    \/ \E r \in requests : FetchFails(r)
    \/ \E r \in requests : AddRecord(r)
    \/ \E r \in requests : PostAccept(r)
    \/ \E u \in HostUids, p \in Saves : AddSelfAuthRecord(u, p)
    \/ \E t \in Tokens : ConnectWithToken(t)
    \/ \E u \in Uids : Ban(u)
    \/ \E u \in Uids : LiftBan(u)
    \/ ListingChanges

ConnectSpec == ConnectInit /\ [][ConnectNext]_recordVars

-----------------------------------------------------------------------------
Records == [token : Tokens, uid : Uids, pdata : Saves \cup {NoSave}, hostConnection : BOOLEAN]
RequestType == [id : ThreadIds, token : JoinTokens, pdata : Saves \cup {NoSave},
             stage : {"start", "checkBan", "reject", "fetch", "record", "accept"}]

(* The capped lists stay within their caps and every entry has its shape.  *)
ConnectTypeOK ==
    /\ listed \in BOOLEAN
    /\ records \in Seq(Records) /\ Len(records) <= MaxRecords
    /\ handledTokens \in Seq(JoinTokens) /\ Len(handledTokens) <= MaxHandledTokens
    /\ authenticated \in Seq(Uids) /\ Len(authenticated) <= MaxRecords
    /\ banned \subseteq Uids
    /\ requests \subseteq RequestType
    /\ answer \in [JoinTokens -> {"none", "accepted", "rejected"}]

(* Atlas lets a player go on to the server only once the record is there:  *)
(* an accepted join is recorded, unless so many were recorded since that   *)
(* the list is full (ProcessSigreq1 adds the record before it accepts).    *)
AcceptedIsRecorded ==
    \A t \in JoinTokens : answer[t] = "accepted" =>
        \/ Len(records) = MaxRecords
        \/ \E i \in DOMAIN records : records[i].token = t

(* However often a packet is repeated, one thread at most handles a token, *)
(* and it gets one record (the claim under the lock).                      *)
HandledOnce ==
    \A t \in JoinTokens :
        Cardinality({r \in requests : r.token = t /\ r.stage \notin {"start", "accept"}})
            + Cardinality({i \in DOMAIN records : records[i].token = t}) <= 1

(* What Atlas and the players count on of a join.                          *)
JoinsRecordedOnce == AcceptedIsRecorded /\ HandledOnce

(* The newest records keep their pdata whatever threads and self-auth did  *)
(* in between, so a player who connects soon after being accepted gets     *)
(* its save.                                                               *)
NewestKeepPdata ==
    \A i \in DOMAIN records : i > Len(records) - MaxPdataRecords => records[i].pdata # NoSave

(* The pdata kept is bounded: no more than the cap, and one for every      *)
(* record of the host's own session in the list.                           *)
PdataBounded ==
    Cardinality({i \in DOMAIN records : records[i].pdata # NoSave}) <=
        MaxPdataRecords + Cardinality({i \in DOMAIN records : records[i].hostConnection})

(* Of the records, the newest have a save and few others do.               *)
PdataKept == NewestKeepPdata /\ PdataBounded

(* A join Atlas was told is rejected has no record, so its token connects  *)
(* nobody, although the packet that announced it is repeated and the ban   *)
(* may be lifted before a repeated packet is looked at: a rejected token   *)
(* stays handled (ProcessSigreq1).                                         *)
RejectedNotRecorded ==
    \A t \in JoinTokens : answer[t] = "rejected" =>
        \A i \in DOMAIN records : records[i].token # t

=============================================================================
