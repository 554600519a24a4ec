----------------------------- MODULE RemoteSaves -----------------------------
(***************************************************************************)
(* Players' Atlas saves on a hosted server (runtime_persistence.inl,       *)
(* persistence_owner.h, persistence_write_state.h, pdata_convert.h and the *)
(* write worker of runtime_atlas_server.inl).                              *)
(*                                                                         *)
(* A client that connects with its Atlas token gets the pdata of its       *)
(* connect record copied into its engine slot.  From then on the slot's    *)
(* buffer is the live save, `pdata' the last acknowledged version and      *)
(* `queued' the newest version submitted to Atlas.  Each write runs on a   *)
(* thread of its own, so several can be under way for one player and they  *)
(* reach Atlas and complete in any order.                                  *)
(*                                                                         *)
(* One game thread runs every engine hook; g_remoteSaveLock makes each     *)
(* worker completion atomic with respect to it.  `hook' is where the game  *)
(* thread stands when a hook releases that lock half way.                  *)
(***************************************************************************)
EXTENDS Integers, Sequences, FiniteSets

CONSTANTS
    Uids,             \* Atlas accounts
    HostUids,         \* the accounts the console itself signs in with
    MaxSlot,          \* the engine's client slots are 0..MaxSlot; 0 is the listen host
    Versions,         \* contents a layout-231 save can have
    NoUid,            \* uid 0: no player, or a bot
    OtherLayout,      \* contents that are not a layout-231 save
    MaxPending,       \* kMaxPdataRecords, the cap of g_pendingPdata
    MaxWrites,        \* bound on the writes started for one slot
    AllowDuplicates   \* ns_allow_duplicate_accounts

ASSUME UidsAssumption == NoUid \notin Uids /\ HostUids \subseteq Uids
ASSUME SlotAssumption == MaxSlot \in Nat
ASSUME VersionsAssumption == OtherLayout \notin Versions
ASSUME PendingAssumption == MaxPending \in Nat \ {0}
ASSUME WritesAssumption == MaxWrites \in Nat
ASSUME DuplicatesAssumption == AllowDuplicates \in BOOLEAN

Clients == 0 .. MaxSlot

kSignonConnected == 2
kSignonStateFull == 8
kPersistenceNotReady == 0
kPersistenceReadyInsecure == 3
kPersistenceReadyRemote == 4

Contents == Versions \cup {OtherLayout}

(* What Atlas stores: the 231 structure (owner and version name its bytes) *)
(* and the trailing bytes of PC mods, which belong to the same account.    *)
Pdata == [owner : Uids, ver : Contents, tail : Uids]
NoPdata == [owner |-> NoUid, ver |-> OtherLayout, tail |-> NoUid]

(* What a slot's persistence buffer holds: a save, or the script's         *)
(* placeholder data.                                                       *)
Buffers == [owner : Uids, ver : Contents]
Placeholder == [owner |-> NoUid, ver |-> OtherLayout]

NoTail == NoUid

VARIABLES
    slots,     \* the engine's client slots
    saves,     \* g_remoteSaves
    pending,   \* g_pendingPdata
    hook,      \* the game thread inside RuntimePersistenceAvailable
    writes,    \* the write threads
    issued,    \* writes started per slot, to tell threads apart
    offers,    \* pdata of the connect record a player's token leads to
    atlas,     \* the save Atlas holds for each account
    known      \* history: what Atlas has served or acknowledged

vars == <<slots, saves, pending, hook, writes, issued, offers, atlas, known>>

-----------------------------------------------------------------------------
(* pdata_convert.h *)

CanInstall(p) == p.ver \in Versions

InstalledBuffer(p) == [owner |-> p.owner, ver |-> p.ver]

(* An export that does not look at the layout version of the buffer.        *)
ExportToPcWithoutVersionCheck(buffer, trailing) ==
    [owner |-> buffer.owner, ver |-> buffer.ver, tail |-> trailing]

ExportToPc(buffer, trailing) ==
    IF buffer.ver \in Versions
    THEN [owner |-> buffer.owner, ver |-> buffer.ver, tail |-> trailing]
    ELSE NoPdata

-----------------------------------------------------------------------------
(* persistence_write_state.h *)

ClassifyWrite(acknowledged, queued, current) ==
    IF current = acknowledged THEN "Unchanged"
    ELSE IF current = queued THEN "AlreadyQueued"
    ELSE "Queue"

(* The completion of a write without the guard that it is the newest one.  *)
CompleteAnyWrite(save, completed, accepted) ==
    [save EXCEPT !.pdata = IF accepted THEN completed ELSE @, !.queued = NoPdata]

(* A completion that takes a failed write for an acknowledged one.         *)
CompleteWriteRegardless(save, completed, accepted) ==
    IF save.queued # completed THEN save
    ELSE [save EXCEPT !.pdata = completed, !.queued = NoPdata]

(* A completion that leaves the marker of a failed write in place.         *)
CompleteWriteKeepingFailed(save, completed, accepted) ==
    IF save.queued # completed \/ ~accepted THEN save
    ELSE [save EXCEPT !.pdata = completed, !.queued = NoPdata]

CompleteWrite(save, completed, accepted) ==
    IF save.queued # completed THEN save
    ELSE [save EXCEPT !.pdata = IF accepted THEN completed ELSE @,
                      !.queued = NoPdata]

-----------------------------------------------------------------------------
(* persistence_owner.h *)

ScopeMatchesClient(hostConnection, client) ==
    IF hostConnection THEN client = 0 ELSE client > 0

EmptySlot == [uid |-> NoUid, signon |-> 0, ready |-> kPersistenceNotReady,
              buffer |-> Placeholder]
IsFake(slot) == slot.signon > 0 /\ slot.uid = NoUid

MatchingSlots(sl, uid, hostConnection) ==
    {c \in Clients : /\ ScopeMatchesClient(hostConnection, c)
                     /\ sl[c].uid = uid
                     /\ ~IsFake(sl[c])
                     /\ sl[c].signon >= 1}

(* A selection that does not skip slots which own a save already.          *)
LowestMatchingSlots(sl, uid, hostConnection) == MatchingSlots(sl, uid, hostConnection)

(* SelectSlot: the lowest matching slot that owns no save, else the lowest *)
(* matching one.                                                           *)
PreferredSlots(sl, uid, hostConnection) ==
    LET matching == MatchingSlots(sl, uid, hostConnection)
        unowned == {c \in matching : ~saves[c].installed}
    IN IF unowned # {} THEN unowned ELSE matching

IsSelectedSlot(c, sl, uid, hostConnection) ==
    LET preferred == PreferredSlots(sl, uid, hostConnection)
    IN c \in preferred /\ \A d \in preferred : c <= d

-----------------------------------------------------------------------------
(* Installing a save *)

(* An install that leaves the marker of an earlier session behind.         *)
InstallKeepingMarker(save, uid, p) ==
    [save EXCEPT !.installed = TRUE, !.uid = uid, !.pdata = p, !.trailing = p.tail]

(* An install that leaves the trailing bytes of an earlier session behind. *)
InstallKeepingTail(save, uid, p) ==
    [save EXCEPT !.installed = TRUE, !.uid = uid, !.pdata = p, !.queued = NoPdata]

InstallRemoteSave(save, uid, p) ==
    [save EXCEPT !.installed = TRUE, !.uid = uid, !.pdata = p,
                 !.queued = NoPdata, !.trailing = p.tail]

RemoteReady(slot, p) ==
    [slot EXCEPT !.ready = kPersistenceReadyRemote, !.buffer = InstalledBuffer(p)]

NoSave == [installed |-> FALSE, uid |-> NoUid, pdata |-> NoPdata,
           queued |-> NoPdata, trailing |-> NoTail]

PendingEntry(uid, hostConnection, p) ==
    [uid |-> uid, hostConnection |-> hostConnection, pdata |-> p]

HasKey(entry, uid, hostConnection) ==
    entry.uid = uid /\ entry.hostConnection = hostConnection

(* KeepPendingPdata: one entry per account and scope, the oldest dropped   *)
(* at the cap.                                                             *)
KeepPendingPdata(queue, uid, hostConnection, p) ==
    IF \E i \in DOMAIN queue : HasKey(queue[i], uid, hostConnection)
    THEN [i \in DOMAIN queue |->
            IF HasKey(queue[i], uid, hostConnection)
            THEN PendingEntry(uid, hostConnection, p) ELSE queue[i]]
    ELSE LET longer == Append(queue, PendingEntry(uid, hostConnection, p))
         IN IF Len(longer) > MaxPending THEN Tail(longer) ELSE longer

(* The entry TakeRemotePdata finds for a client: its account, and the      *)
(* scope its slot is in.                                                   *)
PendingFor(client) ==
    {i \in DOMAIN pending : /\ pending[i].uid = slots[client].uid
                            /\ ScopeMatchesClient(pending[i].hostConnection, client)}

Without(queue, i) == SubSeq(queue, 1, i - 1) \o SubSeq(queue, i + 1, Len(queue))

-----------------------------------------------------------------------------
(* Writing a save back *)

SamePlayer(client) ==
    /\ slots[client].ready = kPersistenceReadyRemote
    /\ slots[client].uid = saves[client].uid

Export(client) == ExportToPc(slots[client].buffer, saves[client].trailing)

Submits(client) ==
    /\ saves[client].installed
    /\ SamePlayer(client)
    /\ Export(client) # NoPdata
    /\ ClassifyWrite(saves[client].pdata, saves[client].queued, Export(client)) = "Queue"

(* The slot's save after WriteRemoteSave; `started' says whether a write   *)
(* thread was started for it.                                              *)
SaveAfterWrite(client, keep, started) ==
    LET save == saves[client]
    IN IF ~save.installed THEN save
       ELSE IF ~SamePlayer(client) THEN [save EXCEPT !.installed = FALSE]
       ELSE [save EXCEPT
               !.queued = IF ~Submits(client) THEN @
                          ELSE IF started THEN Export(client) ELSE NoPdata,
               !.installed = keep,
               !.pdata = IF keep THEN @ ELSE NoPdata]

PdataWrite(client) ==
    [id |-> <<client, issued[client] + 1>>, client |-> client, uid |-> saves[client].uid,
     pdata |-> Export(client), stage |-> "sent"]

(* WriteRemoteSave for each of `clients'.  No thread is started when       *)
(* ns_ps4_write_remote_persistence is 0 or the thread cannot be created.   *)
WriteRemoteSave(clients, keep) ==
    \E started \in SUBSET {c \in clients : Submits(c) /\ issued[c] < MaxWrites} :
        /\ saves' = [c \in Clients |-> IF c \in clients
                                       THEN SaveAfterWrite(c, keep, c \in started)
                                       ELSE saves[c]]
        /\ writes' = writes \cup {PdataWrite(c) : c \in started}
        /\ issued' = [c \in Clients |-> IF c \in started THEN issued[c] + 1 ELSE issued[c]]

-----------------------------------------------------------------------------
(* The game thread *)

NotInHook == [busy |-> FALSE, client |-> 0, uid |-> NoUid, pdata |-> NoPdata]

(* What the engine's own handler of a connect request may do: leave the    *)
(* slots alone (it refused the request, or knows the client already) or    *)
(* connect the client into a free slot.                                    *)
EngineConnects(uid, clients) ==
    {[slots EXCEPT ![c] = [EmptySlot EXCEPT !.uid = uid, !.signon = kSignonConnected]] :
        c \in {d \in clients : /\ slots[d].signon = 0
                               /\ d = 0 => uid \in HostUids
                               /\ AllowDuplicates \/ \A e \in Clients : slots[e].uid # uid}}

(* InstallRemoteSaveAtConnect on the slots the engine left, and            *)
(* KeepPendingPdata when no slot could be found for the save.              *)
InstallRemoteSaveAtConnect(sl, uid, hostConnection, p) ==
    \/ \E c \in Clients :
          /\ CanInstall(p)
          /\ IsSelectedSlot(c, sl, uid, hostConnection)
          /\ slots' = [sl EXCEPT ![c] = RemoteReady(@, p)]
          /\ saves' = [saves EXCEPT ![c] = InstallRemoteSave(@, uid, p)]
          /\ UNCHANGED pending
    \/ /\ ~CanInstall(p) \/ MatchingSlots(sl, uid, hostConnection) = {}
       /\ slots' = sl
       /\ pending' = KeepPendingPdata(pending, uid, hostConnection, p)
       /\ UNCHANGED <<saves>>

(* RuntimeConnectionlessPacket, a connect request whose uid and token      *)
(* match a record.                                                         *)
ConnectRequest(uid, hostConnection) ==
    LET scope == {c \in Clients : ScopeMatchesClient(hostConnection, c)}
    IN /\ ~hook.busy
       /\ offers[uid][hostConnection] # NoPdata
       /\ \E sl \in {slots} \cup EngineConnects(uid, scope) :
             InstallRemoteSaveAtConnect(sl, uid, hostConnection, offers[uid][hostConnection])
       /\ UNCHANGED <<hook, writes, issued, offers, atlas, known>>

(* The same for a client with no matching record.                          *)
ConnectWithoutRecord(uid) ==
    /\ ~hook.busy
    /\ slots' \in EngineConnects(uid, Clients)
    /\ UNCHANGED <<saves, pending, hook, writes, issued, offers, atlas, known>>

(* A bot takes a slot: uid 0, fully connected at once.                     *)
BotJoins(client) ==
    /\ ~hook.busy
    /\ client > 0 /\ slots[client].signon = 0
    /\ slots' = [slots EXCEPT ![client].signon = kSignonStateFull]
    /\ UNCHANGED <<saves, pending, hook, writes, issued, offers, atlas, known>>

SignonFull(client) ==
    /\ ~hook.busy
    /\ slots[client].signon = kSignonConnected
    /\ slots' = [slots EXCEPT ![client].signon = kSignonStateFull]
    /\ UNCHANGED <<saves, pending, hook, writes, issued, offers, atlas, known>>

(* The engine resets a connected player's slot; the save stays installed.  *)
EngineResetsSlot(client) ==
    /\ ~hook.busy
    /\ slots[client].uid # NoUid
    /\ \E buffer \in {slots[client].buffer, Placeholder} :
          slots' = [slots EXCEPT ![client].signon = kSignonConnected,
                                 ![client].ready = kPersistenceNotReady,
                                 ![client].buffer = buffer]
    /\ UNCHANGED <<saves, pending, hook, writes, issued, offers, atlas, known>>

(* The player's progress: scripts change the save in the buffer.           *)
Play(client) ==
    /\ ~hook.busy
    /\ slots[client].signon = kSignonStateFull
    /\ slots[client].ready = kPersistenceReadyRemote
    /\ slots[client].buffer # Placeholder
    /\ \E v \in Versions \ {slots[client].buffer.ver} :
          slots' = [slots EXCEPT ![client].buffer.ver = v]
    /\ UNCHANGED <<saves, pending, hook, writes, issued, offers, atlas, known>>

(* Something else writes the buffer: it no longer holds a layout-231 save. *)
BufferReplaced(client) ==
    /\ ~hook.busy
    /\ slots[client].signon = kSignonStateFull
    /\ slots' = [slots EXCEPT ![client].buffer = Placeholder]
    /\ UNCHANGED <<saves, pending, hook, writes, issued, offers, atlas, known>>

(* The engine asks whether a fully connected client's persistence is ready *)
(* (RuntimePersistenceAvailable), and it is not yet.                       *)
AsksPersistence(client) ==
    /\ ~hook.busy
    /\ slots[client].signon = kSignonStateFull
    /\ slots[client].ready < kPersistenceReadyInsecure

OwnsSave(client) ==
    /\ ~IsFake(slots[client])
    /\ saves[client].installed
    /\ saves[client].uid = slots[client].uid

(* A save installed at connect, but the engine reset the slot since: its   *)
(* pdata is copied under the lock ...                                      *)
ReadInstalledSave(client) ==
    /\ AsksPersistence(client)
    /\ OwnsSave(client)
    /\ hook' = [busy |-> TRUE, client |-> client, uid |-> slots[client].uid,
                pdata |-> saves[client].pdata]
    /\ UNCHANGED <<slots, saves, pending, writes, issued, offers, atlas, known>>

(* ... and installed again after the lock was released and taken again.    *)
InstallSaveAgain ==
    /\ hook.busy
    /\ slots' = [slots EXCEPT ![hook.client] = RemoteReady(@, hook.pdata)]
    /\ saves' = [saves EXCEPT ![hook.client] = InstallRemoteSave(@, hook.uid, hook.pdata)]
    /\ hook' = NotInHook
    /\ UNCHANGED <<pending, writes, issued, offers, atlas, known>>

MarkInsecure(client) ==
    /\ slots' = [slots EXCEPT ![client].ready = kPersistenceReadyInsecure]
    /\ saves' = [saves EXCEPT ![client].installed = FALSE, ![client].queued = NoPdata]

(* Pdata that found no slot at connect is taken now (TakeRemotePdata).     *)
InstallPendingSave(client) ==
    /\ AsksPersistence(client)
    /\ ~OwnsSave(client) /\ ~IsFake(slots[client])
    /\ \E i \in PendingFor(client) :
          LET p == pending[i].pdata
          IN /\ pending' = Without(pending, i)
             /\ IF CanInstall(p)
                THEN /\ slots' = [slots EXCEPT ![client] = RemoteReady(@, p)]
                     /\ saves' = [saves EXCEPT ![client] =
                                    InstallRemoteSave(@, slots[client].uid, p)]
                ELSE MarkInsecure(client)
    /\ UNCHANGED <<hook, writes, issued, offers, atlas, known>>

PlayWithoutSave(client) ==
    /\ AsksPersistence(client)
    /\ ~OwnsSave(client)
    /\ IsFake(slots[client]) \/ PendingFor(client) = {}
    /\ MarkInsecure(client)
    /\ UNCHANGED <<pending, hook, writes, issued, offers, atlas, known>>

(* NSEarlyWritePlayerPersistenceForLeave: written, and the player stays.   *)
EarlyWrite(client) ==
    /\ ~hook.busy
    /\ WriteRemoteSave({client}, TRUE)
    /\ UNCHANGED <<slots, pending, hook, offers, atlas, known>>

(* WriteAllRemoteSaves, when the server VM of the next map is created.     *)
MapChange ==
    /\ ~hook.busy
    /\ WriteRemoteSave(Clients, TRUE)
    /\ UNCHANGED <<slots, pending, hook, offers, atlas, known>>

(* CBaseClient::Disconnect: the hook writes the save, then the engine      *)
(* frees the slot.                                                         *)
Disconnect(client) ==
    /\ ~hook.busy
    /\ slots[client].signon > 0
    /\ WriteRemoteSave({client}, FALSE)
    /\ slots' = [slots EXCEPT ![client] = EmptySlot]
    /\ UNCHANGED <<pending, hook, offers, atlas, known>>

-----------------------------------------------------------------------------
(* Atlas and the request threads *)

(* A connect record is made for the player: the self-auth or /server/connect *)
(* request returns the save Atlas holds now.                               *)
FetchSave(uid, hostConnection) ==
    /\ hostConnection => uid \in HostUids
    /\ offers' = [offers EXCEPT ![uid][hostConnection] = atlas[uid]]
    /\ known' = known \cup {atlas[uid]}
    /\ UNCHANGED <<slots, saves, pending, hook, writes, issued, atlas>>

AtStage(w, stage) == (writes \ {w}) \cup {[w EXCEPT !.stage = stage]}

(* Atlas stores the pdata of a write ...                                   *)
AtlasStores(w) ==
    /\ w.stage = "sent"
    /\ atlas' = [atlas EXCEPT ![w.uid] = w.pdata]
    /\ writes' = AtStage(w, "stored")
    /\ UNCHANGED <<slots, saves, pending, hook, issued, offers, known>>

(* ... or refuses it, or never receives it.                                *)
AtlasDoesNotStore(w) ==
    /\ w.stage = "sent"
    /\ writes' = AtStage(w, "lost")
    /\ UNCHANGED <<slots, saves, pending, hook, issued, offers, atlas, known>>

(* RemotePdataWriteCompleted: `accepted' is a 2xx answer, and an answer    *)
(* may be lost although Atlas stored the save.                             *)
WriteCompletes(w, accepted) ==
    LET c == w.client
        ownSave == saves[c].installed /\ saves[c].uid = w.uid
    IN /\ \/ w.stage = "stored"
          \/ w.stage = "lost" /\ ~accepted
       /\ saves' = IF ownSave
                   THEN [saves EXCEPT ![c] = CompleteWrite(@, w.pdata, accepted)]
                   ELSE saves
       /\ known' = IF accepted THEN known \cup {w.pdata} ELSE known
       /\ writes' = writes \ {w}
       /\ UNCHANGED <<slots, pending, hook, issued, offers, atlas>>

(* NSIsWritingPlayerPersistence (RemotePdataWriting).                      *)
RemotePdataWriting == writes # {}

-----------------------------------------------------------------------------
Init ==
    /\ slots = [c \in Clients |-> EmptySlot]
    /\ saves = [c \in Clients |-> NoSave]
    /\ pending = <<>>
    /\ hook = NotInHook
    /\ writes = {}
    /\ issued = [c \in Clients |-> 0]
    /\ offers = [u \in Uids |-> [h \in BOOLEAN |-> NoPdata]]
    /\ atlas \in [Uids -> {p \in Pdata : p.owner = p.tail}]
    /\ \A u \in Uids : atlas[u].owner = u
    /\ known = {}

GameThread ==
    \/ \E u \in Uids, h \in BOOLEAN : ConnectRequest(u, h)
    \/ \E u \in Uids : ConnectWithoutRecord(u)
    \/ \E c \in Clients : BotJoins(c)
    \/ \E c \in Clients : SignonFull(c)
    \/ \E c \in Clients : EngineResetsSlot(c)
    \/ \E c \in Clients : Play(c)
    \/ \E c \in Clients : BufferReplaced(c)
    \/ \E c \in Clients : ReadInstalledSave(c)
    \/ InstallSaveAgain
    \/ \E c \in Clients : InstallPendingSave(c)
    \/ \E c \in Clients : PlayWithoutSave(c)
    \/ \E c \in Clients : EarlyWrite(c)
    \/ MapChange
    \/ \E c \in Clients : Disconnect(c)

RequestThreads ==
    \/ \E u \in Uids, h \in BOOLEAN : FetchSave(u, h)
    \/ \E w \in writes : AtlasStores(w)
    \/ \E w \in writes : AtlasDoesNotStore(w)
    \/ \E w \in writes, accepted \in BOOLEAN : WriteCompletes(w, accepted)

Next == GameThread \/ RequestThreads

(* Every write thread runs to its end: its request is answered or times    *)
(* out.  Players, the engine and Atlas's accounts owe nothing.             *)
WriteThreadSteps(id) ==
    \E w \in writes :
        /\ w.id = id
        /\ \/ AtlasStores(w) \/ AtlasDoesNotStore(w)
           \/ \E accepted \in BOOLEAN : WriteCompletes(w, accepted)

Fairness == \A c \in Clients, n \in 1 .. MaxWrites : WF_vars(WriteThreadSteps(<<c, n>>))

Spec == Init /\ [][Next]_vars /\ Fairness

-----------------------------------------------------------------------------
(* Types *)

Saves == [installed : BOOLEAN, uid : Uids \cup {NoUid}, pdata : Pdata \cup {NoPdata},
          queued : Pdata \cup {NoPdata}, trailing : Uids \cup {NoUid}]
Slots == [uid : Uids \cup {NoUid}, signon : {0, kSignonConnected, kSignonStateFull},
          ready : {kPersistenceNotReady, kPersistenceReadyInsecure, kPersistenceReadyRemote},
          buffer : Buffers \cup {Placeholder}]
PendingEntries == [uid : Uids, hostConnection : BOOLEAN, pdata : Pdata]
Writes == [id : Clients \X Nat, client : Clients, uid : Uids, pdata : Pdata,
           stage : {"sent", "stored", "lost"}]
Hooks == [busy : BOOLEAN, client : Clients, uid : Uids \cup {NoUid},
          pdata : Pdata \cup {NoPdata}]

(* Every variable keeps its shape: slots and saves are indexed by client,  *)
(* and each write in flight names a client and an account.                 *)
TypeOK ==
    /\ slots \in [Clients -> Slots]
    /\ saves \in [Clients -> Saves]
    /\ pending \in Seq(PendingEntries)
    /\ hook \in Hooks
    /\ writes \subseteq Writes
    /\ issued \in [Clients -> Nat]
    /\ offers \in [Uids -> [BOOLEAN -> Pdata \cup {NoPdata}]]
    /\ atlas \in [Uids -> Pdata]
    /\ known \subseteq Pdata

-----------------------------------------------------------------------------
(* Safety *)

Belongs(p, uid) == p.owner = uid /\ p.tail = uid

(* No player's data goes to another's account: an installed save and every *)
(* write to Atlas, structure and trailing bytes alike, belong to the       *)
(* account they are for, whatever slots were reused and whatever write     *)
(* threads of earlier sessions still run (WriteRemoteSave's samePlayer,    *)
(* InstallRemoteSave).                                                     *)
OwnAccountOnly ==
    /\ \A w \in writes : Belongs(w.pdata, w.uid)
    /\ \A c \in Clients : saves[c].installed => Belongs(saves[c].pdata, saves[c].uid)

(* A "write already in flight" is never a stale marker: while a save is    *)
(* installed, its queued snapshot is carried by a write thread that will   *)
(* complete it, so skipping a write as AlreadyQueued loses nothing.        *)
QueuedIsInFlight ==
    \A c \in Clients : saves[c].installed /\ saves[c].queued # NoPdata =>
        \E w \in writes : /\ w.client = c /\ w.uid = saves[c].uid
                          /\ w.pdata = saves[c].queued

(* The clean baseline that "Unchanged" compares with is a version Atlas    *)
(* itself served or acknowledged, never one whose write failed.            *)
BaselineKnown ==
    \A c \in Clients : saves[c].installed => saves[c].pdata \in known

(* A completion moves the baseline only to the newest submitted snapshot:  *)
(* an older request finishing after a newer one changes nothing            *)
(* (CompleteWrite).                                                        *)
BaselineMovesToQueued ==
    \A c \in Clients :
        (/\ saves[c].installed /\ saves'[c].installed
         /\ saves'[c].pdata # saves[c].pdata
         /\ writes' # writes)
        => saves'[c].pdata = saves[c].queued
NewestSnapshotOnly == [][BaselineMovesToQueued]_vars

(* A new connection never disturbs a save another slot owns, nor the live  *)
(* buffer of that slot: among connections with one account the new one's   *)
(* save goes to a slot without a save (SelectSlot's first pass).           *)
NewConnectionLeavesOwners ==
    [][\A c, d \in Clients :
          (/\ slots[c].signon = 0 /\ slots'[c].signon = kSignonConnected
           /\ saves[d].installed)
          => saves'[d] = saves[d] /\ (d # c => slots'[d] = slots[d])]_vars

(* A queued snapshot is always decided: its write is acknowledged, fails   *)
(* or gives way to another, so the save does not stay marked as being      *)
(* written (RemotePdataWriteCompleted).                                    *)
MarkerClears ==
    \A c \in Clients : \A p \in Pdata :
        (saves[c].installed /\ saves[c].queued = p) ~>
            ~(saves[c].installed /\ saves[c].queued = p)

(* Every behaviour keeps the custody of saves that SaveCustody promises.   *)
SaveHolder == [c \in Clients |-> IF saves[c].installed THEN saves[c].uid ELSE NoUid]
UndecidedWrites == {w \in writes : w.stage = "sent"}
Custody == INSTANCE SaveCustody WITH holder <- SaveHolder, inFlight <- UndecidedWrites
CustodyKept == Custody!Spec

-----------------------------------------------------------------------------
(* A claim of the sources that the code does not keep *)

(* "Only what changed since the save was received or last written"         *)
(* (runtime_persistence.inl:280), of a save changed back while a write is  *)
(* under way: what differs from the version last submitted is submitted.   *)
LastWritten(save) == IF save.queued # NoPdata THEN save.queued ELSE save.pdata
ChangedIsSubmitted ==
    \A c \in Clients :
        saves[c].installed /\ SamePlayer(c) /\ Export(c) \notin {NoPdata, LastWritten(saves[c])}
        => Submits(c)

=============================================================================
