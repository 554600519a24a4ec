-------------------------- MODULE RemoteSavesProofs --------------------------
(***************************************************************************)
(* Proofs about RemoteSaves, for every set of accounts, slots and save     *)
(* contents.                                                               *)
(*                                                                         *)
(* TypeOK is not inductive alone: a write has its type only because the    *)
(* buffer it was exported from and the trailing bytes belong to the slot's *)
(* player.  Inv adds who owns each copy of a save on its way from Atlas    *)
(* into a slot and back, and that what is copied was served or             *)
(* acknowledged by Atlas.                                                  *)
(* From it follow the steps: the in-flight marker is never stale, the      *)
(* baseline only moves to the newest snapshot, and RemoteSaves implements  *)
(* SaveCustody.                                                            *)
(***************************************************************************)
EXTENDS RemoteSaves, SequenceTheorems, TLAPS

-----------------------------------------------------------------------------
(* The inductive invariant                                                 *)

(* A copy that Atlas served or acknowledged for an account.                *)
Served(p, uid) == Belongs(p, uid) /\ p \in known

(* An installed save is the slot's player's.                               *)
SaveOwned(c) ==
    saves[c].installed =>
        /\ slots[c].signon # 0
        /\ saves[c].uid \in Uids
        /\ saves[c].uid = slots[c].uid
        /\ Served(saves[c].pdata, saves[c].uid)
        /\ saves[c].trailing = saves[c].uid

(* A slot marked READY_REMOTE has a save installed, and its buffer holds   *)
(* that player's data or none.                                             *)
BufferOwned(c) ==
    slots[c].ready = kPersistenceReadyRemote =>
        /\ saves[c].installed
        /\ slots[c].buffer.owner \in {NoUid, slots[c].uid}

(* The copy the game thread carries from one lock section to the next.     *)
HookOwned ==
    hook.busy =>
        /\ hook.uid \in Uids
        /\ hook.uid = slots[hook.client].uid
        /\ slots[hook.client].signon # 0
        /\ Served(hook.pdata, hook.uid)

PendingOwned == \A i \in DOMAIN pending : Served(pending[i].pdata, pending[i].uid)

OffersOwned ==
    \A u \in Uids, h \in BOOLEAN : offers[u][h] # NoPdata => Served(offers[u][h], u)

AtlasOwned == \A u \in Uids : Belongs(atlas[u], u)

WritesOwned == \A w \in writes : Belongs(w.pdata, w.uid)

Owned ==
    /\ \A c \in Clients : SaveOwned(c)
    /\ \A c \in Clients : BufferOwned(c)
    /\ HookOwned
    /\ PendingOwned
    /\ OffersOwned
    /\ AtlasOwned
    /\ WritesOwned

Inv == TypeOK /\ Owned

-----------------------------------------------------------------------------
(* Operators the actions are built from                                    *)

(* The empty pdata is no save: uid 0 is no account.                        *)
LEMMA NoPdataIsNoSave == NoPdata \notin Pdata
  BY UidsAssumption DEF NoPdata, Pdata

(* What is exported from the buffer of a slot that still holds the player  *)
(* of its save is a save of that player.                                   *)
LEMMA ExportIsOwn ==
  ASSUME Inv, NEW c \in Clients, saves[c].installed, SamePlayer(c), Export(c) # NoPdata
  PROVE  /\ Export(c) \in Pdata
         /\ Belongs(Export(c), saves[c].uid)
         /\ saves[c].uid \in Uids
  <1>1. /\ slots[c] \in Slots /\ saves[c] \in Saves
        /\ SaveOwned(c) /\ BufferOwned(c)
    BY DEF Inv, TypeOK, Owned
  <1>2. slots[c].buffer.ver \in Versions
    BY DEF Export, ExportToPc
  <1>3. /\ slots[c].buffer \in Buffers
        /\ slots[c].buffer.owner = saves[c].uid
        /\ saves[c].trailing = saves[c].uid
        /\ saves[c].uid \in Uids
    BY <1>1, <1>2, VersionsAssumption, UidsAssumption
       DEF Slots, Buffers, Placeholder, SaveOwned, BufferOwned, SamePlayer
  <1>4. Export(c) = [owner |-> saves[c].uid, ver |-> slots[c].buffer.ver, tail |-> saves[c].uid]
    BY <1>2, <1>3 DEF Export, ExportToPc
  <1>. QED
    BY <1>2, <1>3, <1>4 DEF Pdata, Contents, Belongs

(* The save record after an install.                                       *)
LEMMA InstallGives ==
  ASSUME NEW save \in Saves, NEW uid \in Uids, NEW p \in Pdata
  PROVE  /\ InstallRemoteSave(save, uid, p) \in Saves
         /\ InstallRemoteSave(save, uid, p).installed
         /\ InstallRemoteSave(save, uid, p).uid = uid
         /\ InstallRemoteSave(save, uid, p).pdata = p
         /\ InstallRemoteSave(save, uid, p).queued = NoPdata
         /\ InstallRemoteSave(save, uid, p).trailing = p.tail
  BY DEF InstallRemoteSave, Saves, Pdata

(* A slot after an install keeps its player.                               *)
LEMMA RemoteReadyGives ==
  ASSUME NEW slot \in Slots, NEW p \in Pdata
  PROVE  /\ RemoteReady(slot, p) \in Slots
         /\ RemoteReady(slot, p).uid = slot.uid
         /\ RemoteReady(slot, p).signon = slot.signon
         /\ RemoteReady(slot, p).ready = kPersistenceReadyRemote
         /\ RemoteReady(slot, p).buffer.owner = p.owner
  BY DEF RemoteReady, Slots, InstalledBuffer, Buffers, Pdata

(* KeepPendingPdata keeps a sequence of entries, each an entry it was      *)
(* given or one it had.                                                    *)
LEMMA KeepPendingGives ==
  ASSUME NEW queue \in Seq(PendingEntries), NEW uid \in Uids, NEW h \in BOOLEAN, NEW p \in Pdata
  PROVE  LET kept == KeepPendingPdata(queue, uid, h, p)
         IN /\ kept \in Seq(PendingEntries)
            /\ \A i \in DOMAIN kept : \/ kept[i] = PendingEntry(uid, h, p)
                                      \/ \E j \in DOMAIN queue : kept[i] = queue[j]
  <1>. DEFINE entry == PendingEntry(uid, h, p)
              longer == Append(queue, entry)
              replaced == [i \in DOMAIN queue |-> IF HasKey(queue[i], uid, h) THEN entry ELSE queue[i]]
  <1>1. entry \in PendingEntries
    BY DEF PendingEntry, PendingEntries
  <1>2. CASE \E i \in DOMAIN queue : HasKey(queue[i], uid, h)
    <2>1. KeepPendingPdata(queue, uid, h, p) = replaced
      BY <1>2 DEF KeepPendingPdata
    <2>2. /\ DOMAIN replaced = 1 .. Len(queue)
          /\ \A i \in 1 .. Len(queue) : replaced[i] = entry \/ replaced[i] = queue[i]
      OBVIOUS
    <2>3. replaced \in Seq(PendingEntries)
      <3>1. \A i \in 1 .. Len(queue) : replaced[i] \in PendingEntries
        BY <1>1, <2>2
      <3>2. replaced \in [1 .. Len(queue) -> PendingEntries]
        BY <2>2, <3>1
      <3>. QED
        BY <3>2, SeqDef
    <2>. QED
      BY <2>1, <2>2, <2>3
  <1>3. CASE ~ \E i \in DOMAIN queue : HasKey(queue[i], uid, h)
    <2>1. /\ longer \in Seq(PendingEntries) /\ Len(longer) = Len(queue) + 1
          /\ \A i \in 1 .. Len(queue) + 1 : longer[i] = IF i <= Len(queue) THEN queue[i] ELSE entry
      BY <1>1
    <2>2. /\ Tail(longer) \in Seq(PendingEntries) /\ Len(Tail(longer)) = Len(queue)
          /\ \A i \in 1 .. Len(queue) : Tail(longer)[i] = longer[i + 1]
      <3>. HIDE DEF longer
      <3>1. Len(queue) \in Nat
        OBVIOUS
      <3>2. longer # << >>
        BY <2>1, <3>1
      <3>3. /\ Tail(longer) \in Seq(PendingEntries)
            /\ Len(Tail(longer)) = Len(longer) - 1
            /\ \A i \in 1 .. Len(Tail(longer)) : Tail(longer)[i] = longer[i + 1]
        BY <2>1, <3>2, HeadTailProperties
      <3>. QED
        BY <2>1, <3>1, <3>3
    <2>3. KeepPendingPdata(queue, uid, h, p) = IF Len(longer) > MaxPending THEN Tail(longer) ELSE longer
      BY <1>3 DEF KeepPendingPdata
    <2>4. CASE Len(longer) > MaxPending
      <3>1. \A i \in DOMAIN Tail(longer) : i \in Nat /\ i + 1 \in 1 .. Len(queue) + 1
        BY <2>2
      <3>. QED
        BY <2>1, <2>2, <2>3, <2>4, <3>1
    <2>5. CASE ~(Len(longer) > MaxPending)
      BY <2>1, <2>3, <2>5
    <2>. QED
      BY <2>4, <2>5
  <1>. QED
    BY <1>2, <1>3

(* Taking one entry out leaves a sequence of the others.                   *)
LEMMA WithoutGives ==
  ASSUME NEW queue \in Seq(PendingEntries), NEW i \in DOMAIN queue
  PROVE  /\ Without(queue, i) \in Seq(PendingEntries)
         /\ \A j \in DOMAIN Without(queue, i) :
               \E k \in DOMAIN queue : Without(queue, i)[j] = queue[k]
  <1>. DEFINE before == SubSeq(queue, 1, i - 1)
              after == SubSeq(queue, i + 1, Len(queue))
  <1>1. i \in 1 .. Len(queue) /\ Len(queue) \in Nat /\ DOMAIN queue = 1 .. Len(queue)
    OBVIOUS
  <1>2. /\ before \in Seq(PendingEntries) /\ Len(before) = i - 1
        /\ \A j \in 1 .. i - 1 : before[j] = queue[j]
    BY <1>1
  <1>3. /\ after \in Seq(PendingEntries) /\ Len(after) = Len(queue) - i
        /\ \A j \in 1 .. Len(queue) - i : after[j] = queue[i + j]
    BY <1>1
  <1>. HIDE DEF before, after
  <1>4. /\ before \o after \in Seq(PendingEntries)
        /\ Len(before \o after) = Len(queue) - 1
        /\ \A j \in 1 .. Len(queue) - 1 :
              (before \o after)[j] = IF j <= i - 1 THEN before[j] ELSE after[j - (i - 1)]
    <2>1. /\ before \o after \in Seq(PendingEntries)
          /\ Len(before \o after) = Len(before) + Len(after)
          /\ \A j \in 1 .. Len(before) + Len(after) :
                (before \o after)[j] = IF j <= Len(before) THEN before[j] ELSE after[j - Len(before)]
      BY <1>2, <1>3, ConcatProperties
    <2>2. Len(before) + Len(after) = Len(queue) - 1
      BY <1>1, <1>2, <1>3
    <2>. QED
      BY <1>2, <2>1, <2>2
  <1>5. \A j \in 1 .. Len(queue) - 1 : \E k \in 1 .. Len(queue) : (before \o after)[j] = queue[k]
    <2>1. TAKE j \in 1 .. Len(queue) - 1
    <2>2. CASE j <= i - 1
      BY <1>1, <1>2, <1>4, <2>2
    <2>3. CASE ~(j <= i - 1)
      <3>1. j - (i - 1) \in 1 .. Len(queue) - i /\ i + (j - (i - 1)) = j + 1 /\ j + 1 \in 1 .. Len(queue)
        BY <1>1, <2>3
      <3>. QED
        BY <1>3, <1>4, <2>3, <3>1
    <2>. QED
      BY <2>2, <2>3
  <1>. QED
    <2>1. Without(queue, i) = before \o after
      BY DEF Without, before, after
    <2>2. DOMAIN (before \o after) = 1 .. Len(queue) - 1
      BY <1>4
    <2>. QED
      BY <1>1, <1>4, <1>5, <2>1, <2>2

-----------------------------------------------------------------------------
(* What the shared parts of the actions do to slots and saves              *)

(* A connect request leaves the slots alone or gives the player a slot     *)
(* that was free, which owns no save.                                      *)
LEMMA ConnectGives ==
  ASSUME Inv, NEW uid \in Uids, NEW clients \in SUBSET Clients,
         NEW sl \in {slots} \cup EngineConnects(uid, clients)
  PROVE  /\ sl \in [Clients -> Slots]
         /\ \A d \in Clients : saves[d].installed => sl[d].uid = slots[d].uid /\ sl[d].signon # 0
         /\ \A d \in Clients : sl[d].ready = kPersistenceReadyRemote => sl[d] = slots[d]
  <1>1. /\ slots \in [Clients -> Slots]
        /\ \A d \in Clients : SaveOwned(d)
    BY DEF Inv, TypeOK, Owned
  <1>2. CASE sl = slots
    BY <1>1, <1>2 DEF SaveOwned
  <1>3. CASE sl \in EngineConnects(uid, clients)
    <2>. DEFINE connected == [EmptySlot EXCEPT !.uid = uid, !.signon = kSignonConnected]
    <2>1. PICK c \in Clients : slots[c].signon = 0 /\ sl = [slots EXCEPT ![c] = connected]
      BY <1>3 DEF EngineConnects
    <2>2. connected \in Slots /\ connected.ready # kPersistenceReadyRemote
      <3>1. EmptySlot \in Slots /\ EmptySlot.ready # kPersistenceReadyRemote
        BY DEF Slots, EmptySlot, kPersistenceReadyRemote, kPersistenceNotReady
      <3>. QED
        BY <3>1 DEF Slots
    <2>3. ~saves[c].installed
      BY <1>1, <2>1 DEF SaveOwned
    <2>. HIDE DEF connected
    <2>4. \A d \in Clients : sl[d] = IF d = c THEN connected ELSE slots[d]
      BY <1>1, <2>1
    <2>. QED
      BY <1>1, <2>1, <2>2, <2>3, <2>4 DEF SaveOwned
  <1>. QED
    BY <1>2, <1>3

(* A save of the slot's player goes into a slot.                           *)
LEMMA InstallPreserves ==
  ASSUME Inv, NEW c \in Clients, NEW uid \in Uids, NEW p \in Pdata,
         NEW sl \in [Clients -> Slots],
         \A d \in Clients : saves[d].installed => sl[d].uid = slots[d].uid /\ sl[d].signon # 0,
         \A d \in Clients : sl[d].ready = kPersistenceReadyRemote => sl[d] = slots[d],
         sl[c].uid = uid, sl[c].signon # 0, Served(p, uid),
         slots' = [sl EXCEPT ![c] = RemoteReady(@, p)],
         saves' = [saves EXCEPT ![c] = InstallRemoteSave(@, uid, p)],
         known' = known
  PROVE  /\ (slots \in [Clients -> Slots])'
         /\ (saves \in [Clients -> Saves])'
         /\ \A d \in Clients : SaveOwned(d)' /\ BufferOwned(d)'
  <1>. DEFINE slot == RemoteReady(sl[c], p)
              save == InstallRemoteSave(saves[c], uid, p)
  <1>1. /\ saves \in [Clients -> Saves]
        /\ \A d \in Clients : SaveOwned(d) /\ BufferOwned(d)
    BY DEF Inv, TypeOK, Owned
  <1>2. /\ slot \in Slots /\ slot.uid = uid /\ slot.signon # 0 /\ slot.buffer.owner = p.owner
    BY RemoteReadyGives
  <1>3. /\ save \in Saves /\ save.installed /\ save.uid = uid /\ save.pdata = p
        /\ save.trailing = p.tail
    BY <1>1, InstallGives
  <1>4. /\ slots' = [sl EXCEPT ![c] = slot] /\ saves' = [saves EXCEPT ![c] = save]
    OBVIOUS
  <1>. HIDE DEF slot, save
  <1>5. \A d \in Clients : /\ slots'[d] = IF d = c THEN slot ELSE sl[d]
                           /\ saves'[d] = IF d = c THEN save ELSE saves[d]
    BY <1>1, <1>4
  <1>6. ASSUME NEW d \in Clients PROVE SaveOwned(d)' /\ BufferOwned(d)'
    <2>1. CASE d = c
      BY <1>2, <1>3, <1>5, <2>1 DEF SaveOwned, BufferOwned, Served, Belongs
    <2>2. CASE d # c
      BY <1>1, <1>5, <2>2 DEF SaveOwned, BufferOwned, Served
    <2>. QED
      BY <2>1, <2>2
  <1>. QED
    BY <1>1, <1>2, <1>3, <1>4, <1>6

(* The save of one slot after WriteRemoteSave.                             *)
LEMMA SaveAfterWriteGives ==
  ASSUME Inv, NEW c \in Clients, NEW keep \in BOOLEAN, NEW started \in BOOLEAN
  PROVE  LET after == SaveAfterWrite(c, keep, started)
         IN /\ after \in Saves
            /\ after.uid = saves[c].uid /\ after.trailing = saves[c].trailing
            /\ after.installed => saves[c].installed /\ keep /\ after.pdata = saves[c].pdata
            /\ saves[c].installed /\ SamePlayer(c) /\ keep => after.installed
            /\ after.installed /\ after.queued # NoPdata =>
                  \/ after.queued = saves[c].queued
                  \/ started /\ Submits(c) /\ after.queued = Export(c)
  <1>1. saves[c] \in Saves
    BY DEF Inv, TypeOK
  <1>2. CASE ~saves[c].installed
    BY <1>1, <1>2 DEF SaveAfterWrite
  <1>3. CASE saves[c].installed /\ ~SamePlayer(c)
    BY <1>1, <1>3 DEF SaveAfterWrite, Saves
  <1>4. CASE saves[c].installed /\ SamePlayer(c)
    <2>1. Submits(c) => Export(c) \in Pdata
      BY <1>4, ExportIsOwn DEF Submits
    <2>. DEFINE queued == IF ~Submits(c) THEN saves[c].queued
                          ELSE IF started THEN Export(c) ELSE NoPdata
                pdata == IF keep THEN saves[c].pdata ELSE NoPdata
    <2>2. SaveAfterWrite(c, keep, started)
            = [saves[c] EXCEPT !.queued = queued, !.installed = keep, !.pdata = pdata]
      BY <1>4 DEF SaveAfterWrite
    <2>3. queued \in Pdata \cup {NoPdata} /\ pdata \in Pdata \cup {NoPdata}
      BY <1>1, <2>1 DEF Saves
    <2>4. queued # NoPdata =>
            \/ queued = saves[c].queued
            \/ started /\ Submits(c) /\ queued = Export(c)
      OBVIOUS
    <2>5. keep => pdata = saves[c].pdata
      OBVIOUS
    <2>. HIDE DEF queued, pdata
    <2>. QED
      BY <1>1, <1>4, <2>2, <2>3, <2>4, <2>5 DEF Saves
  <1>. QED
    BY <1>2, <1>3, <1>4

(* WriteRemoteSave for some slots: every write started is of the slot's    *)
(* player, installed saves keep what they hold, and a leaving player's     *)
(* save is let go.                                                         *)
LEMMA WriteGives ==
  ASSUME Inv, NEW clients \in SUBSET Clients, NEW keep \in BOOLEAN,
         WriteRemoteSave(clients, keep)
  PROVE  /\ (saves \in [Clients -> Saves])'
         /\ (writes \subseteq Writes)'
         /\ (issued \in [Clients -> Nat])'
         /\ WritesOwned'
         /\ writes \subseteq writes'
         /\ \A w \in writes' \ writes :
               /\ w.client \in Clients /\ saves[w.client].installed
               /\ w.uid = saves[w.client].uid /\ w.stage = "sent"
         /\ \A c \in Clients :
               /\ saves'[c].uid = saves[c].uid /\ saves'[c].trailing = saves[c].trailing
               /\ saves'[c].installed =>
                     saves[c].installed /\ saves'[c].pdata = saves[c].pdata
               /\ c \in clients /\ ~keep => ~saves'[c].installed
               /\ saves[c].installed /\ SamePlayer(c) /\ keep => saves'[c].installed
               /\ c \notin clients => saves'[c] = saves[c]
               /\ saves'[c].installed /\ saves'[c].queued # NoPdata =>
                     \/ saves'[c].queued = saves[c].queued
                     \/ \E w \in writes' : /\ w.client = c /\ w.uid = saves[c].uid
                                           /\ w.pdata = saves'[c].queued
  <1>1. /\ saves \in [Clients -> Saves] /\ writes \subseteq Writes
        /\ issued \in [Clients -> Nat] /\ WritesOwned
    BY DEF Inv, TypeOK, Owned
  <1>2. PICK started \in SUBSET {c \in clients : Submits(c) /\ issued[c] < MaxWrites} :
           /\ saves' = [c \in Clients |-> IF c \in clients
                                          THEN SaveAfterWrite(c, keep, c \in started)
                                          ELSE saves[c]]
           /\ writes' = writes \cup {PdataWrite(c) : c \in started}
           /\ issued' = [c \in Clients |-> IF c \in started THEN issued[c] + 1 ELSE issued[c]]
    BY DEF WriteRemoteSave
  <1>3. ASSUME NEW c \in started
        PROVE  /\ PdataWrite(c) \in Writes
               /\ Belongs(PdataWrite(c).pdata, PdataWrite(c).uid)
               /\ PdataWrite(c).client = c /\ PdataWrite(c).uid = saves[c].uid
               /\ PdataWrite(c).pdata = Export(c) /\ PdataWrite(c).stage = "sent"
               /\ c \in Clients /\ saves[c].installed
    <2>1. c \in Clients /\ Submits(c)
      BY <1>2
    <2>2. /\ saves[c].installed /\ saves[c].uid \in Uids
          /\ Export(c) \in Pdata /\ Belongs(Export(c), saves[c].uid)
      BY <2>1, ExportIsOwn DEF Submits
    <2>. QED
      BY <1>1, <2>1, <2>2 DEF PdataWrite, Writes
  <1>4. ASSUME NEW c \in Clients
        PROVE  saves'[c] = IF c \in clients THEN SaveAfterWrite(c, keep, c \in started) ELSE saves[c]
    BY <1>2
  <1>5. ASSUME NEW c \in Clients
        PROVE  /\ saves'[c] \in Saves
               /\ saves'[c].uid = saves[c].uid /\ saves'[c].trailing = saves[c].trailing
               /\ saves'[c].installed =>
                     saves[c].installed /\ saves'[c].pdata = saves[c].pdata
               /\ c \in clients /\ ~keep => ~saves'[c].installed
               /\ saves[c].installed /\ SamePlayer(c) /\ keep => saves'[c].installed
               /\ saves'[c].installed /\ saves'[c].queued # NoPdata =>
                     \/ saves'[c].queued = saves[c].queued
                     \/ c \in started /\ saves'[c].queued = Export(c)
    <2>1. CASE c \in clients
      <3>1. (c \in started) \in BOOLEAN
        OBVIOUS
      <3>. DEFINE after == SaveAfterWrite(c, keep, c \in started)
      <3>2. /\ after \in Saves
            /\ after.uid = saves[c].uid /\ after.trailing = saves[c].trailing
            /\ after.installed => saves[c].installed /\ keep /\ after.pdata = saves[c].pdata
            /\ saves[c].installed /\ SamePlayer(c) /\ keep => after.installed
            /\ after.installed /\ after.queued # NoPdata =>
                  \/ after.queued = saves[c].queued
                  \/ c \in started /\ Submits(c) /\ after.queued = Export(c)
        BY <3>1, SaveAfterWriteGives
      <3>3. saves'[c] = after
        BY <1>4, <2>1
      <3>. HIDE DEF after
      <3>. QED
        BY <2>1, <3>2, <3>3
    <2>2. CASE c \notin clients
      BY <1>1, <1>4, <2>2
    <2>. QED
      BY <2>1, <2>2
  <1>6. (saves \in [Clients -> Saves])'
    BY <1>2, <1>5
  <1>7. (writes \subseteq Writes)' /\ WritesOwned' /\ writes \subseteq writes'
    BY <1>1, <1>2, <1>3 DEF WritesOwned, Belongs
  <1>8. (issued \in [Clients -> Nat])'
    BY <1>1, <1>2
  <1>9. ASSUME NEW w \in writes' \ writes
        PROVE  /\ w.client \in Clients /\ saves[w.client].installed
               /\ w.uid = saves[w.client].uid /\ w.stage = "sent"
    <2>1. PICK c \in started : w = PdataWrite(c)
      BY <1>2
    <2>. QED
      BY <1>3, <2>1
  <1>10. ASSUME NEW c \in Clients, saves'[c].installed, saves'[c].queued # NoPdata
         PROVE  \/ saves'[c].queued = saves[c].queued
                \/ \E w \in writes' : /\ w.client = c /\ w.uid = saves[c].uid
                                      /\ w.pdata = saves'[c].queued
    <2>1. CASE c \in started /\ saves'[c].queued = Export(c)
      <3>1. PdataWrite(c) \in writes'
        BY <1>2, <2>1
      <3>. QED
        BY <1>3, <2>1, <3>1
    <2>. QED
      BY <1>5, <1>10, <2>1
  <1>. QED
    BY <1>4, <1>5, <1>6, <1>7, <1>8, <1>9, <1>10

(* What the copies on their way need from a step that leaves them alone.   *)
LEMMA OwnedFrame ==
  ASSUME Inv, known' = known
  PROVE  /\ pending' = pending => PendingOwned'
         /\ offers' = offers => OffersOwned'
         /\ atlas' = atlas => AtlasOwned'
         /\ writes' = writes => WritesOwned'
  BY DEF Inv, Owned, PendingOwned, OffersOwned, AtlasOwned, WritesOwned, Served

(* A step of the game thread that changes slots only, and gives no slot    *)
(* away that owns a save.                                                  *)
LEMMA SlotsOnly ==
  ASSUME Inv, ~hook.busy, (slots \in [Clients -> Slots])',
         UNCHANGED <<saves, pending, hook, writes, issued, offers, atlas, known>>,
         \A c \in Clients : saves[c].installed =>
                               slots'[c].uid = slots[c].uid /\ slots'[c].signon # 0,
         \A c \in Clients : slots'[c].ready = kPersistenceReadyRemote =>
                               /\ slots[c].ready = kPersistenceReadyRemote
                               /\ slots'[c].uid = slots[c].uid
                               /\ slots'[c].buffer.owner \in {NoUid, slots[c].buffer.owner}
  PROVE  Inv'
  <1>1. TypeOK'
    BY DEF Inv, TypeOK
  <1>2. ASSUME NEW c \in Clients PROVE SaveOwned(c)' /\ BufferOwned(c)'
    BY DEF Inv, Owned, SaveOwned, BufferOwned, Served
  <1>3. HookOwned'
    BY DEF HookOwned
  <1>. QED
    BY <1>1, <1>2, <1>3, OwnedFrame DEF Inv, Owned

-----------------------------------------------------------------------------
(* The invariant is inductive                                              *)

LEMMA InvInit ==
  ASSUME Init
  PROVE  Inv
  <1>1. EmptySlot \in Slots /\ EmptySlot.ready # kPersistenceReadyRemote
    BY DEF EmptySlot, Slots, kPersistenceNotReady, kPersistenceReadyRemote
  <1>2. NoSave \in Saves /\ ~NoSave.installed
    BY DEF NoSave, Saves, NoTail
  <1>3. NotInHook \in Hooks /\ ~NotInHook.busy
    BY SlotAssumption DEF NotInHook, Hooks, Clients
  <1>4. pending \in Seq(PendingEntries) /\ DOMAIN pending = {}
    BY DEF Init
  <1>5. atlas \in [Uids -> Pdata] /\ AtlasOwned
    BY DEF Init, AtlasOwned, Belongs
  <1>6. TypeOK
    BY <1>1, <1>2, <1>3, <1>4, <1>5 DEF Init, TypeOK
  <1>7. OffersOwned
    BY DEF Init, OffersOwned
  <1>8. \A c \in Clients : SaveOwned(c) /\ BufferOwned(c)
    BY <1>1, <1>2 DEF Init, SaveOwned, BufferOwned
  <1>9. HookOwned /\ PendingOwned /\ WritesOwned
    BY <1>3, <1>4 DEF Init, HookOwned, PendingOwned, WritesOwned
  <1>. QED
    BY <1>5, <1>6, <1>7, <1>8, <1>9 DEF Inv, Owned

LEMMA ConnectRequestPreserves ==
  ASSUME Inv, NEW uid \in Uids, NEW h \in BOOLEAN, ConnectRequest(uid, h)
  PROVE  Inv'
  <1>. DEFINE p == offers[uid][h]
              scope == {c \in Clients : ScopeMatchesClient(h, c)}
  <1>1. /\ ~hook.busy /\ p # NoPdata
        /\ UNCHANGED <<hook, writes, issued, offers, atlas, known>>
    BY DEF ConnectRequest
  <1>2. p \in Pdata /\ Served(p, uid)
    BY <1>1 DEF Inv, TypeOK, Owned, OffersOwned
  <1>3. PICK sl \in {slots} \cup EngineConnects(uid, scope) :
           InstallRemoteSaveAtConnect(sl, uid, h, p)
    BY DEF ConnectRequest
  <1>4. /\ sl \in [Clients -> Slots]
        /\ \A d \in Clients : saves[d].installed => sl[d].uid = slots[d].uid /\ sl[d].signon # 0
        /\ \A d \in Clients : sl[d].ready = kPersistenceReadyRemote => sl[d] = slots[d]
    <2>1. scope \in SUBSET Clients
      OBVIOUS
    <2>. QED
      BY <2>1, ConnectGives
  <1>5. HookOwned'
    BY <1>1 DEF HookOwned
  <1>. HIDE DEF p, scope
  <1>6. CASE \E c \in Clients :
               /\ IsSelectedSlot(c, sl, uid, h)
               /\ slots' = [sl EXCEPT ![c] = RemoteReady(@, p)]
               /\ saves' = [saves EXCEPT ![c] = InstallRemoteSave(@, uid, p)]
               /\ UNCHANGED pending
    <2>1. PICK c \in Clients :
             /\ IsSelectedSlot(c, sl, uid, h)
             /\ slots' = [sl EXCEPT ![c] = RemoteReady(@, p)]
             /\ saves' = [saves EXCEPT ![c] = InstallRemoteSave(@, uid, p)]
             /\ UNCHANGED pending
      BY <1>6
    <2>2. sl[c].uid = uid /\ sl[c].signon # 0
      BY <2>1 DEF IsSelectedSlot, PreferredSlots, MatchingSlots
    <2>3. /\ (slots \in [Clients -> Slots])'
          /\ (saves \in [Clients -> Saves])'
          /\ \A d \in Clients : SaveOwned(d)' /\ BufferOwned(d)'
      BY <1>1, <1>2, <1>4, <2>1, <2>2, InstallPreserves
    <2>4. TypeOK'
      BY <1>1, <1>2, <2>1, <2>3 DEF Inv, TypeOK
    <2>. QED
      BY <1>1, <1>5, <2>1, <2>3, <2>4, OwnedFrame DEF Inv, Owned
  <1>7. CASE /\ slots' = sl
             /\ pending' = KeepPendingPdata(pending, uid, h, p)
             /\ UNCHANGED <<saves>>
    <2>1. /\ (pending \in Seq(PendingEntries))'
          /\ \A i \in DOMAIN pending' : \/ pending'[i] = PendingEntry(uid, h, p)
                                        \/ \E j \in DOMAIN pending : pending'[i] = pending[j]
      <3>1. pending \in Seq(PendingEntries)
        BY DEF Inv, TypeOK
      <3>. QED
        BY <1>2, <1>7, <3>1, KeepPendingGives
    <2>2. PendingOwned'
      BY <1>1, <1>2, <2>1 DEF Inv, Owned, PendingOwned, PendingEntry, Served
    <2>3. TypeOK'
      BY <1>1, <1>4, <1>7, <2>1 DEF Inv, TypeOK
    <2>4. ASSUME NEW d \in Clients PROVE SaveOwned(d)' /\ BufferOwned(d)'
      BY <1>1, <1>4, <1>7 DEF Inv, Owned, SaveOwned, BufferOwned, Served
    <2>. QED
      BY <1>1, <1>5, <2>2, <2>3, <2>4, OwnedFrame DEF Inv, Owned
  <1>. QED
    BY <1>3, <1>6, <1>7 DEF InstallRemoteSaveAtConnect

(* The steps of the engine that touch slots alone.                         *)
LEMMA EngineStepsPreserve ==
  ASSUME Inv,
         \/ \E u \in Uids : ConnectWithoutRecord(u)
         \/ \E c \in Clients : \/ BotJoins(c) \/ SignonFull(c) \/ EngineResetsSlot(c)
                               \/ Play(c) \/ BufferReplaced(c)
  PROVE  Inv'
  <1>. /\ slots \in [Clients -> Slots]
       /\ \A d \in Clients : SaveOwned(d) /\ BufferOwned(d)
    BY DEF Inv, TypeOK, Owned
  <1>. USE DEF kSignonConnected, kSignonStateFull
  <1>1. ASSUME NEW u \in Uids, ConnectWithoutRecord(u) PROVE Inv'
    <2>1. /\ slots' \in {slots} \cup EngineConnects(u, Clients) /\ Clients \in SUBSET Clients
      BY <1>1 DEF ConnectWithoutRecord
    <2>2. /\ slots' \in [Clients -> Slots]
          /\ \A d \in Clients : saves[d].installed => slots'[d].uid = slots[d].uid /\ slots'[d].signon # 0
          /\ \A d \in Clients : slots'[d].ready = kPersistenceReadyRemote => slots'[d] = slots[d]
      BY <2>1, ConnectGives
    <2>. QED
      BY <1>1, <2>2, SlotsOnly DEF ConnectWithoutRecord
  <1>2. ASSUME NEW c \in Clients, BotJoins(c) PROVE Inv'
    <2>1. ~saves[c].installed
      BY <1>2 DEF BotJoins, SaveOwned
    <2>. QED
      BY <1>2, <2>1, SlotsOnly DEF BotJoins, SaveOwned, BufferOwned, Slots
  <1>3. ASSUME NEW c \in Clients, SignonFull(c) PROVE Inv'
    BY <1>3, SlotsOnly DEF SignonFull, SaveOwned, BufferOwned, Slots
  <1>4. ASSUME NEW c \in Clients, EngineResetsSlot(c) PROVE Inv'
    <2>1. PICK buffer \in {slots[c].buffer, Placeholder} :
            slots' = [slots EXCEPT ![c].signon = kSignonConnected,
                                   ![c].ready = kPersistenceNotReady,
                                   ![c].buffer = buffer]
      BY <1>4 DEF EngineResetsSlot
    <2>2. buffer \in Buffers \cup {Placeholder}
      BY <2>1 DEF Slots
    <2>. DEFINE slot == [slots[c] EXCEPT !.signon = kSignonConnected,
                                         !.ready = kPersistenceNotReady, !.buffer = buffer]
    <2>3. slot \in Slots /\ slot.uid = slots[c].uid /\ slot.signon # 0
      <3>1. slots[c] \in Slots
        OBVIOUS
      <3>2. slot \in Slots
        BY <2>2, <3>1 DEF Slots
      <3>3. slot.uid = slots[c].uid
        BY <3>1 DEF Slots
      <3>4. slot.signon = kSignonConnected
        BY <3>1 DEF Slots
      <3>. QED
        BY <3>2, <3>3, <3>4
    <2>4. slot.ready # kPersistenceReadyRemote
      BY DEF Slots, kPersistenceNotReady, kPersistenceReadyRemote
    <2>5. slots' = [slots EXCEPT ![c] = slot]
      BY <2>1
    <2>. HIDE DEF slot
    <2>. QED
      BY <1>4, <2>3, <2>4, <2>5, SlotsOnly DEF EngineResetsSlot, SaveOwned, BufferOwned
  <1>5. ASSUME NEW c \in Clients, Play(c) PROVE Inv'
    <2>1. PICK v \in Versions : slots' = [slots EXCEPT ![c].buffer.ver = v]
      BY <1>5 DEF Play
    <2>2. slots[c].buffer \in Buffers
      BY <1>5 DEF Play, Slots
    <2>. DEFINE buffer == [slots[c].buffer EXCEPT !.ver = v]
    <2>3. buffer \in Buffers /\ buffer.owner = slots[c].buffer.owner
      BY <2>2 DEF Buffers, Contents
    <2>4. slots' = [slots EXCEPT ![c] = [slots[c] EXCEPT !.buffer = buffer]]
      BY <2>1
    <2>. HIDE DEF buffer
    <2>. QED
      BY <1>5, <2>3, <2>4, SlotsOnly DEF Play, SaveOwned, BufferOwned, Slots
  <1>6. ASSUME NEW c \in Clients, BufferReplaced(c) PROVE Inv'
    BY <1>6, SlotsOnly DEF BufferReplaced, SaveOwned, BufferOwned, Slots, Placeholder
  <1>. QED
    BY <1>1, <1>2, <1>3, <1>4, <1>5, <1>6

(* RuntimePersistenceAvailable: a save installed again, taken late, or not *)
(* there at all.                                                           *)
LEMMA PersistenceHookPreserves ==
  ASSUME Inv,
         \/ \E c \in Clients : \/ ReadInstalledSave(c) \/ InstallPendingSave(c)
                               \/ PlayWithoutSave(c)
         \/ InstallSaveAgain
  PROVE  Inv'
  <1>1. /\ slots \in [Clients -> Slots] /\ saves \in [Clients -> Saves]
        /\ pending \in Seq(PendingEntries) /\ PendingOwned /\ HookOwned /\ hook \in Hooks
        /\ \A d \in Clients : SaveOwned(d) /\ BufferOwned(d)
    BY DEF Inv, TypeOK, Owned
  <1>2. \A d \in Clients : saves[d].installed => slots[d].uid = slots[d].uid /\ slots[d].signon # 0
    BY <1>1 DEF SaveOwned
  <1>3. ASSUME NEW c \in Clients, ReadInstalledSave(c) PROVE Inv'
    <2>1. /\ saves[c].installed /\ saves[c].uid = slots[c].uid /\ slots[c].signon # 0
          /\ UNCHANGED <<slots, saves, pending, writes, issued, offers, atlas, known>>
          /\ hook' = [busy |-> TRUE, client |-> c, uid |-> slots[c].uid, pdata |-> saves[c].pdata]
      BY <1>2, <1>3 DEF ReadInstalledSave, OwnsSave
    <2>2. slots[c].uid \in Uids /\ Served(saves[c].pdata, slots[c].uid)
      BY <1>1, <2>1 DEF SaveOwned
    <2>3. (hook \in Hooks)'
      BY <1>1, <2>1 DEF Hooks, Slots, Saves
    <2>4. HookOwned'
      BY <2>1, <2>2 DEF HookOwned, Served
    <2>5. TypeOK'
      BY <2>1, <2>3 DEF Inv, TypeOK
    <2>6. ASSUME NEW d \in Clients PROVE SaveOwned(d)' /\ BufferOwned(d)'
      BY <1>1, <2>1 DEF SaveOwned, BufferOwned, Served
    <2>. QED
      BY <2>1, <2>4, <2>5, <2>6, OwnedFrame DEF Inv, Owned
  <1>4. ASSUME InstallSaveAgain PROVE Inv'
    <2>1. /\ hook.client \in Clients /\ hook.uid \in Uids /\ hook.pdata \in Pdata
          /\ hook.uid = slots[hook.client].uid /\ slots[hook.client].signon # 0
          /\ Served(hook.pdata, hook.uid)
      BY <1>1, <1>4 DEF InstallSaveAgain, HookOwned, Hooks, Served, Inv, TypeOK
    <2>2. /\ slots' = [slots EXCEPT ![hook.client] = RemoteReady(@, hook.pdata)]
          /\ saves' = [saves EXCEPT ![hook.client] = InstallRemoteSave(@, hook.uid, hook.pdata)]
          /\ hook' = NotInHook
          /\ UNCHANGED <<pending, writes, issued, offers, atlas, known>>
      BY <1>4 DEF InstallSaveAgain
    <2>3. /\ (slots \in [Clients -> Slots])'
          /\ (saves \in [Clients -> Saves])'
          /\ \A d \in Clients : SaveOwned(d)' /\ BufferOwned(d)'
      BY <1>1, <1>2, <2>1, <2>2, InstallPreserves
    <2>4. (hook \in Hooks)' /\ HookOwned'
      BY <2>2, SlotAssumption DEF NotInHook, Hooks, HookOwned, Clients
    <2>5. TypeOK'
      BY <2>1, <2>2, <2>3, <2>4 DEF Inv, TypeOK
    <2>. QED
      BY <2>2, <2>3, <2>4, <2>5, OwnedFrame DEF Inv, Owned
  <1>5. ASSUME NEW c \in Clients,
               MarkInsecure(c), ~hook.busy, slots[c].signon = kSignonStateFull,
               (pending \in Seq(PendingEntries))', PendingOwned',
               UNCHANGED <<hook, writes, issued, offers, atlas, known>>
        PROVE  Inv'
    <2>. DEFINE slot == [slots[c] EXCEPT !.ready = kPersistenceReadyInsecure]
                save == [saves[c] EXCEPT !.installed = FALSE, !.queued = NoPdata]
    <2>1. slots' = [slots EXCEPT ![c] = slot] /\ saves' = [saves EXCEPT ![c] = save]
      BY <1>5 DEF MarkInsecure
    <2>2. slot \in Slots /\ slot.ready # kPersistenceReadyRemote
      <3>1. slot \in Slots /\ slot.ready = kPersistenceReadyInsecure
        BY <1>1 DEF Slots
      <3>. QED
        BY <3>1 DEF kPersistenceReadyInsecure, kPersistenceReadyRemote
    <2>3. save \in Saves /\ ~save.installed
      BY <1>1 DEF Saves
    <2>. HIDE DEF slot, save
    <2>4. ASSUME NEW d \in Clients PROVE SaveOwned(d)' /\ BufferOwned(d)'
      BY <1>1, <1>5, <2>1, <2>2, <2>3 DEF SaveOwned, BufferOwned, Served
    <2>5. TypeOK'
      BY <1>1, <1>5, <2>1, <2>2, <2>3 DEF Inv, TypeOK
    <2>6. HookOwned'
      BY <1>5 DEF HookOwned
    <2>. QED
      BY <1>5, <2>4, <2>5, <2>6, OwnedFrame DEF Inv, Owned
  <1>6. ASSUME NEW c \in Clients, InstallPendingSave(c) PROVE Inv'
    <2>1. PICK i \in PendingFor(c) :
             /\ pending' = Without(pending, i)
             /\ IF CanInstall(pending[i].pdata)
                THEN /\ slots' = [slots EXCEPT ![c] = RemoteReady(@, pending[i].pdata)]
                     /\ saves' = [saves EXCEPT ![c] =
                                    InstallRemoteSave(@, slots[c].uid, pending[i].pdata)]
                ELSE MarkInsecure(c)
      BY <1>6 DEF InstallPendingSave
    <2>2. /\ ~hook.busy /\ slots[c].signon = kSignonStateFull
          /\ UNCHANGED <<hook, writes, issued, offers, atlas, known>>
      BY <1>6 DEF InstallPendingSave, AsksPersistence
    <2>3. /\ i \in DOMAIN pending /\ pending[i] \in PendingEntries
          /\ pending[i].uid = slots[c].uid
      BY <1>1, <2>1 DEF PendingFor
    <2>4. /\ slots[c].uid \in Uids /\ pending[i].pdata \in Pdata
          /\ Served(pending[i].pdata, slots[c].uid)
      BY <1>1, <2>3 DEF PendingEntries, PendingOwned
    <2>5. /\ (pending \in Seq(PendingEntries))'
          /\ \A j \in DOMAIN pending' : \E k \in DOMAIN pending : pending'[j] = pending[k]
      BY <1>1, <2>1, <2>3, WithoutGives
    <2>6. PendingOwned'
      BY <1>1, <2>2, <2>5 DEF PendingOwned, Served
    <2>7. CASE ~CanInstall(pending[i].pdata)
      BY <1>5, <2>1, <2>2, <2>5, <2>6, <2>7
    <2>8. CASE CanInstall(pending[i].pdata)
      <3>1. slots[c].signon # 0
        BY <2>2 DEF kSignonStateFull
      <3>2. /\ (slots \in [Clients -> Slots])'
            /\ (saves \in [Clients -> Saves])'
            /\ \A d \in Clients : SaveOwned(d)' /\ BufferOwned(d)'
        BY <1>1, <1>2, <2>1, <2>2, <2>4, <2>8, <3>1, InstallPreserves
      <3>3. TypeOK' /\ HookOwned'
        BY <2>1, <2>2, <2>4, <2>5, <2>8, <3>2 DEF Inv, TypeOK, HookOwned
      <3>. QED
        BY <2>2, <2>6, <3>2, <3>3, OwnedFrame DEF Inv, Owned
    <2>. QED
      BY <2>7, <2>8
  <1>7. ASSUME NEW c \in Clients, PlayWithoutSave(c) PROVE Inv'
    <2>1. /\ MarkInsecure(c) /\ ~hook.busy /\ slots[c].signon = kSignonStateFull
          /\ UNCHANGED <<pending, hook, writes, issued, offers, atlas, known>>
      BY <1>7 DEF PlayWithoutSave, AsksPersistence
    <2>2. (pending \in Seq(PendingEntries))' /\ PendingOwned'
      BY <1>1, <2>1, OwnedFrame
    <2>. QED
      BY <1>5, <2>1, <2>2
  <1>. QED
    BY <1>3, <1>4, <1>6, <1>7

(* WriteRemoteSave in its three places: early leave, map change and        *)
(* disconnect.                                                             *)
LEMMA WritingPreserves ==
  ASSUME Inv,
         \/ \E c \in Clients : EarlyWrite(c) \/ Disconnect(c)
         \/ MapChange
  PROVE  Inv'
  <1>1. /\ slots \in [Clients -> Slots] /\ saves \in [Clients -> Saves]
        /\ \A d \in Clients : SaveOwned(d) /\ BufferOwned(d)
    BY DEF Inv, TypeOK, Owned
  <1>2. ASSUME NEW clients \in SUBSET Clients, WriteRemoteSave(clients, TRUE), ~hook.busy,
               UNCHANGED <<slots, pending, hook, offers, atlas, known>>
        PROVE  Inv'
    <2>1. /\ (saves \in [Clients -> Saves])' /\ (writes \subseteq Writes)'
          /\ (issued \in [Clients -> Nat])' /\ WritesOwned'
          /\ \A c \in Clients :
                /\ saves'[c].uid = saves[c].uid /\ saves'[c].trailing = saves[c].trailing
                /\ saves'[c].installed => saves[c].installed /\ saves'[c].pdata = saves[c].pdata
                /\ saves[c].installed /\ SamePlayer(c) => saves'[c].installed
      BY <1>2, WriteGives
    <2>2. TypeOK' /\ HookOwned'
      BY <1>2, <2>1 DEF Inv, TypeOK, HookOwned
    <2>3. ASSUME NEW d \in Clients PROVE SaveOwned(d)' /\ BufferOwned(d)'
      BY <1>1, <1>2, <2>1 DEF SaveOwned, BufferOwned, Served, SamePlayer
    <2>. QED
      BY <1>2, <2>1, <2>2, <2>3, OwnedFrame DEF Inv, Owned
  <1>3. ASSUME NEW c \in Clients, Disconnect(c) PROVE Inv'
    <2>1. /\ ~hook.busy /\ WriteRemoteSave({c}, FALSE)
          /\ slots' = [slots EXCEPT ![c] = EmptySlot]
          /\ UNCHANGED <<pending, hook, offers, atlas, known>>
      BY <1>3 DEF Disconnect
    <2>2. /\ (saves \in [Clients -> Saves])' /\ (writes \subseteq Writes)'
          /\ (issued \in [Clients -> Nat])' /\ WritesOwned'
          /\ \A d \in Clients : d # c => saves'[d] = saves[d]
          /\ ~saves'[c].installed
      <3>1. /\ {c} \in SUBSET Clients /\ FALSE \in BOOLEAN /\ c \in {c}
            /\ \A d \in Clients : d # c => d \notin {c}
        OBVIOUS
      <3>. DEFINE clients == {c}
      <3>. HIDE DEF clients
      <3>2. /\ (saves \in [Clients -> Saves])' /\ (writes \subseteq Writes)'
            /\ (issued \in [Clients -> Nat])' /\ WritesOwned'
            /\ \A d \in Clients : /\ d \in {c} => ~saves'[d].installed
                                  /\ d \notin {c} => saves'[d] = saves[d]
        <4>1. WriteRemoteSave(clients, FALSE) /\ clients \in SUBSET Clients
          BY <2>1, <3>1 DEF clients
        <4>2. /\ (saves \in [Clients -> Saves])' /\ (writes \subseteq Writes)'
              /\ (issued \in [Clients -> Nat])' /\ WritesOwned'
              /\ \A d \in Clients : /\ d \in clients => ~saves'[d].installed
                                    /\ d \notin clients => saves'[d] = saves[d]
          BY <4>1, WriteGives
        <4>. QED
          BY <4>2 DEF clients
      <3>. QED
        BY <3>1, <3>2
    <2>3. EmptySlot \in Slots /\ EmptySlot.ready # kPersistenceReadyRemote
      BY DEF EmptySlot, Slots, kPersistenceNotReady, kPersistenceReadyRemote
    <2>4. TypeOK' /\ HookOwned'
      BY <1>1, <2>1, <2>2, <2>3 DEF Inv, TypeOK, HookOwned
    <2>5. ASSUME NEW d \in Clients PROVE SaveOwned(d)' /\ BufferOwned(d)'
      BY <1>1, <2>1, <2>2, <2>3 DEF SaveOwned, BufferOwned, Served
    <2>. QED
      BY <2>1, <2>2, <2>4, <2>5, OwnedFrame DEF Inv, Owned
  <1>4. ASSUME NEW c \in Clients, EarlyWrite(c) PROVE Inv'
    BY <1>2, <1>4 DEF EarlyWrite
  <1>5. ASSUME MapChange PROVE Inv'
    BY <1>2, <1>5 DEF MapChange
  <1>. QED
    BY <1>3, <1>4, <1>5

(* A completed write moves the baseline only to its own pdata, and only    *)
(* when that is the newest snapshot and was accepted.                      *)
LEMMA CompleteWriteGives ==
  ASSUME NEW save \in Saves, NEW p \in Pdata, NEW accepted \in BOOLEAN
  PROVE  LET after == CompleteWrite(save, p, accepted)
         IN /\ after \in Saves
            /\ after.installed = save.installed /\ after.uid = save.uid
            /\ after.trailing = save.trailing
            /\ \/ after = save /\ save.queued # p
               \/ /\ save.queued = p /\ after.queued = NoPdata
                  /\ after.pdata = save.pdata \/ (accepted /\ after.pdata = p)
  <1>1. CASE save.queued # p
    BY <1>1 DEF CompleteWrite
  <1>2. CASE save.queued = p
    <2>. DEFINE pdata == IF accepted THEN p ELSE save.pdata
    <2>1. CompleteWrite(save, p, accepted) = [save EXCEPT !.pdata = pdata, !.queued = NoPdata]
      BY <1>2 DEF CompleteWrite
    <2>2. /\ pdata \in Pdata \cup {NoPdata}
          /\ pdata = save.pdata \/ (accepted /\ pdata = p)
      BY DEF Saves
    <2>. HIDE DEF pdata
    <2>. QED
      BY <1>2, <2>1, <2>2 DEF Saves
  <1>. QED
    BY <1>1, <1>2

LEMMA RequestThreadsPreserve ==
  ASSUME Inv, RequestThreads
  PROVE  Inv'
  <1>1. /\ slots \in [Clients -> Slots] /\ saves \in [Clients -> Saves]
        /\ writes \subseteq Writes /\ WritesOwned
        /\ atlas \in [Uids -> Pdata] /\ AtlasOwned /\ known \subseteq Pdata
        /\ offers \in [Uids -> [BOOLEAN -> Pdata \cup {NoPdata}]] /\ OffersOwned
        /\ PendingOwned /\ HookOwned
        /\ \A d \in Clients : SaveOwned(d) /\ BufferOwned(d)
    BY DEF Inv, TypeOK, Owned
  <1>2. ASSUME NEW u \in Uids, NEW h \in BOOLEAN, FetchSave(u, h) PROVE Inv'
    <2>1. /\ offers' = [offers EXCEPT ![u] = [offers[u] EXCEPT ![h] = atlas[u]]]
          /\ known' = known \cup {atlas[u]}
          /\ UNCHANGED <<slots, saves, pending, hook, writes, issued, atlas>>
      BY <1>2 DEF FetchSave
    <2>2. atlas[u] \in Pdata /\ Belongs(atlas[u], u)
      BY <1>1 DEF AtlasOwned
    <2>3. TypeOK'
      BY <1>1, <2>1, <2>2 DEF Inv, TypeOK
    <2>4. OffersOwned'
      BY <1>1, <2>1, <2>2 DEF OffersOwned, Served
    <2>5. HookOwned' /\ PendingOwned' /\ AtlasOwned' /\ WritesOwned'
      BY <1>1, <2>1 DEF HookOwned, PendingOwned, AtlasOwned, WritesOwned, Served
    <2>6. ASSUME NEW d \in Clients PROVE SaveOwned(d)' /\ BufferOwned(d)'
      BY <1>1, <2>1 DEF SaveOwned, BufferOwned, Served
    <2>. QED
      BY <2>3, <2>4, <2>5, <2>6 DEF Inv, Owned
  <1>3. ASSUME NEW w \in writes, NEW stage \in {"stored", "lost"},
               writes' = AtStage(w, stage), (atlas \in [Uids -> Pdata])', AtlasOwned',
               UNCHANGED <<slots, saves, pending, hook, issued, offers, known>>
        PROVE  Inv'
    <2>. DEFINE decided == [w EXCEPT !.stage = stage]
    <2>1. decided \in Writes /\ decided.pdata = w.pdata /\ decided.uid = w.uid
      BY <1>1 DEF Writes
    <2>2. writes' = (writes \ {w}) \cup {decided}
      BY <1>3 DEF AtStage
    <2>. HIDE DEF decided
    <2>3. (writes \subseteq Writes)' /\ WritesOwned'
      BY <1>1, <2>1, <2>2 DEF WritesOwned
    <2>4. TypeOK' /\ HookOwned'
      BY <1>1, <1>3, <2>3 DEF Inv, TypeOK, HookOwned, Served
    <2>5. ASSUME NEW d \in Clients PROVE SaveOwned(d)' /\ BufferOwned(d)'
      BY <1>1, <1>3 DEF SaveOwned, BufferOwned, Served
    <2>. QED
      BY <1>3, <2>3, <2>4, <2>5, OwnedFrame DEF Inv, Owned
  <1>4. ASSUME NEW w \in writes, AtlasStores(w) PROVE Inv'
    <2>1. /\ atlas' = [atlas EXCEPT ![w.uid] = w.pdata] /\ writes' = AtStage(w, "stored")
          /\ UNCHANGED <<slots, saves, pending, hook, issued, offers, known>>
      BY <1>4 DEF AtlasStores
    <2>2. w.uid \in Uids /\ w.pdata \in Pdata /\ Belongs(w.pdata, w.uid)
      BY <1>1 DEF Writes, WritesOwned
    <2>3. (atlas \in [Uids -> Pdata])' /\ AtlasOwned'
      BY <1>1, <2>1, <2>2 DEF AtlasOwned
    <2>. QED
      BY <1>3, <2>1, <2>3
  <1>5. ASSUME NEW w \in writes, AtlasDoesNotStore(w) PROVE Inv'
    <2>1. (atlas \in [Uids -> Pdata])' /\ AtlasOwned'
      BY <1>1, <1>5 DEF AtlasDoesNotStore, AtlasOwned
    <2>. QED
      BY <1>3, <1>5, <2>1 DEF AtlasDoesNotStore
  <1>6. ASSUME NEW w \in writes, NEW accepted \in BOOLEAN, WriteCompletes(w, accepted)
        PROVE  Inv'
    <2>. DEFINE c == w.client
                ownSave == saves[c].installed /\ saves[c].uid = w.uid
                after == CompleteWrite(saves[c], w.pdata, accepted)
    <2>1. /\ saves' = IF ownSave THEN [saves EXCEPT ![c] = after] ELSE saves
          /\ known' = IF accepted THEN known \cup {w.pdata} ELSE known
          /\ writes' = writes \ {w}
          /\ UNCHANGED <<slots, pending, hook, issued, offers, atlas>>
      BY <1>6 DEF WriteCompletes
    <2>2. /\ c \in Clients /\ w.pdata \in Pdata /\ Belongs(w.pdata, w.uid)
      BY <1>1 DEF Writes, WritesOwned
    <2>3. /\ after \in Saves
          /\ after.installed = saves[c].installed /\ after.uid = saves[c].uid
          /\ after.trailing = saves[c].trailing
          /\ after.pdata = saves[c].pdata \/ (accepted /\ after.pdata = w.pdata)
      BY <1>1, <2>2, CompleteWriteGives
    <2>. HIDE DEF after
    <2>4. known \subseteq known' /\ known' \subseteq Pdata /\ (accepted => w.pdata \in known')
      BY <1>1, <2>1, <2>2
    <2>5. TypeOK'
      BY <1>1, <2>1, <2>2, <2>3, <2>4 DEF Inv, TypeOK
    <2>6. ASSUME NEW d \in Clients PROVE SaveOwned(d)' /\ BufferOwned(d)'
      <3>1. CASE ownSave /\ d = c
        <4>1. saves'[d] = after
          BY <1>1, <2>1, <2>2, <3>1
        <4>. QED
          BY <1>1, <2>1, <2>2, <2>3, <2>4, <3>1, <4>1 DEF SaveOwned, BufferOwned, Served
      <3>2. CASE ~(ownSave /\ d = c)
        <4>1. saves'[d] = saves[d]
          BY <1>1, <2>1, <2>2, <3>2
        <4>. QED
          BY <1>1, <2>1, <2>4, <4>1 DEF SaveOwned, BufferOwned, Served
      <3>. QED
        BY <3>1, <3>2
    <2>7. HookOwned' /\ PendingOwned' /\ OffersOwned' /\ AtlasOwned' /\ WritesOwned'
      BY <1>1, <2>1, <2>4 DEF HookOwned, PendingOwned, OffersOwned, AtlasOwned, WritesOwned, Served
    <2>. QED
      BY <2>5, <2>6, <2>7 DEF Inv, Owned
  <1>. QED
    BY <1>2, <1>4, <1>5, <1>6 DEF RequestThreads

LEMMA InvNext ==
  ASSUME Inv, [Next]_vars
  PROVE  Inv'
  <1>1. CASE RequestThreads
    BY <1>1, RequestThreadsPreserve
  <1>2. CASE GameThread
    <2>1. CASE \E u \in Uids, h \in BOOLEAN : ConnectRequest(u, h)
      BY <2>1, ConnectRequestPreserves
    <2>2. CASE \/ \E u \in Uids : ConnectWithoutRecord(u)
               \/ \E c \in Clients : \/ BotJoins(c) \/ SignonFull(c) \/ EngineResetsSlot(c)
                                     \/ Play(c) \/ BufferReplaced(c)
      BY <2>2, EngineStepsPreserve
    <2>3. CASE \/ \E c \in Clients : \/ ReadInstalledSave(c) \/ InstallPendingSave(c)
                                     \/ PlayWithoutSave(c)
               \/ InstallSaveAgain
      BY <2>3, PersistenceHookPreserves
    <2>4. CASE \/ \E c \in Clients : EarlyWrite(c) \/ Disconnect(c)
               \/ MapChange
      BY <2>4, WritingPreserves
    <2>. QED
      BY <1>2, <2>1, <2>2, <2>3, <2>4 DEF GameThread
  <1>3. CASE UNCHANGED vars
    BY <1>3 DEF vars, Inv, TypeOK, Owned, SaveOwned, BufferOwned, HookOwned, PendingOwned,
                OffersOwned, AtlasOwned, WritesOwned, Served
  <1>. QED
    BY <1>1, <1>2, <1>3 DEF Next

(* The invariant holds of every reachable state.                           *)
THEOREM Invariance == Spec => []Inv
  BY InvInit, InvNext, PTL DEF Spec

-----------------------------------------------------------------------------
(* What follows from it                                                    *)

(* Every variable keeps its type (TypeOK).                                 *)
THEOREM TypeCorrect == Spec => []TypeOK
  <1>1. Inv => TypeOK
    BY DEF Inv
  <1>. QED
    BY <1>1, Invariance, PTL

(* No player's data reaches another's account or slot, whatever slots are  *)
(* reused and whatever write threads still run (WriteRemoteSave,           *)
(* InstallRemoteSave, RemotePdataWriteCompleted).                          *)
THEOREM OwnAccount == Spec => []OwnAccountOnly
  <1>1. Inv => OwnAccountOnly
    BY DEF Inv, Owned, WritesOwned, SaveOwned, Served, OwnAccountOnly
  <1>. QED
    BY <1>1, Invariance, PTL

(* The version "Unchanged" compares with was served or acknowledged by     *)
(* Atlas (CompleteWrite).                                                  *)
THEOREM KnownBaseline == Spec => []BaselineKnown
  <1>1. Inv => BaselineKnown
    BY DEF Inv, Owned, SaveOwned, Served, BaselineKnown
  <1>. QED
    BY <1>1, Invariance, PTL

-----------------------------------------------------------------------------
(* The in-flight marker                                                    *)

(* A step that starts and ends no write keeps every marker carried if it   *)
(* leaves the save alone, installs one anew or lets it go.                 *)
LEMMA CarriedWithoutWrites ==
  ASSUME QueuedIsInFlight, writes' = writes,
         \A c \in Clients : \/ saves'[c] = saves[c]
                            \/ saves'[c].queued = NoPdata
  PROVE  QueuedIsInFlight'
  BY DEF QueuedIsInFlight

(* Installing a save clears the marker.                                    *)
LEMMA InstallClearsMarker ==
  ASSUME Inv, NEW c \in Clients, NEW uid, NEW p,
         saves' = [saves EXCEPT ![c] = InstallRemoteSave(@, uid, p)]
  PROVE  \A d \in Clients : saves'[d] = saves[d] \/ saves'[d].queued = NoPdata
  <1>1. saves \in [Clients -> Saves]
    BY DEF Inv, TypeOK
  <1>2. InstallRemoteSave(saves[c], uid, p).queued = NoPdata
    BY <1>1 DEF InstallRemoteSave, Saves
  <1>3. \A d \in Clients :
           saves'[d] = IF d = c THEN InstallRemoteSave(saves[c], uid, p) ELSE saves[d]
    BY <1>1
  <1>. QED
    BY <1>2, <1>3

(* So does giving a slot up for a player without a save.                   *)
LEMMA InsecureClearsMarker ==
  ASSUME Inv, NEW c \in Clients, MarkInsecure(c)
  PROVE  \A d \in Clients : saves'[d] = saves[d] \/ saves'[d].queued = NoPdata
  <1>1. saves \in [Clients -> Saves]
    BY DEF Inv, TypeOK
  <1>. DEFINE save == [saves[c] EXCEPT !.installed = FALSE, !.queued = NoPdata]
  <1>2. save.queued = NoPdata
    BY <1>1 DEF Saves
  <1>3. \A d \in Clients : saves'[d] = IF d = c THEN save ELSE saves[d]
    BY <1>1 DEF MarkInsecure
  <1>. HIDE DEF save
  <1>. QED
    BY <1>2, <1>3

LEMMA GameThreadCarries ==
  ASSUME Inv, QueuedIsInFlight, GameThread
  PROVE  QueuedIsInFlight'
  <1>1. ASSUME NEW u \in Uids, NEW h \in BOOLEAN, ConnectRequest(u, h) PROVE QueuedIsInFlight'
    <2>1. writes' = writes
      BY <1>1 DEF ConnectRequest
    <2>2. PICK sl : InstallRemoteSaveAtConnect(sl, u, h, offers[u][h])
      BY <1>1 DEF ConnectRequest
    <2>3. \/ saves' = saves
          \/ \E c \in Clients : saves' = [saves EXCEPT ![c] = InstallRemoteSave(@, u, offers[u][h])]
      BY <2>2 DEF InstallRemoteSaveAtConnect
    <2>4. \A c \in Clients : saves'[c] = saves[c] \/ saves'[c].queued = NoPdata
      BY <2>3, InstallClearsMarker
    <2>. QED
      BY <2>1, <2>4, CarriedWithoutWrites
  <1>2. ASSUME NEW c \in Clients, InstallPendingSave(c) PROVE QueuedIsInFlight'
    <2>1. writes' = writes
      BY <1>2 DEF InstallPendingSave
    <2>2. \/ \E p : saves' = [saves EXCEPT ![c] = InstallRemoteSave(@, slots[c].uid, p)]
          \/ MarkInsecure(c)
      BY <1>2 DEF InstallPendingSave
    <2>3. \A d \in Clients : saves'[d] = saves[d] \/ saves'[d].queued = NoPdata
      BY <2>2, InstallClearsMarker, InsecureClearsMarker
    <2>. QED
      BY <2>1, <2>3, CarriedWithoutWrites
  <1>3. ASSUME InstallSaveAgain PROVE QueuedIsInFlight'
    <2>1. /\ hook.client \in Clients /\ writes' = writes
          /\ saves' = [saves EXCEPT ![hook.client] = InstallRemoteSave(@, hook.uid, hook.pdata)]
      BY <1>3 DEF InstallSaveAgain, Inv, TypeOK, Hooks
    <2>. QED
      BY <2>1, InstallClearsMarker, CarriedWithoutWrites
  <1>4. ASSUME NEW c \in Clients, PlayWithoutSave(c) PROVE QueuedIsInFlight'
    BY <1>4, InsecureClearsMarker, CarriedWithoutWrites DEF PlayWithoutSave
  <1>5. ASSUME NEW clients \in SUBSET Clients, NEW keep \in BOOLEAN, WriteRemoteSave(clients, keep)
        PROVE  QueuedIsInFlight'
    <2>1. /\ writes \subseteq writes'
          /\ \A c \in Clients :
                /\ saves'[c].uid = saves[c].uid
                /\ saves'[c].installed => saves[c].installed
                /\ saves'[c].installed /\ saves'[c].queued # NoPdata =>
                     \/ saves'[c].queued = saves[c].queued
                     \/ \E w \in writes' : /\ w.client = c /\ w.uid = saves[c].uid
                                           /\ w.pdata = saves'[c].queued
      BY <1>5, WriteGives
    <2>. QED
      BY <2>1 DEF QueuedIsInFlight
  <1>6. ASSUME saves' = saves, writes' = writes PROVE QueuedIsInFlight'
    BY <1>6, CarriedWithoutWrites
  <1>7. CASE \/ \E u \in Uids : ConnectWithoutRecord(u)
             \/ \E c \in Clients : \/ BotJoins(c) \/ SignonFull(c) \/ EngineResetsSlot(c)
                                   \/ Play(c) \/ BufferReplaced(c) \/ ReadInstalledSave(c)
    BY <1>6, <1>7 DEF ConnectWithoutRecord, BotJoins, SignonFull, EngineResetsSlot, Play,
                      BufferReplaced, ReadInstalledSave
  <1>8. CASE \/ \E c \in Clients : EarlyWrite(c) \/ Disconnect(c)
             \/ MapChange
    <2>1. \A c \in Clients : {c} \in SUBSET Clients
      OBVIOUS
    <2>2. \E clients \in SUBSET Clients, keep \in BOOLEAN : WriteRemoteSave(clients, keep)
      BY <1>8, <2>1 DEF EarlyWrite, Disconnect, MapChange
    <2>. QED
      BY <1>5, <2>2
  <1>. QED
    BY <1>1, <1>2, <1>3, <1>4, <1>7, <1>8 DEF GameThread

LEMMA RequestThreadsCarry ==
  ASSUME Inv, QueuedIsInFlight, RequestThreads
  PROVE  QueuedIsInFlight'
  <1>1. saves \in [Clients -> Saves] /\ writes \subseteq Writes
    BY DEF Inv, TypeOK
  <1>2. ASSUME NEW u \in Uids, NEW h \in BOOLEAN, FetchSave(u, h) PROVE QueuedIsInFlight'
    BY <1>2, CarriedWithoutWrites DEF FetchSave
  <1>3. ASSUME NEW w \in writes, NEW stage \in {"stored", "lost"}, writes' = AtStage(w, stage),
               saves' = saves
        PROVE  QueuedIsInFlight'
    <2>. DEFINE decided == [w EXCEPT !.stage = stage]
    <2>1. decided.client = w.client /\ decided.uid = w.uid /\ decided.pdata = w.pdata
      BY <1>1 DEF Writes
    <2>2. writes' = (writes \ {w}) \cup {decided}
      BY <1>3 DEF AtStage
    <2>. HIDE DEF decided
    <2>3. ASSUME NEW c \in Clients, NEW v \in writes, v.client = c, v.uid = saves[c].uid,
                 v.pdata = saves[c].queued
          PROVE  \E x \in writes' : /\ x.client = c /\ x.uid = saves[c].uid
                                    /\ x.pdata = saves[c].queued
      BY <2>1, <2>2, <2>3
    <2>. QED
      BY <1>3, <2>3 DEF QueuedIsInFlight
  <1>4. ASSUME NEW w \in writes, AtlasStores(w) \/ AtlasDoesNotStore(w) PROVE QueuedIsInFlight'
    BY <1>3, <1>4 DEF AtlasStores, AtlasDoesNotStore
  <1>5. ASSUME NEW w \in writes, NEW accepted \in BOOLEAN, WriteCompletes(w, accepted)
        PROVE  QueuedIsInFlight'
    <2>. DEFINE c == w.client
                ownSave == saves[c].installed /\ saves[c].uid = w.uid
                after == CompleteWrite(saves[c], w.pdata, accepted)
    <2>1. /\ saves' = IF ownSave THEN [saves EXCEPT ![c] = after] ELSE saves
          /\ writes' = writes \ {w} /\ c \in Clients /\ w.pdata \in Pdata
      BY <1>1, <1>5 DEF WriteCompletes, Writes
    <2>2. \/ after = saves[c] /\ saves[c].queued # w.pdata
          \/ after.queued = NoPdata
      BY <1>1, <2>1, CompleteWriteGives
    <2>. HIDE DEF after
    <2>3. ASSUME NEW d \in Clients, saves'[d].installed, saves'[d].queued # NoPdata
          PROVE  saves'[d] = saves[d] /\ (d = c => ~ownSave \/ saves[c].queued # w.pdata)
      BY <1>1, <2>1, <2>2, <2>3
    <2>4. ASSUME NEW d \in Clients, saves'[d].installed, saves'[d].queued # NoPdata
          PROVE  \E v \in writes' : /\ v.client = d /\ v.uid = saves'[d].uid
                                    /\ v.pdata = saves'[d].queued
      <3>1. saves'[d] = saves[d] /\ (d = c => ~ownSave \/ saves[c].queued # w.pdata)
        BY <2>3, <2>4
      <3>2. PICK v \in writes : v.client = d /\ v.uid = saves[d].uid /\ v.pdata = saves[d].queued
        BY <2>4, <3>1 DEF QueuedIsInFlight
      <3>3. v # w
        BY <2>4, <3>1, <3>2
      <3>. QED
        BY <2>1, <3>1, <3>2, <3>3
    <2>. QED
      BY <2>4 DEF QueuedIsInFlight
  <1>. QED
    BY <1>2, <1>4, <1>5 DEF RequestThreads

(* Skipping a write as AlreadyQueued loses nothing: while a save is        *)
(* installed, its queued snapshot is carried by a write thread             *)
(* (WriteRemoteSave, RemotePdataWriteCompleted).                           *)
THEOREM MarkerNeverStale == Spec => []QueuedIsInFlight
  <1>1. Init => QueuedIsInFlight
    BY DEF Init, QueuedIsInFlight, NoSave
  <1>2. Inv /\ QueuedIsInFlight /\ [Next]_vars => QueuedIsInFlight'
    <2>1. SUFFICES ASSUME Inv, QueuedIsInFlight, [Next]_vars PROVE QueuedIsInFlight'
      OBVIOUS
    <2>2. CASE UNCHANGED vars
      BY <2>1, <2>2 DEF vars, QueuedIsInFlight
    <2>. QED
      BY <2>1, <2>2, GameThreadCarries, RequestThreadsCarry DEF Next
  <1>. QED
    BY <1>1, <1>2, Invariance, PTL DEF Spec

-----------------------------------------------------------------------------
(* The baseline                                                            *)

(* The baseline moves only to the newest submitted snapshot: an older      *)
(* request that finishes later changes nothing (CompleteWrite).            *)
THEOREM BaselineNewest == Spec => NewestSnapshotOnly
  <1>1. Inv /\ [Next]_vars => [BaselineMovesToQueued]_vars
    <2>1. SUFFICES ASSUME Inv, Next PROVE BaselineMovesToQueued
      OBVIOUS
    <2>2. /\ saves \in [Clients -> Saves] /\ writes \subseteq Writes
      BY <2>1 DEF Inv, TypeOK
    <2>3. CASE saves' = saves \/ writes' = writes
      BY <2>3 DEF BaselineMovesToQueued
    <2>4. ASSUME NEW clients \in SUBSET Clients, NEW keep \in BOOLEAN,
                 WriteRemoteSave(clients, keep)
          PROVE  BaselineMovesToQueued
      <3>1. \A c \in Clients : saves'[c].installed => saves'[c].pdata = saves[c].pdata
        BY <2>1, <2>4, WriteGives
      <3>. QED
        BY <3>1 DEF BaselineMovesToQueued
    <2>5. ASSUME NEW w \in writes, NEW accepted \in BOOLEAN, WriteCompletes(w, accepted)
          PROVE  BaselineMovesToQueued
      <3>. DEFINE c == w.client
                  after == CompleteWrite(saves[c], w.pdata, accepted)
      <3>1. /\ saves' = saves \/ saves' = [saves EXCEPT ![c] = after]
            /\ c \in Clients /\ w.pdata \in Pdata
        BY <2>2, <2>5 DEF WriteCompletes, Writes
      <3>2. after.pdata # saves[c].pdata => after.pdata = saves[c].queued
        BY <2>2, <3>1, CompleteWriteGives
      <3>. HIDE DEF after
      <3>. QED
        BY <2>2, <3>1, <3>2 DEF BaselineMovesToQueued
    <2>6. CASE GameThread
      <3>1. \A c \in Clients : {c} \in SUBSET Clients
        OBVIOUS
      <3>2. \/ writes' = writes
            \/ \E clients \in SUBSET Clients, keep \in BOOLEAN : WriteRemoteSave(clients, keep)
        BY <2>6, <3>1
           DEF GameThread, ConnectRequest, ConnectWithoutRecord, BotJoins, SignonFull,
               EngineResetsSlot, Play, BufferReplaced, ReadInstalledSave, InstallSaveAgain,
               InstallPendingSave, PlayWithoutSave, EarlyWrite, MapChange, Disconnect
      <3>. QED
        BY <2>3, <2>4, <3>2
    <2>7. CASE RequestThreads
      BY <2>3, <2>5, <2>7 DEF RequestThreads, FetchSave, AtlasStores, AtlasDoesNotStore
    <2>. QED
      BY <2>1, <2>6, <2>7 DEF Next
  <1>. QED
    BY <1>1, Invariance, PTL DEF Spec, NewestSnapshotOnly

-----------------------------------------------------------------------------
(* New connections                                                         *)

(* The step connects client c and leaves the save and the buffer of every  *)
(* owner d as they are.                                                    *)
LeavesOwners ==
    \A c, d \in Clients :
        (/\ slots[c].signon = 0 /\ slots'[c].signon = kSignonConnected
         /\ saves[d].installed)
        => saves'[d] = saves[d] /\ (d # c => slots'[d] = slots[d])

(* A client that was just connected matches, so SelectSlot has a slot that *)
(* owns no save to choose.                                                 *)
LEMMA SelectedOwnsNoSave ==
  ASSUME Inv, NEW uid \in Uids, NEW h \in BOOLEAN, NEW c \in Clients, NEW e \in Clients,
         NEW sl \in [Clients -> Slots], ScopeMatchesClient(h, c), ~saves[c].installed,
         sl[c].uid = uid, sl[c].signon = kSignonConnected, IsSelectedSlot(e, sl, uid, h)
  PROVE  ~saves[e].installed
  <1>1. c \in MatchingSlots(sl, uid, h)
    BY UidsAssumption DEF MatchingSlots, IsFake, kSignonConnected
  <1>. QED
    BY <1>1 DEF IsSelectedSlot, PreferredSlots

LEMMA ConnectRequestLeavesOwners ==
  ASSUME Inv, NEW uid \in Uids, NEW h \in BOOLEAN, ConnectRequest(uid, h)
  PROVE  LeavesOwners
  <1>. DEFINE p == offers[uid][h]
              scope == {d \in Clients : ScopeMatchesClient(h, d)}
  <1>1. /\ slots \in [Clients -> Slots] /\ saves \in [Clients -> Saves]
        /\ \A d \in Clients : saves[d].installed => slots[d].signon # 0
        /\ p \in Pdata
    BY DEF Inv, TypeOK, Owned, SaveOwned, ConnectRequest
  <1>2. PICK sl \in {slots} \cup EngineConnects(uid, scope) : InstallRemoteSaveAtConnect(sl, uid, h, p)
    BY DEF ConnectRequest
  <1>3. sl \in [Clients -> Slots]
    BY <1>2, ConnectGives
  <1>. HIDE DEF p
  <1>4. \/ slots' = sl /\ saves' = saves
        \/ \E e \in Clients : /\ IsSelectedSlot(e, sl, uid, h)
                              /\ slots' = [sl EXCEPT ![e] = RemoteReady(@, p)]
                              /\ saves' = [saves EXCEPT ![e] = InstallRemoteSave(@, uid, p)]
    BY <1>2 DEF InstallRemoteSaveAtConnect
  <1>5. \A d \in Clients : slots'[d].signon = sl[d].signon
    BY <1>1, <1>3, <1>4, RemoteReadyGives
  <1>6. CASE sl = slots
    BY <1>5, <1>6 DEF LeavesOwners, kSignonConnected
  <1>7. CASE sl \in EngineConnects(uid, scope)
    <2>. DEFINE connected == [EmptySlot EXCEPT !.uid = uid, !.signon = kSignonConnected]
    <2>1. PICK c \in Clients : /\ ScopeMatchesClient(h, c) /\ slots[c].signon = 0
                               /\ sl = [slots EXCEPT ![c] = connected]
      BY <1>7 DEF EngineConnects
    <2>2. /\ sl[c].uid = uid /\ sl[c].signon = kSignonConnected /\ ~saves[c].installed
          /\ \A d \in Clients : d # c => sl[d] = slots[d]
      BY <1>1, <2>1 DEF EmptySlot
    <2>. HIDE DEF connected
    <2>3. \A d \in Clients : saves[d].installed => saves'[d] = saves[d] /\ (d # c => slots'[d] = sl[d])
      <3>1. CASE slots' = sl /\ saves' = saves
        BY <3>1
      <3>2. ASSUME NEW e \in Clients, IsSelectedSlot(e, sl, uid, h),
                   slots' = [sl EXCEPT ![e] = RemoteReady(@, p)],
                   saves' = [saves EXCEPT ![e] = InstallRemoteSave(@, uid, p)]
            PROVE  \A d \in Clients : saves[d].installed => saves'[d] = saves[d] /\ slots'[d] = sl[d]
        <4>1. ~saves[e].installed
          BY <1>3, <2>1, <2>2, <3>2, SelectedOwnsNoSave
        <4>2. \A d \in Clients : d # e => saves'[d] = saves[d] /\ slots'[d] = sl[d]
          BY <1>1, <1>3, <3>2
        <4>. QED
          BY <4>1, <4>2
      <3>. QED
        BY <1>4, <3>1, <3>2
    <2>4. \A d \in Clients : slots[d].signon = 0 /\ slots'[d].signon = kSignonConnected => d = c
      BY <1>5, <2>2 DEF kSignonConnected
    <2>. QED
      BY <2>2, <2>3, <2>4 DEF LeavesOwners
  <1>. QED
    BY <1>2, <1>6, <1>7

LEMMA GameThreadLeavesOwners ==
  ASSUME Inv, GameThread
  PROVE  LeavesOwners
  <1>1. /\ slots \in [Clients -> Slots] /\ saves \in [Clients -> Saves] /\ hook \in Hooks
        /\ \A d \in Clients : saves[d].installed => slots[d].signon # 0
    BY DEF Inv, TypeOK, Owned, SaveOwned
  <1>2. ASSUME \A c \in Clients : slots'[c].signon = kSignonConnected => slots[c].signon # 0
        PROVE  LeavesOwners
    BY <1>2 DEF LeavesOwners
  <1>3. ASSUME NEW c \in Clients, NEW slot, slots' = [slots EXCEPT ![c] = slot], saves' = saves
        PROVE  LeavesOwners
    <2>1. \A d \in Clients : d # c => slots'[d] = slots[d]
      BY <1>1, <1>3
    <2>. QED
      BY <1>1, <1>3, <2>1 DEF LeavesOwners, kSignonConnected
  <1>4. ASSUME NEW u \in Uids, ConnectWithoutRecord(u) PROVE LeavesOwners
    BY <1>3, <1>4 DEF ConnectWithoutRecord, EngineConnects
  <1>5. ASSUME NEW c \in Clients,
               \/ BotJoins(c) \/ SignonFull(c) \/ EngineResetsSlot(c) \/ Play(c) \/ BufferReplaced(c)
        PROVE  LeavesOwners
    <2>1. saves' = saves /\ \E slot : slots' = [slots EXCEPT ![c] = slot]
      BY <1>5 DEF BotJoins, SignonFull, EngineResetsSlot, Play, BufferReplaced
    <2>. QED
      BY <1>3, <2>1
  <1>6. ASSUME NEW c \in Clients, NEW p \in Pdata, slots' = [slots EXCEPT ![c] = RemoteReady(@, p)]
        PROVE  LeavesOwners
    BY <1>1, <1>2, <1>6, RemoteReadyGives DEF kSignonConnected
  <1>7. ASSUME NEW c \in Clients, MarkInsecure(c) PROVE LeavesOwners
    BY <1>1, <1>2, <1>7 DEF MarkInsecure, kSignonConnected
  <1>8. ASSUME NEW c \in Clients, InstallPendingSave(c) \/ PlayWithoutSave(c) PROVE LeavesOwners
    <2>1. \A i \in DOMAIN pending : pending[i].pdata \in Pdata
      BY DEF Inv, Owned, PendingOwned, Served, TypeOK
    <2>2. PendingFor(c) \subseteq DOMAIN pending
      BY DEF PendingFor
    <2>3. \/ \E p \in Pdata : slots' = [slots EXCEPT ![c] = RemoteReady(@, p)]
          \/ MarkInsecure(c)
      BY <1>8, <2>1, <2>2 DEF InstallPendingSave, PlayWithoutSave
    <2>. QED
      BY <1>6, <1>7, <2>3
  <1>9. CASE InstallSaveAgain
    BY <1>1, <1>6, <1>9 DEF InstallSaveAgain, Inv, Owned, HookOwned, Served, TypeOK, Hooks
  <1>10. ASSUME NEW c \in Clients, Disconnect(c) PROVE LeavesOwners
    BY <1>1, <1>2, <1>10 DEF Disconnect, EmptySlot, kSignonConnected
  <1>11. CASE MapChange \/ \E c \in Clients : EarlyWrite(c) \/ ReadInstalledSave(c)
    <2>1. slots' = slots
      BY <1>11 DEF MapChange, EarlyWrite, ReadInstalledSave
    <2>. QED
      BY <1>2, <2>1 DEF kSignonConnected
  <1>. QED
    BY <1>4, <1>5, <1>8, <1>9, <1>10, <1>11, ConnectRequestLeavesOwners DEF GameThread

(* A new connection never disturbs a save another slot owns, nor the live  *)
(* buffer of that slot, also among duplicates of one account: the engine   *)
(* connects it into a free slot, which SelectSlot prefers.                 *)
THEOREM ConnectionsLeaveOwners == Spec => NewConnectionLeavesOwners
  <1>1. Inv /\ [Next]_vars => [LeavesOwners]_vars
    <2>1. SUFFICES ASSUME Inv, Next PROVE LeavesOwners
      OBVIOUS
    <2>2. CASE RequestThreads
      BY <2>2 DEF RequestThreads, FetchSave, AtlasStores, AtlasDoesNotStore, WriteCompletes,
                  LeavesOwners, kSignonConnected
    <2>. QED
      BY <2>1, <2>2, GameThreadLeavesOwners DEF Next
  <1>. QED
    BY <1>1, Invariance, PTL DEF Spec, NewConnectionLeavesOwners, LeavesOwners

-----------------------------------------------------------------------------
(* Refinement                                                              *)

LEMMA CustodyInit ==
  ASSUME Init
  PROVE  Custody!Init
  <1>1. SaveHolder = [c \in Clients |-> NoUid]
    BY DEF Init, SaveHolder, NoSave
  <1>2. UndecidedWrites = {}
    BY DEF Init, UndecidedWrites
  <1>3. atlas \in [Uids -> Pdata]
    BY DEF Init
  <1>. QED
    BY <1>1, <1>2, <1>3 DEF Custody!Init

(* A step that leaves the installed flags and accounts, the undecided      *)
(* writes and Atlas alone is no step of SaveCustody.                       *)
LEMMA CustodyStutter ==
  ASSUME \A c \in Clients : /\ saves'[c].installed = saves[c].installed
                            /\ saves'[c].uid = saves[c].uid,
         UndecidedWrites' = UndecidedWrites, atlas' = atlas
  PROVE  UNCHANGED Custody!vars
  <1>1. SaveHolder' = SaveHolder
    BY DEF SaveHolder
  <1>. QED
    BY <1>1 DEF Custody!vars

LEMMA CustodyHold ==
  ASSUME Inv, NEW c \in Clients, NEW uid \in Uids, NEW p \in Pdata,
         saves[c].installed => saves[c].uid = uid,
         saves' = [saves EXCEPT ![c] = InstallRemoteSave(@, uid, p)],
         writes' = writes, atlas' = atlas
  PROVE  Custody!Next
  <1>1. saves \in [Clients -> Saves]
    BY DEF Inv, TypeOK
  <1>2. SaveHolder[c] \in {NoUid, uid}
    BY DEF SaveHolder
  <1>3. SaveHolder' = [SaveHolder EXCEPT ![c] = uid]
    <2>. DEFINE save == InstallRemoteSave(saves[c], uid, p)
    <2>1. save.installed /\ save.uid = uid
      BY <1>1, InstallGives
    <2>2. \A d \in Clients : saves'[d] = IF d = c THEN save ELSE saves[d]
      BY <1>1
    <2>. HIDE DEF save
    <2>3. \A d \in Clients : SaveHolder'[d] = IF d = c THEN uid ELSE SaveHolder[d]
      BY <2>1, <2>2 DEF SaveHolder
    <2>4. SaveHolder' = [d \in Clients |-> SaveHolder'[d]] /\ SaveHolder = [d \in Clients |-> SaveHolder[d]]
      BY DEF SaveHolder
    <2>. QED
      BY <2>3, <2>4
  <1>4. Custody!Hold(c, uid)
    BY <1>2, <1>3 DEF Custody!Hold, UndecidedWrites
  <1>. QED
    BY <1>4 DEF Custody!Next

LEMMA CustodyRelease ==
  ASSUME Inv, NEW c \in Clients, MarkInsecure(c), writes' = writes, atlas' = atlas
  PROVE  Custody!Next
  <1>1. saves \in [Clients -> Saves]
    BY DEF Inv, TypeOK
  <1>. DEFINE save == [saves[c] EXCEPT !.installed = FALSE, !.queued = NoPdata]
  <1>2. ~save.installed
    BY <1>1 DEF Saves
  <1>3. \A d \in Clients : saves'[d] = IF d = c THEN save ELSE saves[d]
    BY <1>1 DEF MarkInsecure
  <1>. HIDE DEF save
  <1>4. \A d \in Clients : SaveHolder'[d] \in {SaveHolder[d], NoUid}
    BY <1>2, <1>3 DEF SaveHolder
  <1>5. DOMAIN SaveHolder' = Clients
    BY DEF SaveHolder
  <1>6. UndecidedWrites' = UndecidedWrites
    BY DEF UndecidedWrites
  <1>7. Custody!SubmitAndRelease
    BY <1>4, <1>5, <1>6 DEF Custody!SubmitAndRelease
  <1>. QED
    BY <1>7 DEF Custody!Next

LEMMA CustodySubmit ==
  ASSUME Inv, NEW clients \in SUBSET Clients, NEW keep \in BOOLEAN,
         WriteRemoteSave(clients, keep), atlas' = atlas
  PROVE  Custody!Next
  <1>1. /\ writes \subseteq writes' /\ WritesOwned'
        /\ \A w \in writes' \ writes :
              /\ w.client \in Clients /\ saves[w.client].installed
              /\ w.uid = saves[w.client].uid /\ w.stage = "sent"
        /\ \A c \in Clients : /\ saves'[c].uid = saves[c].uid
                              /\ saves'[c].installed => saves[c].installed
    BY WriteGives
  <1>2. \A c \in Clients : SaveHolder'[c] \in {SaveHolder[c], NoUid}
    BY <1>1 DEF SaveHolder
  <1>3. DOMAIN SaveHolder' = Clients
    BY DEF SaveHolder
  <1>4. UndecidedWrites \subseteq UndecidedWrites'
    BY <1>1 DEF UndecidedWrites
  <1>5. \A s \in UndecidedWrites' \ UndecidedWrites : Custody!OwnSubmission(s)
    BY <1>1 DEF UndecidedWrites, Custody!OwnSubmission, SaveHolder, WritesOwned, Belongs
  <1>6. Custody!SubmitAndRelease
    BY <1>2, <1>3, <1>4, <1>5 DEF Custody!SubmitAndRelease
  <1>. QED
    BY <1>6 DEF Custody!Next

LEMMA CustodyStep ==
  ASSUME Inv, Next
  PROVE  [Custody!Next]_(Custody!vars)
  <1>1. /\ slots \in [Clients -> Slots] /\ saves \in [Clients -> Saves]
        /\ writes \subseteq Writes /\ pending \in Seq(PendingEntries)
        /\ HookOwned /\ PendingOwned /\ OffersOwned
        /\ \A d \in Clients : SaveOwned(d)
    BY DEF Inv, TypeOK, Owned
  <1>2. ASSUME NEW u \in Uids, NEW h \in BOOLEAN, ConnectRequest(u, h)
        PROVE  [Custody!Next]_(Custody!vars)
    <2>. DEFINE p == offers[u][h]
                scope == {c \in Clients : ScopeMatchesClient(h, c)}
    <2>1. /\ writes' = writes /\ atlas' = atlas /\ p \in Pdata
      BY <1>2 DEF ConnectRequest, Inv, TypeOK
    <2>2. PICK sl \in {slots} \cup EngineConnects(u, scope) : InstallRemoteSaveAtConnect(sl, u, h, p)
      BY <1>2 DEF ConnectRequest
    <2>3. CASE saves' = saves
      BY <2>1, <2>3, CustodyStutter DEF UndecidedWrites
    <2>4. CASE \E c \in Clients : /\ IsSelectedSlot(c, sl, u, h)
                                  /\ saves' = [saves EXCEPT ![c] = InstallRemoteSave(@, u, p)]
      <3>1. PICK c \in Clients : /\ IsSelectedSlot(c, sl, u, h)
                                 /\ saves' = [saves EXCEPT ![c] = InstallRemoteSave(@, u, p)]
        BY <2>4
      <3>2. sl[c].uid = u
        BY <3>1 DEF IsSelectedSlot, PreferredSlots, MatchingSlots
      <3>3. saves[c].installed => sl[c].uid = slots[c].uid
        <4>1. scope \in SUBSET Clients
          OBVIOUS
        <4>. QED
          BY <2>2, <4>1, ConnectGives
      <3>4. saves[c].installed => saves[c].uid = u
        BY <1>1, <3>2, <3>3 DEF SaveOwned
      <3>. QED
        BY <2>1, <3>1, <3>4, CustodyHold
    <2>. QED
      BY <2>2, <2>3, <2>4 DEF InstallRemoteSaveAtConnect
  <1>3. CASE \/ \E u \in Uids : ConnectWithoutRecord(u)
             \/ \E c \in Clients : \/ BotJoins(c) \/ SignonFull(c) \/ EngineResetsSlot(c)
                                   \/ Play(c) \/ BufferReplaced(c) \/ ReadInstalledSave(c)
             \/ \E u \in Uids, h \in BOOLEAN : FetchSave(u, h)
    <2>1. saves' = saves /\ writes' = writes /\ atlas' = atlas
      BY <1>3 DEF ConnectWithoutRecord, BotJoins, SignonFull, EngineResetsSlot, Play,
                  BufferReplaced, ReadInstalledSave, FetchSave
    <2>. QED
      BY <2>1, CustodyStutter DEF UndecidedWrites
  <1>4. ASSUME InstallSaveAgain PROVE [Custody!Next]_(Custody!vars)
    <2>1. /\ hook.client \in Clients /\ hook.uid \in Uids /\ hook.pdata \in Pdata
          /\ hook.uid = slots[hook.client].uid
          /\ saves' = [saves EXCEPT ![hook.client] = InstallRemoteSave(@, hook.uid, hook.pdata)]
          /\ writes' = writes /\ atlas' = atlas
      BY <1>1, <1>4 DEF InstallSaveAgain, HookOwned, Hooks, Served, Inv, TypeOK
    <2>2. saves[hook.client].installed => saves[hook.client].uid = hook.uid
      BY <1>1, <2>1 DEF SaveOwned
    <2>. QED
      BY <2>1, <2>2, CustodyHold
  <1>5. ASSUME NEW c \in Clients, InstallPendingSave(c) PROVE [Custody!Next]_(Custody!vars)
    <2>1. writes' = writes /\ atlas' = atlas
      BY <1>5 DEF InstallPendingSave
    <2>2. PICK i \in PendingFor(c) :
             \/ saves' = [saves EXCEPT ![c] = InstallRemoteSave(@, slots[c].uid, pending[i].pdata)]
             \/ MarkInsecure(c)
      BY <1>5 DEF InstallPendingSave
    <2>3. /\ i \in DOMAIN pending /\ pending[i] \in PendingEntries
          /\ pending[i].uid = slots[c].uid
      BY <1>1, <2>2 DEF PendingFor
    <2>4. slots[c].uid \in Uids /\ pending[i].pdata \in Pdata
      BY <2>3 DEF PendingEntries
    <2>5. saves[c].installed => saves[c].uid = slots[c].uid
      BY <1>1 DEF SaveOwned
    <2>. QED
      BY <2>1, <2>2, <2>4, <2>5, CustodyHold, CustodyRelease
  <1>6. ASSUME NEW c \in Clients, PlayWithoutSave(c) PROVE [Custody!Next]_(Custody!vars)
    BY <1>6, CustodyRelease DEF PlayWithoutSave
  <1>7. CASE \/ \E c \in Clients : EarlyWrite(c) \/ Disconnect(c)
             \/ MapChange
    <2>1. \A c \in Clients : {c} \in SUBSET Clients
      OBVIOUS
    <2>2. /\ \E clients \in SUBSET Clients, keep \in BOOLEAN : WriteRemoteSave(clients, keep)
          /\ atlas' = atlas
      BY <1>7, <2>1 DEF EarlyWrite, Disconnect, MapChange
    <2>. QED
      BY <2>2, CustodySubmit
  <1>8. ASSUME NEW w \in writes, NEW stage \in {"stored", "lost"}, w.stage = "sent",
               writes' = AtStage(w, stage), saves' = saves
        PROVE  /\ w \in UndecidedWrites /\ UndecidedWrites' = UndecidedWrites \ {w}
               /\ SaveHolder' = SaveHolder
    <2>. DEFINE decided == [w EXCEPT !.stage = stage]
    <2>1. decided.stage # "sent"
      BY <1>1 DEF Writes
    <2>2. writes' = (writes \ {w}) \cup {decided}
      BY <1>8 DEF AtStage
    <2>. HIDE DEF decided
    <2>. QED
      BY <1>8, <2>1, <2>2 DEF UndecidedWrites, SaveHolder
  <1>9. ASSUME NEW w \in writes, AtlasStores(w) PROVE [Custody!Next]_(Custody!vars)
    <2>1. Custody!Store(w) /\ w \in UndecidedWrites
      BY <1>8, <1>9 DEF AtlasStores, Custody!Store
    <2>. QED
      BY <2>1 DEF Custody!Next
  <1>10. ASSUME NEW w \in writes, AtlasDoesNotStore(w) PROVE [Custody!Next]_(Custody!vars)
    <2>1. Custody!Lose(w) /\ w \in UndecidedWrites
      BY <1>8, <1>10 DEF AtlasDoesNotStore, Custody!Lose
    <2>. QED
      BY <2>1 DEF Custody!Next
  <1>11. ASSUME NEW w \in writes, NEW accepted \in BOOLEAN, WriteCompletes(w, accepted)
         PROVE  [Custody!Next]_(Custody!vars)
    <2>. DEFINE c == w.client
                after == CompleteWrite(saves[c], w.pdata, accepted)
    <2>1. /\ saves' = saves \/ saves' = [saves EXCEPT ![c] = after]
          /\ writes' = writes \ {w} /\ atlas' = atlas /\ w.stage # "sent"
          /\ c \in Clients /\ w.pdata \in Pdata
      BY <1>1, <1>11 DEF WriteCompletes, Writes
    <2>2. after.installed = saves[c].installed /\ after.uid = saves[c].uid
      BY <1>1, <2>1, CompleteWriteGives
    <2>. HIDE DEF after
    <2>3. \A d \in Clients : saves'[d].installed = saves[d].installed /\ saves'[d].uid = saves[d].uid
      BY <1>1, <2>1, <2>2
    <2>4. UndecidedWrites' = UndecidedWrites
      BY <2>1 DEF UndecidedWrites
    <2>. QED
      BY <2>1, <2>3, <2>4, CustodyStutter
  <1>. QED
    BY <1>2, <1>3, <1>4, <1>5, <1>6, <1>7, <1>9, <1>10, <1>11 DEF Next, GameThread, RequestThreads

(* RemoteSaves keeps the custody of saves that SaveCustody promises: one   *)
(* account's save at a time in a slot, only that account's data submitted  *)
(* from it, and Atlas changed only to what was submitted.                  *)
THEOREM KeepsCustody == Spec => CustodyKept
  <1>1. Init => Custody!Init
    BY CustodyInit
  <1>2. Inv /\ [Next]_vars => [Custody!Next]_(Custody!vars)
    <2>1. SUFFICES ASSUME Inv, [Next]_vars PROVE [Custody!Next]_(Custody!vars)
      OBVIOUS
    <2>2. CASE UNCHANGED vars
      <3>1. UNCHANGED Custody!vars
        BY <2>2 DEF vars, Custody!vars, SaveHolder, UndecidedWrites
      <3>. QED
        BY <3>1
    <2>. QED
      BY <2>1, <2>2, CustodyStep
  <1>. QED
    BY <1>1, <1>2, Invariance, PTL DEF Spec, CustodyKept, Custody!Spec

=============================================================================
