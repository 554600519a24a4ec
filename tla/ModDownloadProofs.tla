-------------------------- MODULE ModDownloadProofs --------------------------
(***************************************************************************)
(* What ModDownload promises of an install, for any set of mods and any    *)
(* number of faults: there is one worker at a time, and what it has left   *)
(* in each of the three directories follows from where it is.              *)
(***************************************************************************)
EXTENDS ModDownload, TLAPS

WorkerType ==
    [id : 1 .. MaxWorkers, kind : {"list", "mod"}, mod : Mods \cup {"none"},
     pc : WorkerPlaces, result : Results, cancelled : BOOLEAN]

OneWorker == \A v, w \in workers : v = w

(* The old copy is aside, or what came of it is not yet settled.           *)
Replacing == {"moveIn", "restore", "deleteOld"}

(* What a worker has done by the step it is at.                            *)
WorkerHolds(w) ==
    /\ w.kind = "list" => w.pc \in {"start", "done", "free"}
    /\ w.kind = "mod" => w.mod \in Mods /\ w.pc # "done"
    /\ w.pc = "entries" => staging.mod = w.mod
    /\ w.pc \in {"commit", "moveAside", "moveIn"} => staging = Complete(w.mod)
    /\ w.pc = "moveAside" => replaced = Nothing
    /\ w.pc \in Replacing => replaced \in {Nothing, Complete(w.mod)}
    /\ w.pc \in {"moveAside", "moveIn", "restore"} => w.mod \notin good
    /\ w.pc = "deleteOld" => installed[w.mod] = Complete(w.mod)

(* A cancel that came in time is seen when the transfer ends.              *)
CancelHolds(w) ==
    w.cancelled =>
        /\ w.kind = "mod"
        /\ w.pc \in {"start", "fetch", "fetchFailed", "finish", "report", "store", "free"}
        /\ w.pc \in {"start", "fetch", "fetchFailed"} => modDownloadCancel = TRUE

WorkersHold == \A w \in workers : WorkerHolds(w) /\ CancelHolds(w)

(* Without a fault nothing is left aside once a commit is over.            *)
NothingLeftAside ==
    faults = 0 /\ (\A w \in workers : w.pc \notin Replacing) => replaced = Nothing

(* A catalog that misses an install is one whose install is yet to be      *)
(* announced, or seen.                                                     *)
Announces(w) == w.pc = "deleteOld" \/ (w.pc = "finish" /\ w.result = "DONE")
CatalogHolds ==
    catalog.ready /\ modInstalledPending = FALSE /\ (\A w \in workers : ~Announces(w))
        => good \subseteq catalog.mods

DiskHolds == OnlyWholeCopies /\ good \subseteq InstalledMods

Inv == /\ TypeOK /\ OneWorker /\ WorkersHold /\ NothingLeftAside /\ CatalogHolds /\ DiskHolds
       /\ ui.at = "download" => ui.mod \in Mods

USE BoundsAssumption

-----------------------------------------------------------------------------
LEMMA DirectoriesDiffer ==
    /\ \A m : Complete(m) # Nothing
    /\ \A m, n : Complete(m) = Complete(n) => m = n
  BY DEF Complete, Nothing

(* A worker is the only one, and stays so where it goes.                   *)
LEMMA OnlyWorker ==
    ASSUME Inv, NEW w \in workers
    PROVE  /\ w \in WorkerType
           /\ \A v : Becomes(w, v) => workers' = {v}
           /\ WorkerHolds(w) /\ CancelHolds(w)
           /\ modWorkerBusy = TRUE
  BY DEF Inv, TypeOK, WorkerType, OneWorker, Becomes, WorkersHold

LEMMA InitInv == Init => Inv
  <1> SUFFICES ASSUME Init PROVE Inv
    OBVIOUS
  <1>1. TypeOK
    <2>1. {modDownloadCancel, modWorkerBusy, modInstalledPending, verifiedMods} \subseteq BOOLEAN
      BY DEF Init
    <2>2. /\ catalog \in [ready : BOOLEAN, mods : SUBSET Mods]
          /\ ui \in [at : {"idle", "fetchList", "download"}, mod : Mods \cup {"none"}]
      BY DEF Init, NoCatalog, UiIdle
    <2> QED
      BY <2>1, <2>2 DEF Init, TypeOK, States, Directories
  <1>2. OneWorker /\ WorkersHold /\ NothingLeftAside
    BY DEF Init, OneWorker, WorkersHold, NothingLeftAside
  <1>3. CatalogHolds /\ DiskHolds
    BY DEF Init, NoCatalog, CatalogHolds, DiskHolds, OnlyWholeCopies
  <1>4. ui.at # "download"
    BY DEF Init, UiIdle
  <1> QED
    BY <1>1, <1>2, <1>3, <1>4 DEF Inv

-----------------------------------------------------------------------------
(* The UI thread leaves the disk alone. *)

LEMMA FetchVerifiedModsInv == Inv /\ FetchVerifiedMods => Inv'
  BY DEF Inv, TypeOK, OneWorker, WorkersHold, WorkerHolds, CancelHolds, NothingLeftAside, CatalogHolds, DiskHolds,
         OnlyWholeCopies, InstalledMods, States, disk, FetchVerifiedMods

(* A worker is started only when there is none.                            *)
LEMMA StartInv ==
    ASSUME Inv, NEW kind \in {"list", "mod"}, NEW m \in Mods \cup {"none"},
           kind = "mod" => m \in Mods,
           NEW state \in States, StartModWorker(kind, m, state), ui' = UiIdle,
           UNCHANGED <<modDownloadCancel, modInstalledPending, verifiedMods, catalog,
                       disk, good, faults>>
    PROVE  Inv'
  <1>1. CASE UNCHANGED <<modWorkerBusy, workers>> /\ modInstallState' = state
    BY <1>1 DEF Inv, TypeOK, OneWorker, WorkersHold, WorkerHolds, CancelHolds, NothingLeftAside,
                CatalogHolds, DiskHolds, OnlyWholeCopies, InstalledMods, UiIdle, disk
  <1>2. ASSUME NEW id \in 1 .. MaxWorkers, MayStart, workers' = workers \cup {NewWorker(id, kind, m)},
               modWorkerBusy' = TRUE, UNCHANGED modInstallState
        PROVE  Inv'
    <2> DEFINE v == NewWorker(id, kind, m)
    <2>1. workers = {} /\ workers' = {v}
      BY <1>2 DEF Inv, TypeOK, MayStart
    <2>2. /\ v \in WorkerType /\ v.pc = "start" /\ v.kind = kind /\ v.mod = m
          /\ v.cancelled = FALSE
      BY DEF NewWorker, WorkerType, WorkerPlaces, Results
    <2> HIDE DEF v
    <2>3. TypeOK'
      BY <1>2, <2>1, <2>2 DEF Inv, TypeOK, WorkerType, UiIdle, disk
    <2>4. WorkersHold'
      BY <2>1, <2>2 DEF WorkersHold, WorkerHolds, CancelHolds, Replacing
    <2>5. NothingLeftAside' /\ CatalogHolds'
      BY <2>1, <2>2 DEF Inv, NothingLeftAside, CatalogHolds, Announces, disk
    <2> QED
      BY <2>1, <2>3, <2>4, <2>5 DEF Inv, OneWorker, DiskHolds, OnlyWholeCopies, InstalledMods, UiIdle, disk
  <1> QED
    BY <1>1, <1>2 DEF StartModWorker

LEMMA FetchVerifiedModsStartsInv == Inv /\ FetchVerifiedModsStarts => Inv'
  BY StartInv DEF FetchVerifiedModsStarts, States, Results

LEMMA DownloadModStartsInv == Inv /\ DownloadModStarts => Inv'
  BY StartInv DEF DownloadModStarts, States, Results, Inv

LEMMA DownloadRefusedInv == Inv /\ DownloadRefused => Inv'
  BY DEF Inv, TypeOK, OneWorker, WorkersHold, WorkerHolds, CancelHolds, NothingLeftAside, CatalogHolds,
         DiskHolds, OnlyWholeCopies, InstalledMods, States, Results, disk, DownloadRefused

(* Marking a worker changes its history and nothing else.                 *)
LEMMA MarkedInv ==
    ASSUME Inv, NEW w \in workers, NEW mark \in BOOLEAN,
           workers' = {[w EXCEPT !.cancelled = mark]},
           mark => CancelHolds([w EXCEPT !.cancelled = mark])',
           modDownloadCancel' \in BOOLEAN, modInstallState' \in States,
           ui' \in [at : {"idle", "fetchList", "download"}, mod : Mods \cup {"none"}],
           ui'.at = "download" => ui'.mod \in Mods,
           UNCHANGED <<modWorkerBusy, modInstalledPending, verifiedMods, catalog, disk, good, faults>>
    PROVE  Inv'
  <1> DEFINE v == [w EXCEPT !.cancelled = mark]
  <1>1. /\ v \in WorkerType /\ v.cancelled = mark
        /\ v.kind = w.kind /\ v.mod = w.mod /\ v.pc = w.pc /\ v.result = w.result
    <2>1. w \in WorkerType
      BY OnlyWorker
    <2> QED
      BY ONLY <2>1 DEF WorkerType
  <1>2. workers = {w} /\ WorkerHolds(w) /\ modWorkerBusy = TRUE
    <2>1. workers = {w}
      BY DEF Inv, OneWorker
    <2> QED
      BY <2>1, OnlyWorker
  <1>3. CancelHolds(v)' /\ workers' = {v}
    BY <1>1 DEF CancelHolds
  <1> HIDE DEF v
  <1>4. TypeOK'
    BY <1>1, <1>2, <1>3 DEF Inv, TypeOK, WorkerType, disk
  <1>5. WorkersHold'
    BY <1>1, <1>2, <1>3 DEF WorkersHold, WorkerHolds, Replacing, disk
  <1>6. NothingLeftAside' /\ CatalogHolds'
    BY <1>1, <1>2, <1>3 DEF Inv, NothingLeftAside, CatalogHolds, Announces, disk
  <1> QED
    BY <1>2, <1>3, <1>4, <1>5, <1>6 DEF Inv, OneWorker, DiskHolds, OnlyWholeCopies, InstalledMods, disk

(* The same when there is no worker to mark.                               *)
LEMMA NoneMarkedInv ==
    ASSUME Inv, workers = {}, workers' = {},
           modDownloadCancel' \in BOOLEAN, modInstallState' \in States,
           ui' \in [at : {"idle", "fetchList", "download"}, mod : Mods \cup {"none"}],
           ui'.at = "download" => ui'.mod \in Mods,
           UNCHANGED <<modWorkerBusy, modInstalledPending, verifiedMods, catalog, disk, good, faults>>
    PROVE  Inv'
  BY DEF Inv, TypeOK, OneWorker, WorkersHold, NothingLeftAside, CatalogHolds, DiskHolds,
         OnlyWholeCopies, InstalledMods, disk

LEMMA DownloadModInv ==
    ASSUME Inv, NEW m \in Mods, DownloadMod(m)
    PROVE  Inv'
  <1>1. /\ modDownloadCancel' \in BOOLEAN /\ modInstallState' \in States
        /\ ui' \in [at : {"idle", "fetchList", "download"}, mod : Mods \cup {"none"}]
        /\ ui'.mod \in Mods
    BY DEF DownloadMod, States, Transferring
  <1>2. ASSUME NEW w \in workers PROVE Inv'
    <2>1. workers = {w}
      BY <1>2 DEF Inv, OneWorker
    <2>2. workers' = {[w EXCEPT !.cancelled = FALSE]}
      BY <2>1 DEF DownloadMod
    <2> QED
      BY <1>1, <2>2, MarkedInv DEF DownloadMod
  <1>3. CASE workers = {}
    BY <1>1, <1>3, NoneMarkedInv DEF DownloadMod
  <1> QED
    BY <1>2, <1>3

LEMMA CancelModDownloadInv ==
    ASSUME Inv, CancelModDownload
    PROVE  Inv'
  <1>1. /\ modDownloadCancel' \in BOOLEAN /\ modInstallState' \in States
        /\ ui' \in [at : {"idle", "fetchList", "download"}, mod : Mods \cup {"none"}]
        /\ ui' = ui /\ ui.at # "download"
    BY DEF CancelModDownload, States, Results, Inv, TypeOK, UiIdle
  <1>2. ASSUME NEW w \in workers PROVE Inv'
    <2> DEFINE mark == w.cancelled \/ CancelledInTime(w)
    <2>1. workers = {w}
      BY <1>2 DEF Inv, OneWorker
    <2>2. workers' = {[w EXCEPT !.cancelled = mark]}
      BY <2>1 DEF CancelModDownload
    <2>3. mark \in BOOLEAN /\ w \in WorkerType
      BY OnlyWorker DEF WorkerType
    <2>4. mark => CancelHolds([w EXCEPT !.cancelled = mark])'
      <3>1. CancelHolds(w) /\ modDownloadCancel' = TRUE
        BY OnlyWorker DEF CancelModDownload
      <3>2. /\ [w EXCEPT !.cancelled = mark].pc = w.pc
            /\ [w EXCEPT !.cancelled = mark].kind = w.kind
        BY <2>3 DEF WorkerType
      <3> QED
        BY <3>1, <3>2 DEF CancelHolds, CancelledInTime
    <2> HIDE DEF mark
    <2> QED
      BY <1>1, <2>2, <2>3, <2>4, MarkedInv DEF CancelModDownload
  <1>3. CASE workers = {}
    BY <1>1, <1>3, NoneMarkedInv DEF CancelModDownload
  <1> QED
    BY <1>2, <1>3

LEMMA GetModInstallStateInv == Inv /\ GetModInstallState => Inv'
  <1> SUFFICES ASSUME Inv, GetModInstallState PROVE Inv'
    OBVIOUS
  <1>1. catalog' = NoCatalog
    BY DEF GetModInstallState, CatalogAfterPoll
  <1>2. TypeOK'
    <2>1. {modDownloadCancel', modWorkerBusy', modInstalledPending', verifiedMods'} \subseteq BOOLEAN
      BY DEF Inv, TypeOK, GetModInstallState
    <2>2. catalog' \in [ready : BOOLEAN, mods : SUBSET Mods]
      BY <1>1 DEF NoCatalog
    <2> QED
      BY <2>1, <2>2 DEF Inv, TypeOK, GetModInstallState, disk
  <1>3. CatalogHolds'
    BY <1>1 DEF CatalogHolds, NoCatalog
  <1> QED
    BY <1>2, <1>3 DEF GetModInstallState, Inv, OneWorker, WorkersHold, WorkerHolds, CancelHolds,
                      NothingLeftAside, DiskHolds, OnlyWholeCopies, InstalledMods, disk

LEMMA LoadCatalogInv == Inv /\ LoadCatalog => Inv'
  BY DEF Inv, TypeOK, OneWorker, WorkersHold, WorkerHolds, CancelHolds, NothingLeftAside, CatalogHolds,
         DiskHolds, OnlyWholeCopies, InstalledMods, disk, LoadCatalog

(* What a crash leaves is the disk, and nothing is half way.               *)
LEMMA CrashInv == Inv /\ Crash => Inv'
  <1> SUFFICES ASSUME Inv, Crash PROVE Inv'
    OBVIOUS
  <1>1. TypeOK'
    <2>1. {modDownloadCancel', modWorkerBusy', modInstalledPending', verifiedMods'} \subseteq BOOLEAN
      BY DEF Crash
    <2>2. /\ catalog' \in [ready : BOOLEAN, mods : SUBSET Mods]
          /\ ui' \in [at : {"idle", "fetchList", "download"}, mod : Mods \cup {"none"}]
      BY DEF Crash, NoCatalog, UiIdle
    <2>3. /\ faults' \in 0 .. MaxFaults /\ good' \subseteq Mods /\ workers' = {}
          /\ modInstallState' \in States
      BY DEF Inv, TypeOK, Crash, States, InstalledMods
    <2> QED
      BY <2>1, <2>2, <2>3 DEF Inv, TypeOK, Crash, disk
  <1>2. OneWorker' /\ WorkersHold' /\ NothingLeftAside'
    BY DEF Inv, TypeOK, Crash, OneWorker, WorkersHold, NothingLeftAside
  <1>3. CatalogHolds' /\ DiskHolds'
    BY DEF Inv, Crash, NoCatalog, CatalogHolds, DiskHolds, OnlyWholeCopies, InstalledMods, disk
  <1> QED
    BY <1>1, <1>2, <1>3 DEF Inv, Crash, UiIdle

-----------------------------------------------------------------------------
(* The worker. *)

(* A step that leaves the disk alone, outside the exchange of the copies.  *)
LEMMA QuietInv ==
    ASSUME Inv, NEW w \in workers, NEW v \in WorkerType, workers' = {v},
           WorkerHolds(v), CancelHolds(v), w.pc \notin Replacing, ~Announces(w),
           modInstallState' \in States, verifiedMods' \in BOOLEAN,
           UNCHANGED <<modDownloadCancel, modWorkerBusy, modInstalledPending, catalog, ui,
                       disk, good, faults>>
    PROVE  Inv'
  <1>1. workers = {w} /\ modWorkerBusy = TRUE
    <2>1. workers = {w}
      BY DEF Inv, OneWorker
    <2> QED
      BY <2>1, OnlyWorker
  <1>2. TypeOK'
    BY <1>1 DEF Inv, TypeOK, WorkerType, disk
  <1>3. WorkersHold'
    BY DEF WorkersHold, WorkerHolds, CancelHolds, Replacing, disk
  <1>4. NothingLeftAside' /\ CatalogHolds'
    BY <1>1 DEF Inv, NothingLeftAside, CatalogHolds, disk
  <1> QED
    BY <1>2, <1>3, <1>4 DEF Inv, OneWorker, DiskHolds, OnlyWholeCopies, InstalledMods, disk

(* Where a worker goes, it takes the rest along.                           *)
LEMMA GoesGives ==
    ASSUME Inv, NEW w \in workers, NEW pc \in WorkerPlaces, Goes(w, pc)
    PROVE  \E v \in WorkerType :
              /\ workers' = {v} /\ v.pc = pc
              /\ v.kind = w.kind /\ v.mod = w.mod /\ v.result = w.result /\ v.cancelled = w.cancelled
  <1> DEFINE v == [w EXCEPT !.pc = pc]
  <1>1. w \in WorkerType /\ workers' = {v}
    BY OnlyWorker DEF Goes
  <1>2. /\ v \in WorkerType /\ v.pc = pc
        /\ v.kind = w.kind /\ v.mod = w.mod /\ v.result = w.result /\ v.cancelled = w.cancelled
    BY <1>1 DEF WorkerType
  <1> QED
    BY <1>1, <1>2

LEMMA EndsGives ==
    ASSUME Inv, NEW w \in workers, NEW result \in Results, Ends(w, result)
    PROVE  \E v \in WorkerType :
              /\ workers' = {v} /\ v.pc = "finish" /\ v.result = result
              /\ v.kind = w.kind /\ v.mod = w.mod /\ v.cancelled = w.cancelled
  <1> DEFINE v == [w EXCEPT !.pc = "finish", !.result = result]
  <1>1. w \in WorkerType /\ workers' = {v}
    BY OnlyWorker DEF Ends
  <1>2. /\ v \in WorkerType /\ v.pc = "finish" /\ v.result = result
        /\ v.kind = w.kind /\ v.mod = w.mod /\ v.cancelled = w.cancelled
    BY <1>1 DEF WorkerType, WorkerPlaces
  <1> QED
    BY <1>1, <1>2

(* A failure before the exchange, and a step there that only goes on.      *)
LEMMA QuietEndInv ==
    ASSUME Inv, NEW w \in workers, NEW result \in Results, Ends(w, result),
           w.pc \in {"fetch", "fetchFailed", "checksum", "extract", "entries", "moveAside"},
           modInstallState' \in States,
           UNCHANGED <<modDownloadCancel, modWorkerBusy, modInstalledPending, verifiedMods,
                       catalog, ui, disk, good, faults>>
    PROVE  Inv'
  <1>1. PICK v \in WorkerType :
           /\ workers' = {v} /\ v.pc = "finish" /\ v.result = result
           /\ v.kind = w.kind /\ v.mod = w.mod /\ v.cancelled = w.cancelled
    BY EndsGives
  <1>2. WorkerHolds(w) /\ CancelHolds(w) /\ w \in WorkerType
    BY OnlyWorker
  <1>3. w.kind = "mod"
    BY <1>2 DEF WorkerHolds, WorkerType
  <1>4. WorkerHolds(v) /\ CancelHolds(v)
    BY <1>1, <1>2, <1>3 DEF WorkerHolds, CancelHolds, Replacing
  <1>5. w.pc \notin Replacing /\ ~Announces(w) /\ verifiedMods' \in BOOLEAN
    BY DEF Replacing, Announces, Inv, TypeOK
  <1> QED
    BY <1>1, <1>4, <1>5, QuietInv

LEMMA QuietGoInv ==
    ASSUME Inv, NEW w \in workers, NEW pc \in WorkerPlaces, Goes(w, pc),
           w.pc \notin Replacing, ~Announces(w),
           pc \in {"start", "done", "fetch", "fetchFailed", "checksum", "extract",
                   "report", "store", "free"},
           w.kind = "list" => pc \in {"done", "free"},
           w.kind = "mod" => pc # "done",
           pc \in {"fetch", "fetchFailed"} => w.pc = "start",
           w.cancelled => pc \in {"fetch", "fetchFailed", "report", "store", "free"},
           modInstallState' \in States, verifiedMods' \in BOOLEAN, pc # "start",
           UNCHANGED <<modDownloadCancel, modWorkerBusy, modInstalledPending,
                       catalog, ui, disk, good, faults>>
    PROVE  Inv'
  <1>1. PICK v \in WorkerType :
           /\ workers' = {v} /\ v.pc = pc
           /\ v.kind = w.kind /\ v.mod = w.mod /\ v.result = w.result /\ v.cancelled = w.cancelled
    BY GoesGives
  <1>2. WorkerHolds(w) /\ CancelHolds(w) /\ w \in WorkerType
    BY OnlyWorker
  <1>3. WorkerHolds(v)
    BY <1>1, <1>2 DEF WorkerHolds, Replacing
  <1>4. CancelHolds(v)
    BY <1>1, <1>2 DEF CancelHolds
  <1> QED
    BY <1>1, <1>3, <1>4, QuietInv

LEMMA ListPublishedInv == ASSUME Inv, NEW w \in workers, ListPublished(w) PROVE Inv'
  <1>1. ~w.cancelled
    BY OnlyWorker DEF ListPublished, CancelHolds
  <1> QED
    BY <1>1, QuietGoInv DEF ListPublished, Inv, TypeOK, WorkerPlaces, Replacing, Announces

LEMMA ListDoneInv == ASSUME Inv, NEW w \in workers, ListDone(w) PROVE Inv'
  BY QuietGoInv DEF ListDone, Inv, TypeOK, WorkerPlaces, Replacing, Announces, States, Results

LEMMA FetchInv == ASSUME Inv, NEW w \in workers, Fetch(w) PROVE Inv'
  BY QuietGoInv DEF Fetch, Inv, TypeOK, WorkerPlaces, Replacing, Announces, memory

LEMMA FetchedInv == ASSUME Inv, NEW w \in workers, Fetched(w) PROVE Inv'
  <1>1. CASE modDownloadCancel \/ w.pc = "fetchFailed"
    <2>1. Ends(w, "ABORTED") \/ Ends(w, "FAILED")
      BY <1>1 DEF Fetched
    <2> QED
      BY <2>1, QuietEndInv DEF Fetched, Results, memory, Inv, TypeOK
  <1>2. CASE ~(modDownloadCancel \/ w.pc = "fetchFailed")
    <2>1. ~w.cancelled /\ w.kind # "list"
      BY <1>2, OnlyWorker DEF Fetched, CancelHolds, WorkerHolds
    <2> QED
      BY <1>2, <2>1, QuietGoInv
      DEF Fetched, Inv, TypeOK, WorkerPlaces, Replacing, Announces, memory
  <1> QED
    BY <1>1, <1>2

LEMMA ChecksumInv == ASSUME Inv, NEW w \in workers, Checksum(w) PROVE Inv'
  <1>1. ~w.cancelled /\ w.kind # "list"
    BY OnlyWorker DEF Checksum, CancelHolds, WorkerHolds
  <1>2. modInstallState' \in States /\ verifiedMods' \in BOOLEAN
    BY DEF Checksum, States, Transferring, Inv, TypeOK
  <1>3. CASE Ends(w, "FAILED")
    BY <1>2, <1>3, QuietEndInv DEF Checksum, Results
  <1>4. CASE Goes(w, "extract")
    BY <1>1, <1>2, <1>4, QuietGoInv DEF Checksum, WorkerPlaces, Replacing, Announces
  <1> QED
    BY <1>3, <1>4 DEF Checksum

LEMMA ReportInv == ASSUME Inv, NEW w \in workers, Report(w) PROVE Inv'
  <1>1. w.kind # "list"
    BY OnlyWorker DEF Report, WorkerHolds
  <1>2. Goes(w, "free") \/ Goes(w, "store")
    BY DEF Report
  <1> QED
    BY <1>1, <1>2, QuietGoInv DEF Report, Inv, TypeOK, WorkerPlaces, Replacing, Announces, memory

LEMMA StoreResultInv == ASSUME Inv, NEW w \in workers, StoreResult(w) PROVE Inv'
  <1>1. w.kind # "list" /\ w \in WorkerType
    BY OnlyWorker DEF StoreResult, WorkerHolds
  <1> QED
    BY <1>1, QuietGoInv
    DEF StoreResult, Inv, TypeOK, WorkerPlaces, Replacing, Announces, WorkerType, States

(* A step that changes the disk: what is to be shown of it.                *)
LEMMA DiskInv ==
    ASSUME Inv, NEW w \in workers, NEW v \in WorkerType, workers' = {v},
           WorkerHolds(v)', CancelHolds(v)', NothingLeftAside', CatalogHolds', DiskHolds',
           installed' \in [Mods -> Directories], staging' \in Directories, replaced' \in Directories,
           good' \subseteq Mods, faults' \in 0 .. MaxFaults,
           modInstalledPending' \in BOOLEAN, modInstallState' \in States,
           UNCHANGED <<modDownloadCancel, modWorkerBusy, verifiedMods, catalog, ui>>
    PROVE  Inv'
  <1>1. modWorkerBusy = TRUE
    BY OnlyWorker
  <1>2. TypeOK'
    BY <1>1 DEF Inv, TypeOK, WorkerType
  <1>3. WorkersHold' /\ OneWorker'
    BY DEF WorkersHold, OneWorker
  <1> QED
    BY <1>2, <1>3 DEF Inv

(* The types a disk step keeps when it leaves something alone.             *)
LEMMA DiskTypes ==
    ASSUME Inv
    PROVE  /\ installed \in [Mods -> Directories] /\ staging \in Directories /\ replaced \in Directories
           /\ good \subseteq Mods /\ faults \in 0 .. MaxFaults /\ faults \in Nat
           /\ modInstalledPending \in BOOLEAN /\ modInstallState \in States
           /\ \A m \in Mods : Complete(m) \in Directories /\ Partial(m) \in Directories
           /\ Nothing \in Directories
           /\ OnlyWholeCopies /\ (\A m \in good : installed[m] = Complete(m))
  BY DEF Inv, TypeOK, Directories, DiskHolds, InstalledMods

(* The worker alone.                                                       *)
LEMMA Alone ==
    ASSUME Inv, NEW w \in workers
    PROVE  workers = {w}
  BY DEF Inv, OneWorker

LEMMA ExtractStartsInv == ASSUME Inv, NEW w \in workers, ExtractStarts(w) PROVE Inv'
  <1>1. /\ WorkerHolds(w) /\ CancelHolds(w) /\ w \in WorkerType /\ w.pc = "extract"
        /\ w.kind = "mod" /\ w.mod \in Mods /\ ~w.cancelled /\ workers = {w}
    BY OnlyWorker, Alone DEF ExtractStarts, WorkerHolds, CancelHolds, WorkerType
  <1>2. CASE Ends(w, "FAILED") /\ UNCHANGED <<modInstallState, staging>>
    BY <1>1, <1>2, QuietEndInv, DiskTypes DEF ExtractStarts, Results, disk
  <1>3. CASE /\ modInstallState' = "EXTRACTING" /\ staging' = FreshStaging(w.mod)
             /\ Goes(w, "entries")
    <2>1. PICK v \in WorkerType :
             /\ workers' = {v} /\ v.pc = "entries"
             /\ v.kind = w.kind /\ v.mod = w.mod /\ v.result = w.result /\ v.cancelled = w.cancelled
      BY <1>3, GoesGives DEF WorkerPlaces
    <2>2. WorkerHolds(v)' /\ CancelHolds(v)'
      BY <1>1, <1>3, <2>1 DEF WorkerHolds, CancelHolds, Replacing, FreshStaging, Partial
    <2>3. NothingLeftAside' /\ CatalogHolds' /\ DiskHolds'
      BY <1>1, <2>1 DEF ExtractStarts, Inv, NothingLeftAside, CatalogHolds, Announces, Replacing,
                        DiskHolds, OnlyWholeCopies, InstalledMods
    <2>4. staging' \in Directories /\ modInstallState' \in States
      BY <1>1, <1>3, DiskTypes DEF FreshStaging, States, Transferring
    <2> QED
      BY <2>1, <2>2, <2>3, <2>4, DiskInv, DiskTypes DEF ExtractStarts
  <1> QED
    BY <1>2, <1>3 DEF ExtractStarts

LEMMA ExtractEntriesInv == ASSUME Inv, NEW w \in workers, ExtractEntries(w) PROVE Inv'
  <1>1. /\ WorkerHolds(w) /\ CancelHolds(w) /\ w \in WorkerType /\ w.pc = "entries"
        /\ w.kind = "mod" /\ w.mod \in Mods /\ ~w.cancelled /\ workers = {w} /\ staging.mod = w.mod
    BY OnlyWorker, Alone DEF ExtractEntries, WorkerHolds, CancelHolds, WorkerType
  <1>2. CASE (Ends(w, "ABORTED") \/ Ends(w, "FAILED")) /\ UNCHANGED staging
    BY <1>1, <1>2, QuietEndInv, DiskTypes DEF ExtractEntries, Results, disk, memory
  <1>3. CASE staging' = Complete(w.mod) /\ Goes(w, "commit")
    <2>1. PICK v \in WorkerType :
             /\ workers' = {v} /\ v.pc = "commit"
             /\ v.kind = w.kind /\ v.mod = w.mod /\ v.result = w.result /\ v.cancelled = w.cancelled
      BY <1>3, GoesGives DEF WorkerPlaces
    <2>2. WorkerHolds(v)' /\ CancelHolds(v)'
      BY <1>1, <1>3, <2>1 DEF WorkerHolds, CancelHolds, Replacing
    <2>3. NothingLeftAside' /\ CatalogHolds' /\ DiskHolds'
      BY <1>1, <2>1 DEF ExtractEntries, memory, Inv, NothingLeftAside, CatalogHolds, Announces, Replacing,
                        DiskHolds, OnlyWholeCopies, InstalledMods
    <2>4. staging' \in Directories
      BY <1>1, <1>3, DiskTypes
    <2> QED
      BY <2>1, <2>2, <2>3, <2>4, DiskInv, DiskTypes DEF ExtractEntries, memory
  <1> QED
    BY <1>1, <1>2, <1>3 DEF ExtractEntries

LEMMA CommitStartsInv == ASSUME Inv, NEW w \in workers, CommitStarts(w) PROVE Inv'
  <1>1. /\ WorkerHolds(w) /\ CancelHolds(w) /\ w \in WorkerType /\ w.pc = "commit"
        /\ w.kind = "mod" /\ w.mod \in Mods /\ ~w.cancelled /\ workers = {w}
    BY OnlyWorker, Alone DEF CommitStarts, WorkerHolds, CancelHolds, WorkerType
  <1>2. PICK v \in WorkerType :
           /\ workers' = {v} /\ v.pc = "moveAside"
           /\ v.kind = w.kind /\ v.mod = w.mod /\ v.result = w.result /\ v.cancelled = w.cancelled
    BY GoesGives DEF WorkerPlaces, CommitStarts
  <1>3. WorkerHolds(v)' /\ CancelHolds(v)'
    BY <1>1, <1>2 DEF WorkerHolds, CancelHolds, Replacing, CommitStarts
  <1>4. NothingLeftAside' /\ CatalogHolds' /\ DiskHolds'
    BY <1>1, <1>2 DEF CommitStarts, memory, Inv, NothingLeftAside, CatalogHolds, Announces,
                      Replacing, DiskHolds, OnlyWholeCopies, InstalledMods
  <1> QED
    BY <1>2, <1>3, <1>4, DiskInv, DiskTypes DEF CommitStarts, memory

LEMMA MoveAsideInv == ASSUME Inv, NEW w \in workers, MoveAside(w) PROVE Inv'
  <1>1. /\ WorkerHolds(w) /\ CancelHolds(w) /\ w \in WorkerType /\ w.pc = "moveAside"
        /\ w.kind = "mod" /\ w.mod \in Mods /\ ~w.cancelled /\ workers = {w}
        /\ staging = Complete(w.mod) /\ w.mod \notin good
    BY OnlyWorker, Alone DEF MoveAside, WorkerHolds, CancelHolds, WorkerType
  <1>2. CASE Ends(w, "FAILED") /\ UNCHANGED <<installed, replaced>>
    BY <1>1, <1>2, QuietEndInv, DiskTypes DEF MoveAside, Results, disk, memory
  <1>3. CASE /\ replaced' = installed[w.mod]
             /\ installed' = [installed EXCEPT ![w.mod] = Nothing]
             /\ Goes(w, "moveIn")
    <2>1. PICK v \in WorkerType :
             /\ workers' = {v} /\ v.pc = "moveIn"
             /\ v.kind = w.kind /\ v.mod = w.mod /\ v.result = w.result /\ v.cancelled = w.cancelled
      BY <1>3, GoesGives DEF WorkerPlaces
    <2>2. replaced' \in {Nothing, Complete(w.mod)}
      BY <1>1, <1>3, DiskTypes DEF OnlyWholeCopies
    <2>3. WorkerHolds(v)' /\ CancelHolds(v)'
      BY <1>1, <2>1, <2>2 DEF WorkerHolds, CancelHolds, Replacing, MoveAside
    <2>4. NothingLeftAside' /\ CatalogHolds'
      BY <1>1, <2>1 DEF MoveAside, memory, Inv, NothingLeftAside, CatalogHolds, Announces, Replacing
    <2>5. DiskHolds' /\ installed' \in [Mods -> Directories]
      BY <1>1, <1>3, DiskTypes DEF DiskHolds, OnlyWholeCopies, InstalledMods, MoveAside
    <2> QED
      BY <1>1, <2>1, <2>2, <2>3, <2>4, <2>5, DiskInv, DiskTypes DEF MoveAside, memory
  <1> QED
    BY <1>2, <1>3 DEF MoveAside

LEMMA MoveInInv == ASSUME Inv, NEW w \in workers, MoveIn(w) PROVE Inv'
  <1>1. /\ WorkerHolds(w) /\ CancelHolds(w) /\ w \in WorkerType /\ w.pc = "moveIn"
        /\ w.kind = "mod" /\ w.mod \in Mods /\ ~w.cancelled /\ workers = {w}
        /\ staging = Complete(w.mod) /\ w.mod \notin good
        /\ replaced \in {Nothing, Complete(w.mod)}
    BY OnlyWorker, Alone DEF MoveIn, WorkerHolds, CancelHolds, WorkerType, Replacing
  <1>2. CASE Goes(w, "restore") /\ UNCHANGED <<installed, staging, good>>
    <2>1. PICK v \in WorkerType :
             /\ workers' = {v} /\ v.pc = "restore"
             /\ v.kind = w.kind /\ v.mod = w.mod /\ v.result = w.result /\ v.cancelled = w.cancelled
      BY <1>2, GoesGives DEF WorkerPlaces
    <2>2. WorkerHolds(v)' /\ CancelHolds(v)'
      BY <1>1, <1>2, <2>1 DEF WorkerHolds, CancelHolds, Replacing, MoveIn
    <2>3. NothingLeftAside' /\ CatalogHolds' /\ DiskHolds'
      BY <1>1, <1>2, <2>1 DEF MoveIn, memory, Inv, NothingLeftAside, CatalogHolds, Announces, Replacing,
                              DiskHolds, OnlyWholeCopies, InstalledMods
    <2> QED
      BY <1>2, <2>1, <2>2, <2>3, DiskInv, DiskTypes DEF MoveIn, memory
  <1>3. CASE /\ installed' = [installed EXCEPT ![w.mod] = staging]
             /\ staging' = Nothing /\ good' = good \cup {w.mod}
             /\ Goes(w, "deleteOld")
    <2>1. PICK v \in WorkerType :
             /\ workers' = {v} /\ v.pc = "deleteOld"
             /\ v.kind = w.kind /\ v.mod = w.mod /\ v.result = w.result /\ v.cancelled = w.cancelled
      BY <1>3, GoesGives DEF WorkerPlaces
    <2>2. installed'[w.mod] = Complete(w.mod)
      BY <1>1, <1>3, DiskTypes
    <2>3. WorkerHolds(v)' /\ CancelHolds(v)'
      BY <1>1, <2>1, <2>2 DEF WorkerHolds, CancelHolds, Replacing, MoveIn
    <2>4. NothingLeftAside' /\ CatalogHolds'
      BY <1>1, <2>1 DEF MoveIn, memory, NothingLeftAside, CatalogHolds, Announces, Replacing
    <2>5. DiskHolds' /\ installed' \in [Mods -> Directories] /\ good' \subseteq Mods
      BY <1>1, <1>3, DiskTypes DEF DiskHolds, OnlyWholeCopies, InstalledMods
    <2> QED
      BY <1>3, <2>1, <2>3, <2>4, <2>5, DiskInv, DiskTypes DEF MoveIn, memory
  <1> QED
    BY <1>2, <1>3 DEF MoveIn

LEMMA RestoreInv == ASSUME Inv, NEW w \in workers, Restore(w) PROVE Inv'
  <1>1. /\ WorkerHolds(w) /\ CancelHolds(w) /\ w \in WorkerType /\ w.pc = "restore"
        /\ w.kind = "mod" /\ w.mod \in Mods /\ ~w.cancelled /\ workers = {w}
        /\ w.mod \notin good /\ replaced \in {Nothing, Complete(w.mod)}
    BY OnlyWorker, Alone DEF Restore, WorkerHolds, CancelHolds, WorkerType, Replacing
  <1>2. PICK v \in WorkerType :
           /\ workers' = {v} /\ v.pc = "finish" /\ v.result = "FAILED"
           /\ v.kind = w.kind /\ v.mod = w.mod /\ v.cancelled = w.cancelled
    BY EndsGives DEF Restore, Results
  <1>3. WorkerHolds(v)' /\ CancelHolds(v)'
    BY <1>1, <1>2 DEF WorkerHolds, CancelHolds, Replacing
  <1>4. CatalogHolds'
    BY <1>1, <1>2 DEF Restore, memory, Inv, CatalogHolds, Announces
  <1>5. CASE Restored(w.mod) /\ UNCHANGED faults
    <2>1. NothingLeftAside'
      BY <1>5 DEF Restored, NothingLeftAside
    <2>2. DiskHolds' /\ installed' \in [Mods -> Directories] /\ replaced' \in Directories
      BY <1>1, <1>5, DiskTypes DEF Restore, Restored, DiskHolds, OnlyWholeCopies, InstalledMods
    <2> QED
      BY <1>2, <1>3, <1>4, <1>5, <2>1, <2>2, DiskInv, DiskTypes DEF Restore, memory
  <1>6. CASE faults < MaxFaults /\ faults' = faults + 1 /\ UNCHANGED <<installed, replaced>>
    <2>1. faults' \in 0 .. MaxFaults /\ faults' # 0
      BY <1>6, DiskTypes
    <2>2. NothingLeftAside' /\ DiskHolds'
      BY <1>6, <2>1, DiskTypes DEF Restore, NothingLeftAside, DiskHolds, OnlyWholeCopies, InstalledMods
    <2> QED
      BY <1>2, <1>3, <1>4, <1>6, <2>1, <2>2, DiskInv, DiskTypes DEF Restore, memory
  <1> QED
    BY <1>5, <1>6 DEF Restore

LEMMA DeleteOldInv == ASSUME Inv, NEW w \in workers, DeleteOld(w) PROVE Inv'
  <1>1. /\ w \in WorkerType /\ w.kind = "mod" /\ w.mod \in Mods /\ ~w.cancelled
    BY OnlyWorker DEF DeleteOld, WorkerHolds, CancelHolds, WorkerType
  <1>2. PICK v \in WorkerType :
           /\ workers' = {v} /\ v.pc = "finish" /\ v.result = "DONE"
           /\ v.kind = w.kind /\ v.mod = w.mod /\ v.cancelled = w.cancelled
    BY EndsGives DEF DeleteOld, Results
  <1>3. WorkerHolds(v)' /\ CancelHolds(v)'
    BY <1>1, <1>2 DEF WorkerHolds, CancelHolds, Replacing
  <1>4. NothingLeftAside' /\ CatalogHolds' /\ DiskHolds'
    BY <1>2, DiskTypes DEF DeleteOld, NothingLeftAside, CatalogHolds, Announces,
                           DiskHolds, OnlyWholeCopies, InstalledMods
  <1> QED
    BY <1>2, <1>3, <1>4, DiskInv, DiskTypes DEF DeleteOld, memory

LEMMA FinishInv == ASSUME Inv, NEW w \in workers, Finish(w) PROVE Inv'
  <1>1. /\ WorkerHolds(w) /\ CancelHolds(w) /\ w \in WorkerType /\ w.pc = "finish"
        /\ w.kind = "mod" /\ w.mod \in Mods /\ workers = {w}
    BY OnlyWorker, Alone DEF Finish, WorkerHolds, CancelHolds, WorkerType
  <1>2. PICK v \in WorkerType :
           /\ workers' = {v} /\ v.pc = "report"
           /\ v.kind = w.kind /\ v.mod = w.mod /\ v.result = w.result /\ v.cancelled = w.cancelled
    BY GoesGives DEF Finish, WorkerPlaces
  <1>3. WorkerHolds(v)' /\ CancelHolds(v)'
    BY <1>1, <1>2 DEF WorkerHolds, CancelHolds, Replacing
  <1>4. NothingLeftAside' /\ DiskHolds'
    BY <1>1, <1>2 DEF Finish, Inv, NothingLeftAside, Replacing, DiskHolds, OnlyWholeCopies, InstalledMods
  <1>5. CatalogHolds' /\ modInstalledPending' \in BOOLEAN /\ staging' \in Directories
    <2>1. CASE w.result = "DONE"
      BY <2>1, DiskTypes DEF Finish, CatalogHolds
    <2>2. CASE w.result # "DONE"
      BY <1>1, <2>2, DiskTypes DEF Finish, Inv, CatalogHolds, Announces
    <2> QED
      BY <2>1, <2>2
  <1> QED
    BY <1>2, <1>3, <1>4, <1>5, DiskInv, DiskTypes DEF Finish

LEMMA WorkerEndsInv == ASSUME Inv, NEW w \in workers, WorkerEnds(w) PROVE Inv'
  <1>1. workers = {w} /\ workers' = {} /\ modWorkerBusy' = FALSE /\ w.pc = "free"
    BY Alone DEF WorkerEnds, BusyAfterWorker
  <1>2. TypeOK'
    BY <1>1 DEF Inv, TypeOK, WorkerEnds, disk
  <1>3. OneWorker' /\ WorkersHold'
    BY <1>1 DEF OneWorker, WorkersHold
  <1>4. NothingLeftAside' /\ CatalogHolds'
    BY <1>1 DEF WorkerEnds, Inv, NothingLeftAside, CatalogHolds, Announces, Replacing, disk
  <1> QED
    BY <1>2, <1>3, <1>4 DEF WorkerEnds, Inv, DiskHolds, OnlyWholeCopies, InstalledMods, disk

-----------------------------------------------------------------------------
LEMMA StepInv == Inv /\ [Next]_vars => Inv'
  <1> SUFFICES ASSUME Inv, [Next]_vars PROVE Inv'
    OBVIOUS
  <1>1. CASE UiThread
    BY <1>1, FetchVerifiedModsInv, FetchVerifiedModsStartsInv, DownloadRefusedInv,
       DownloadModStartsInv, DownloadModInv, CancelModDownloadInv, GetModInstallStateInv,
       LoadCatalogInv DEF UiThread
  <1>2. ASSUME NEW w \in workers, WorkerStep(w) PROVE Inv'
    BY <1>2, ListPublishedInv, ListDoneInv, FetchInv, FetchedInv, ChecksumInv, ExtractStartsInv,
       ExtractEntriesInv, CommitStartsInv, MoveAsideInv, MoveInInv, RestoreInv, DeleteOldInv,
       FinishInv, ReportInv, StoreResultInv, WorkerEndsInv DEF WorkerStep
  <1>3. CASE Crash
    BY <1>3, CrashInv
  <1>4. CASE UNCHANGED vars
    BY <1>4 DEF vars, memory, disk, Inv, TypeOK, OneWorker, WorkersHold, WorkerHolds, CancelHolds,
                NothingLeftAside, CatalogHolds, DiskHolds, OnlyWholeCopies, InstalledMods
  <1> QED
    BY <1>1, <1>2, <1>3, <1>4 DEF Next

LEMMA Invariance == Spec => []Inv
  BY InitInv, StepInv, PTL DEF Spec

(* The types of ModDownload, with the busy flag that keeps a second worker *)
(* from starting (modWorkerBusy).                                          *)
THEOREM DownloadsTypeCorrect == Spec => []TypeOK
  <1>1. Inv => TypeOK
    BY DEF Inv
  <1> QED
    BY <1>1, Invariance, PTL

(* Once an install is over and seen, the catalog lists it (CatalogCurrent),*)
(* whatever was downloaded, cancelled and loaded in between.               *)
THEOREM CatalogFollows == Spec => []CatalogCurrent
  <1>1. Inv => CatalogCurrent
    BY DEF Inv, TypeOK, CatalogHolds, CatalogCurrent
  <1> QED
    BY <1>1, Invariance, PTL

(* A copy leaves .replaced only when its mod is in place.                  *)
LEMMA CopyStep ==
    Inv /\ [Next]_vars =>
        [\A m \in Mods : faults' = 0 /\ replaced = Complete(m) /\ replaced' # replaced
                           => installed'[m] = Complete(m)]_vars
  <1> SUFFICES ASSUME Inv, Next, NEW m \in Mods, faults' = 0, replaced = Complete(m),
                      replaced' # replaced
               PROVE  installed'[m] = Complete(m)
    OBVIOUS
  <1>1. PICK w \in workers : CommitStarts(w) \/ MoveAside(w) \/ Restore(w) \/ DeleteOld(w)
    BY DEF Next, UiThread, WorkerStep, Crash, FetchVerifiedMods, FetchVerifiedModsStarts,
           DownloadRefused, DownloadModStarts, DownloadMod, CancelModDownload, GetModInstallState,
           LoadCatalog, ListPublished, ListDone, Fetch, Fetched, Checksum, ExtractStarts,
           ExtractEntries, MoveIn, Finish, Report, StoreResult, WorkerEnds, disk, memory
  <1>2. /\ WorkerHolds(w) /\ workers = {w} /\ replaced # Nothing
        /\ faults \in Nat /\ installed \in [Mods -> Directories]
    BY OnlyWorker, Alone, DirectoriesDiffer, DiskTypes
  <1>3. CASE CommitStarts(w)
    BY <1>2, <1>3 DEF CommitStarts, Inv, NothingLeftAside, Replacing
  <1>4. CASE MoveAside(w)
    BY <1>2, <1>4 DEF MoveAside, WorkerHolds
  <1>5. CASE Restore(w)
    <2>1. w.mod = m
      BY <1>2, <1>5, DirectoriesDiffer DEF Restore, WorkerHolds, Replacing
    <2> QED
      BY <1>2, <1>5, <2>1 DEF Restore, Restored
  <1>6. CASE DeleteOld(w)
    <2>1. w.mod = m
      BY <1>2, <1>6, DirectoriesDiffer DEF DeleteOld, WorkerHolds, Replacing
    <2> QED
      BY <1>2, <1>6, <2>1 DEF DeleteOld, WorkerHolds
  <1> QED
    BY <1>1, <1>3, <1>4, <1>5, <1>6

(* An install directory never holds part of a mod, an old copy outlives a  *)
(* failed install, and what was cancelled in time is not installed         *)
(* (CommitModInstall, CancelModDownload).                                  *)
THEOREM InstallsAreKept == Spec => InstallsKept
  <1>1. Inv => OnlyWholeCopies /\ CancelledNotInstalled
    BY DEF Inv, DiskHolds, WorkersHold, CancelHolds, CancelledNotInstalled
  <1>2. Spec => CopyKept
    BY Invariance, CopyStep, PTL DEF Spec, CopyKept
  <1> QED
    BY <1>1, <1>2, Invariance, PTL DEF InstallsKept

=============================================================================
