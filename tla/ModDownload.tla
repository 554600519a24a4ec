----------------------------- MODULE ModDownload -----------------------------
(***************************************************************************)
(* Downloading and installing mods (runtime_mod_download.inl).  The UI     *)
(* thread starts, cancels and polls; a worker thread downloads, checks,    *)
(* extracts into a staging directory and moves the result into place.      *)
(* They share the atomics below and nothing else; what is on disk outlives *)
(* a crash of the game.                                                    *)
(***************************************************************************)
EXTENDS Naturals, FiniteSets

CONSTANTS
    Mods,        \* verified mods: each has one install directory
    MaxWorkers,  \* thread identifiers
    MaxFaults    \* bound on crashes of the game and on restores that fail

ASSUME BoundsAssumption == MaxWorkers \in Nat \ {0} /\ MaxFaults \in Nat

(* A directory of a mod: not there, extracted in part, or complete.        *)
Nothing == [mod |-> "none", complete |-> FALSE]
Partial(m) == [mod |-> m, complete |-> FALSE]
Complete(m) == [mod |-> m, complete |-> TRUE]

VARIABLES
    modInstallState, modDownloadCancel, modWorkerBusy, modInstalledPending,
    verifiedMods,   \* a non-empty list of verified mods is loaded
    catalog,        \* the UI thread's mod catalog: [ready, mods]
    ui,             \* the UI thread inside a native: [at, mod]
    workers,        \* the worker threads
    installed,      \* disk: the install directory of each mod
    staging,        \* disk: .staging
    replaced,       \* disk: .replaced
    good,           \* history: mods whose last commit put a copy in place
    faults

memory == <<modInstallState, modDownloadCancel, modWorkerBusy, modInstalledPending,
            verifiedMods, catalog, ui>>
disk == <<installed, staging, replaced>>
vars == <<memory, workers, disk, good, faults>>

Transferring == {"DOWNLOADING", "CHECKSUMING", "EXTRACTING"}
Results == {"DONE", "FAILED", "ABORTED"}
States == {"MANIFESTO_FETCHING"} \cup Transferring \cup Results

UiIdle == [at |-> "idle", mod |-> "none"]
NoCatalog == [ready |-> FALSE, mods |-> {}]
InstalledMods == {m \in Mods : installed[m] = Complete(m)}

(***************************************************************************)
(* The UI thread                                                           *)
(***************************************************************************)

IsFree(id) == \A w \in workers : w.id # id

NewWorker(id, kind, m) ==
    [id |-> id, kind |-> kind, mod |-> m, pc |-> "start", result |-> "FAILED",
     cancelled |-> FALSE]

(* A start that does not compare before it exchanges.                      *)
MayAlwaysStart == TRUE

MayStart == ~modWorkerBusy

(* StartModWorker, and what its caller stores when it does not start.      *)
StartModWorker(kind, m, stateIfNot) ==
    \/ /\ MayStart
       /\ \E id \in 1 .. MaxWorkers : IsFree(id) /\ workers' = workers \cup {NewWorker(id, kind, m)}
       /\ modWorkerBusy' = TRUE
       /\ UNCHANGED modInstallState
    \/ /\ modInstallState' = stateIfNot
       /\ UNCHANGED <<modWorkerBusy, workers>>

(* NSFetchVerifiedModsManifesto: the state is stored before the worker is  *)
(* started.                                                                *)
FetchVerifiedMods ==
    /\ ui = UiIdle
    /\ modInstallState' = "MANIFESTO_FETCHING"
    /\ ui' = [at |-> "fetchList", mod |-> "none"]
    /\ UNCHANGED <<modDownloadCancel, modWorkerBusy, modInstalledPending, verifiedMods, catalog,
                   workers, disk, good, faults>>

FetchVerifiedModsStarts ==
    /\ ui.at = "fetchList"
    /\ StartModWorker("list", "none", "DONE")
    /\ ui' = UiIdle
    /\ UNCHANGED <<modDownloadCancel, modInstalledPending, verifiedMods, catalog,
                   disk, good, faults>>

(* NSDownloadMod of a mod that is not verified, or has no usable folder.   *)
DownloadRefused ==
    /\ ui = UiIdle
    /\ modInstallState' \in {"ABORTED", "FAILED"}
    /\ verifiedMods \/ modInstallState' = "ABORTED"
    /\ UNCHANGED <<modDownloadCancel, modWorkerBusy, modInstalledPending, verifiedMods, catalog,
                   ui, workers, disk, good, faults>>

DownloadMod(m) ==
    /\ ui = UiIdle
    /\ verifiedMods
    /\ modDownloadCancel' = FALSE
    /\ modInstallState' = "DOWNLOADING"
    /\ ui' = [at |-> "download", mod |-> m]
    /\ workers' = {[w EXCEPT !.cancelled = FALSE] : w \in workers}
    /\ UNCHANGED <<modWorkerBusy, modInstalledPending, verifiedMods, catalog,
                   disk, good, faults>>

DownloadModStarts ==
    /\ ui.at = "download"
    /\ StartModWorker("mod", ui.mod, "FAILED")
    /\ ui' = UiIdle
    /\ UNCHANGED <<modDownloadCancel, modInstalledPending, verifiedMods, catalog,
                   disk, good, faults>>

(* History: the download is still fetching, so the worker has every chance *)
(* to notice.                                                              *)
CancelledInTime(w) == w.kind = "mod" /\ w.pc \in {"start", "fetch"}

CancelModDownload ==
    /\ ui = UiIdle
    /\ modDownloadCancel' = TRUE
    /\ modInstallState' = "ABORTED"
    /\ workers' = {[w EXCEPT !.cancelled = @ \/ CancelledInTime(w)] : w \in workers}
    /\ UNCHANGED <<modWorkerBusy, modInstalledPending, verifiedMods, catalog, ui,
                   disk, good, faults>>

(* A poll that takes the flag and leaves the catalog.                      *)
CatalogKept == catalog

(* NSGetModInstallState drops the catalog after an install.                *)
CatalogAfterPoll == IF modInstalledPending THEN NoCatalog ELSE catalog

GetModInstallState ==
    /\ ui = UiIdle
    /\ modInstalledPending
    /\ modInstalledPending' = FALSE
    /\ catalog' = CatalogAfterPoll
    /\ UNCHANGED <<modInstallState, modDownloadCancel, modWorkerBusy, verifiedMods, ui,
                   workers, disk, good, faults>>

(* Any native that needs the catalog reads it from disk when it is not     *)
(* ready.                                                                  *)
LoadCatalog ==
    /\ ui = UiIdle
    /\ ~catalog.ready
    /\ catalog' = [ready |-> TRUE, mods |-> InstalledMods]
    /\ UNCHANGED <<modInstallState, modDownloadCancel, modWorkerBusy, modInstalledPending,
                   verifiedMods, ui, workers, disk, good, faults>>

(***************************************************************************)
(* The worker threads.  A step ends where another thread can see or change *)
(* something in between.                                                   *)
(***************************************************************************)

Becomes(w, v) == workers' = (workers \ {w}) \cup {v}
Goes(w, pc) == Becomes(w, [w EXCEPT !.pc = pc])
Ends(w, result) == Becomes(w, [w EXCEPT !.pc = "finish", !.result = result])

(* VerifiedModsWorker: whatever the fetch gave, a list is published, then  *)
(* DONE, then the worker is free.                                          *)
ListPublished(w) ==
    /\ w.kind = "list" /\ w.pc = "start"
    /\ verifiedMods' \in BOOLEAN
    /\ Goes(w, "done")
    /\ UNCHANGED <<modInstallState, modDownloadCancel, modWorkerBusy, modInstalledPending,
                   catalog, ui, disk, good, faults>>

ListDone(w) ==
    /\ w.kind = "list" /\ w.pc = "done"
    /\ modInstallState' = "DONE"
    /\ Goes(w, "free")
    /\ UNCHANGED <<modDownloadCancel, modWorkerBusy, modInstalledPending, verifiedMods,
                   catalog, ui, disk, good, faults>>

(* The transfer: it stops at a cancel, fails, or has the whole archive.    *)
Fetch(w) ==
    /\ w.kind = "mod" /\ w.pc = "start"
    /\ \/ ~modDownloadCancel /\ Goes(w, "fetch")
       \/ Goes(w, "fetchFailed")
    /\ UNCHANGED <<memory, disk, good, faults>>

(* The cancel flag is read again when the transfer is over.                *)
Fetched(w) ==
    /\ w.pc \in {"fetch", "fetchFailed"}
    /\ IF modDownloadCancel THEN Ends(w, "ABORTED")
       ELSE IF w.pc = "fetchFailed" THEN Ends(w, "FAILED")
       ELSE Goes(w, "checksum")
    /\ UNCHANGED <<memory, disk, good, faults>>

Checksum(w) ==
    /\ w.pc = "checksum"
    /\ modInstallState' = "CHECKSUMING"
    /\ Ends(w, "FAILED") \/ Goes(w, "extract")
    /\ UNCHANGED <<modDownloadCancel, modWorkerBusy, modInstalledPending, verifiedMods,
                   catalog, ui, disk, good, faults>>

(* RemoveModTree(job.staging), then the directory is made anew.            *)
FreshStaging(m) == Partial(m)

(* ExtractModArchive up to its entry loop: an unreadable archive fails     *)
(* before the state is stored.                                             *)
ExtractStarts(w) ==
    /\ w.pc = "extract"
    /\ \/ /\ Ends(w, "FAILED")
          /\ UNCHANGED <<modInstallState, staging>>
       \/ /\ modInstallState' = "EXTRACTING"
          /\ staging' = FreshStaging(w.mod)
          /\ Goes(w, "entries")
    /\ UNCHANGED <<modDownloadCancel, modWorkerBusy, modInstalledPending, verifiedMods,
                   catalog, ui, installed, replaced, good, faults>>

(* The entry loop: the flag is read before and after each entry; an entry  *)
(* that cannot be read or written ends it.  The last entry makes the copy  *)
(* complete; a concurrent extraction into the same directory leaves a mix. *)
ExtractEntries(w) ==
    /\ w.pc = "entries"
    /\ \/ modDownloadCancel /\ Ends(w, "ABORTED") /\ UNCHANGED staging
       \/ ~modDownloadCancel /\ Ends(w, "FAILED") /\ UNCHANGED staging
       \/ /\ ~modDownloadCancel
          /\ staging' = IF staging.mod = w.mod THEN Complete(w.mod) ELSE Partial(w.mod)
          /\ Goes(w, "commit")
    /\ UNCHANGED <<memory, installed, replaced, good, faults>>

(* CommitModInstall: what an earlier commit left aside goes first.         *)
CommitStarts(w) ==
    /\ w.pc = "commit"
    /\ replaced' = Nothing
    /\ good' = good \ {w.mod}
    /\ Goes(w, "moveAside")
    /\ UNCHANGED <<memory, installed, staging, faults>>

(* The existing copy is moved aside, or cannot be.                         *)
MoveAside(w) ==
    /\ w.pc = "moveAside"
    /\ \/ /\ replaced' = installed[w.mod]
          /\ installed' = [installed EXCEPT ![w.mod] = Nothing]
          /\ Goes(w, "moveIn")
       \/ /\ installed[w.mod] # Nothing
          /\ Ends(w, "FAILED")
          /\ UNCHANGED <<installed, replaced>>
    /\ UNCHANGED <<memory, staging, good, faults>>

(* The new copy is moved into place.                                       *)
MoveIn(w) ==
    /\ w.pc = "moveIn"
    /\ \/ /\ staging # Nothing
          /\ installed' = [installed EXCEPT ![w.mod] = staging]
          /\ staging' = Nothing
          /\ good' = good \cup {w.mod}
          /\ Goes(w, "deleteOld")
       \/ /\ Goes(w, "restore")
          /\ UNCHANGED <<installed, staging, good>>
    /\ UNCHANGED <<memory, replaced, faults>>

(* The slip of a failure path that forgets the copy it moved aside.        *)
NotRestored(m) == UNCHANGED <<installed, replaced>>

Restored(m) ==
    /\ replaced' = Nothing
    /\ installed' = [installed EXCEPT ![m] = replaced]

(* The new copy could not be moved in: the old one is moved back, and      *)
(* nothing looks at whether that rename worked.                            *)
Restore(w) ==
    /\ w.pc = "restore"
    /\ \/ /\ Restored(w.mod)
          /\ UNCHANGED faults
       \/ /\ faults < MaxFaults
          /\ faults' = faults + 1
          /\ UNCHANGED <<installed, replaced>>
    /\ Ends(w, "FAILED")
    /\ UNCHANGED <<memory, staging, good>>

DeleteOld(w) ==
    /\ w.pc = "deleteOld"
    /\ replaced' = Nothing
    /\ Ends(w, "DONE")
    /\ UNCHANGED <<memory, installed, staging, good, faults>>

(* What is left of a failed install is removed; a finished one is          *)
(* announced to the UI thread.                                             *)
Finish(w) ==
    /\ w.pc = "finish"
    /\ IF w.result = "DONE"
       THEN modInstalledPending' = TRUE /\ UNCHANGED staging
       ELSE staging' = Nothing /\ UNCHANGED modInstalledPending
    /\ Goes(w, "report")
    /\ UNCHANGED <<modInstallState, modDownloadCancel, modWorkerBusy, verifiedMods, catalog,
                   ui, installed, replaced, good, faults>>

(* The flag is read; a result other than DONE is dropped when it is set.   *)
Report(w) ==
    /\ w.pc = "report"
    /\ Goes(w, IF modDownloadCancel /\ w.result # "DONE" THEN "free" ELSE "store")
    /\ UNCHANGED <<memory, disk, good, faults>>

StoreResult(w) ==
    /\ w.pc = "store"
    /\ modInstallState' = w.result
    /\ Goes(w, "free")
    /\ UNCHANGED <<modDownloadCancel, modWorkerBusy, modInstalledPending, verifiedMods,
                   catalog, ui, disk, good, faults>>

(* A worker whose last store is missing.                                   *)
BusyKept == modWorkerBusy

BusyAfterWorker == FALSE

WorkerEnds(w) ==
    /\ w.pc = "free"
    /\ modWorkerBusy' = BusyAfterWorker
    /\ workers' = workers \ {w}
    /\ UNCHANGED <<modInstallState, modDownloadCancel, modInstalledPending, verifiedMods,
                   catalog, ui, disk, good, faults>>

WorkerStep(w) ==
    \/ ListPublished(w) \/ ListDone(w)
    \/ Fetch(w) \/ Fetched(w) \/ Checksum(w) \/ ExtractStarts(w) \/ ExtractEntries(w)
    \/ CommitStarts(w) \/ MoveAside(w) \/ MoveIn(w) \/ Restore(w) \/ DeleteOld(w)
    \/ Finish(w) \/ Report(w) \/ StoreResult(w) \/ WorkerEnds(w)

(* The game dies and is started again: the disk is all that is left.       *)
Crash ==
    /\ faults < MaxFaults
    /\ faults' = faults + 1
    /\ modInstallState' = "MANIFESTO_FETCHING"
    /\ modDownloadCancel' = FALSE /\ modWorkerBusy' = FALSE
    /\ modInstalledPending' = FALSE /\ verifiedMods' = FALSE
    /\ catalog' = NoCatalog /\ ui' = UiIdle /\ workers' = {}
    /\ good' = InstalledMods
    /\ UNCHANGED disk

(***************************************************************************)
(* The specification                                                       *)
(***************************************************************************)

Init ==
    /\ modInstallState = "MANIFESTO_FETCHING"
    /\ modDownloadCancel = FALSE /\ modWorkerBusy = FALSE
    /\ modInstalledPending = FALSE /\ verifiedMods = FALSE
    /\ catalog = NoCatalog /\ ui = UiIdle /\ workers = {}
    /\ installed = [m \in Mods |-> Nothing]
    /\ staging = Nothing /\ replaced = Nothing
    /\ good = {} /\ faults = 0

UiThread ==
    \/ FetchVerifiedMods \/ FetchVerifiedModsStarts
    \/ DownloadRefused \/ DownloadModStarts \/ \E m \in Mods : DownloadMod(m)
    \/ CancelModDownload \/ GetModInstallState \/ LoadCatalog

Next ==
    \/ UiThread
    \/ \E w \in workers : WorkerStep(w)
    \/ Crash

(* Every transfer ends: the HTTP layer reports an error when the peer is   *)
(* silent, and the file operations return.                                 *)
Fairness == \A id \in 1 .. MaxWorkers : WF_vars(\E w \in workers : w.id = id /\ WorkerStep(w))

Spec == Init /\ [][Next]_vars /\ Fairness

(***************************************************************************)
(* Properties                                                              *)
(***************************************************************************)

Directories == {Nothing} \cup {Partial(m) : m \in Mods} \cup {Complete(m) : m \in Mods}

WorkerPlaces ==
    {"start", "done", "fetch", "fetchFailed", "checksum", "extract", "entries", "commit",
     "moveAside", "moveIn", "restore", "deleteOld", "finish", "report", "store", "free"}

(* Every variable has its type, and a busy flag that is down means that no *)
(* worker is left.                                                         *)
TypeOK ==
    /\ modInstallState \in States
    /\ {modDownloadCancel, modWorkerBusy, modInstalledPending, verifiedMods} \subseteq BOOLEAN
    /\ catalog \in [ready : BOOLEAN, mods : SUBSET Mods]
    /\ ui \in [at : {"idle", "fetchList", "download"}, mod : Mods \cup {"none"}]
    /\ workers \subseteq
         [id : 1 .. MaxWorkers, kind : {"list", "mod"}, mod : Mods \cup {"none"},
          pc : WorkerPlaces, result : Results, cancelled : BOOLEAN]
    /\ ~modWorkerBusy => workers = {}
    /\ installed \in [Mods -> Directories]
    /\ {staging, replaced} \subseteq Directories
    /\ good \subseteq Mods
    /\ faults \in 0 .. MaxFaults

(* What the game finds in an install directory is always a whole copy of   *)
(* that mod, whatever was downloaded at the same time, cancelled or cut    *)
(* short by a crash (DownloadJob's staging directory).                     *)
OnlyWholeCopies == \A m \in Mods : installed[m] \in {Nothing, Complete(m)}

(* "An existing copy is moved aside first and restored if the move fails;  *)
(* it is deleted only once the new one is in" (CommitModInstall): a copy   *)
(* leaves .replaced only when its mod is in place again, whichever step    *)
(* failed.  A crash between the two renames or a restore that fails as well *)
(* (a fault) leaves it there for the next commit to delete.                *)
CopyKept ==
    [][\A m \in Mods : faults' = 0 /\ replaced = Complete(m) /\ replaced' # replaced
                         => installed'[m] = Complete(m)]_vars

(* Once an install is over and the UI thread has seen that it was, the     *)
(* catalog the menus read lists every mod that installs put in place       *)
(* (modInstalledPending, GetModInstallState).                              *)
CatalogCurrent ==
    catalog.ready /\ ~modInstalledPending /\ ~modWorkerBusy => good \subseteq catalog.mods

(* A transfer never holds the worker slot for ever, so a later download    *)
(* can start (modWorkerBusy).                                              *)
WorkerFreed == modWorkerBusy ~> ~modWorkerBusy

(* "The worker notices between chunks and removes what it wrote"           *)
(* (CancelModDownload): a download cancelled while it was being fetched is *)
(* not installed, unless another one was asked for before the worker had   *)
(* noticed: that clears the flag, and the cancelled one goes on.           *)
CancelledNotInstalled ==
    \A w \in workers : w.cancelled => w.pc \notin {"moveAside", "moveIn", "deleteOld"}

(* What an install may do to the directories.                              *)
InstallsKept == []OnlyWholeCopies /\ CopyKept /\ []CancelledNotInstalled

=============================================================================
