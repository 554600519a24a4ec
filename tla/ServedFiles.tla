----------------------------- MODULE ServedFiles -----------------------------
(***************************************************************************)
(* The files the launcher writes from the enabled mods and serves to the   *)
(* engine in place of the game's: the persistence definition (under a      *)
(* lock, written aside and renamed), the particles manifest, and one file  *)
(* per KeyValues patch (both without a lock, written in place).  The       *)
(* engine asks the cache, then for a file's size, then opens it; or it     *)
(* reads it in one call.  A reload of the mods makes all of them anew.     *)
(*                                                                         *)
(* A file's content is the mod set it was made from; files made from       *)
(* different mod sets are of different sizes, so a size is a mod set too.  *)
(***************************************************************************)
EXTENDS Naturals, Sequences, FiniteSets

CONSTANTS
    FileReaders,       \* the engine's threads that read files
    Patched,           \* the KeyValues files each mod set patches, by mod set
    Usable,            \* the files each mod set's inputs can be merged into
    MaxServedReads,    \* bound on the engine's reads
    MaxWriteFailures   \* bound on the writes that fail

ModSets == DOMAIN Patched                \* 1, 2, ...: the set after each reload
KeyValueFiles == UNION {Patched[s] : s \in ModSets}
GeneratedFiles == {"pdef", "particles"} \cup KeyValueFiles
ASSUME ServedFilesAssumption ==
    /\ ModSets = 1..Len(Patched) /\ DOMAIN Usable = ModSets
    /\ Len(Patched) \in Nat \ {0} /\ {MaxServedReads, MaxWriteFailures} \subseteq Nat
    /\ {"pdef", "particles"} \cap KeyValueFiles = {}

Stock == [set |-> 0, whole |-> TRUE]     \* the game's own file
Refused == [set |-> Len(Patched) + 1, whole |-> TRUE]     \* no file is opened
NoBytes == Len(Patched) + 1              \* a size of 0

VARIABLES
    servedOverlay,     \* g_modOverlay
    pdef,        \* g_runtimePdefLock, -Attempted, -Generated, -GeneratedSize
    particles,   \* g_particleManifestGenerated, -GeneratedSize
    patches,     \* g_keyValuePatchPaths
    built,       \* g_keyValueBuiltPaths with their sizes
    disk,        \* the generated files
    reload,      \* how far ReloadModState is
    readers,      \* per engine thread, the read it makes
    served,      \* the file the engine asks for (files share no state, so a
                 \* behaviour asks for one), the reads and the failed writes so far
    crossed      \* history: files with a build that met another or a reload

servedVars == <<servedOverlay, pdef, particles, patches, built, disk, reload, readers, served, crossed>>
servedState == <<servedOverlay, pdef, particles, patches, built, disk, reload>>

ReaderAtRest == [at |-> "idle", file |-> "pdef", call |-> "read", ready |-> FALSE, set |-> 0,
           told |-> NoBytes, got |-> Stock, quiet |-> FALSE]

Building(t, f) ==
    readers[t].file = f /\ readers[t].at \in {"collect", "open", "write", "note", "unusable", "flag"}

\* Reader t goes on.
Goes(t, at) == readers' = [readers EXCEPT ![t].at = at]

ServedInit ==
    /\ servedOverlay = 1
    /\ pdef = [locked |-> FALSE, attempted |-> FALSE, generated |-> FALSE, size |-> NoBytes]
    /\ particles = [generated |-> FALSE, size |-> NoBytes]
    /\ patches = Patched[1] /\ built = <<>>
    /\ disk = [f \in GeneratedFiles |-> Refused]
    /\ reload = "none"
    /\ readers = [t \in FileReaders |-> ReaderAtRest]
    /\ served \in [file : GeneratedFiles, reads : {0}, failures : {0}]
    /\ crossed = {}

-----------------------------------------------------------------------------
(* A read *)

\* The engine reads a file, in one call or by its size.
Ask(t, f, call) ==
    /\ readers[t].at = "idle" /\ f = served.file /\ served.reads < MaxServedReads
    /\ served' = [served EXCEPT !.reads = @ + 1]
    /\ readers' = [readers EXCEPT ![t] =
           [ReaderAtRest EXCEPT !.at = IF call = "size" THEN "cache" ELSE "ask", !.file = f, !.call = call,
                                !.quiet = (reload = "none" /\ \A u \in FileReaders \ {t} : ~Building(u, f))]]
    /\ UNCHANGED <<servedState, crossed>>

\* ModReadFromCache: the cache answers with the game's file, unless it is one
\* the launcher makes.
ReadFromCache(t) ==
    /\ readers[t].at = "cache"
    /\ IF readers[t].file \in {"pdef", "particles"} \cup patches
       THEN Goes(t, "ask")
       ELSE readers' = [readers EXCEPT ![t].at = "done", ![t].told = 0, ![t].got = Stock]
    /\ UNCHANGED <<servedState, served, crossed>>

\* RuntimePdefReady, ParticleManifestReady, and the test of the lists of
\* patched and built files: the file is there, or made now, or not served.
ListedAs(f) == {i \in DOMAIN built : built[i].file = f}

Starts(t) ==
    LET f == readers[t].file
        others == {u \in FileReaders \ {t} : Building(u, f)}
    IN  /\ readers' = [u \in FileReaders |->
                        IF u = t THEN [readers[t] EXCEPT !.at = "collect"]
                        ELSE [readers[u] EXCEPT !.quiet = (@ /\ readers[u].file # f)]]
        /\ crossed' = IF others # {} \/ reload # "none" THEN crossed \cup {f} ELSE crossed

Answers(t, ready) == readers' = [readers EXCEPT ![t].at = "answer", ![t].ready = ready]

IsReady(t) ==
    /\ readers[t].at = "ask"
    /\ LET f == readers[t].file
       IN  \/ /\ f = "pdef" /\ ~pdef.locked
              /\ IF pdef.attempted
                 THEN /\ Answers(t, pdef.generated)
                      /\ UNCHANGED <<pdef, crossed>>
                 ELSE pdef' = [pdef EXCEPT !.locked = TRUE, !.attempted = TRUE] /\ Starts(t)
           \/ /\ f = "particles"
              /\ IF particles.generated
                 THEN Answers(t, TRUE) /\ UNCHANGED crossed
                 ELSE Starts(t)
              /\ UNCHANGED pdef
           \/ /\ f \in KeyValueFiles
              /\ IF f \notin patches \/ ListedAs(f) # {} \/ readers[t].call = "read"
                 THEN Answers(t, f \in patches) /\ UNCHANGED crossed
                 ELSE Starts(t)
              /\ UNCHANGED pdef
    /\ UNCHANGED <<servedOverlay, particles, patches, built, disk, reload, served>>

\* The build reads the mods that are enabled now, each of which may spoil it.
Collect(t) ==
    /\ readers[t].at = "collect"
    /\ readers' = [readers EXCEPT ![t].at = IF readers[t].file \in Usable[servedOverlay] THEN "open" ELSE "unusable",
                                   ![t].set = servedOverlay]
    /\ UNCHANGED <<servedState, served, crossed>>

\* The file is opened, which empties it; the definition's is a temporary one.
OpenOutput(t) ==
    /\ readers[t].at = "open"
    /\ disk' = IF readers[t].file = "pdef" THEN disk
               ELSE [disk EXCEPT ![readers[t].file] = [set |-> readers[t].set, whole |-> FALSE]]
    /\ Goes(t, "write")
    /\ UNCHANGED <<servedOverlay, pdef, particles, patches, built, reload, served, crossed>>

\* It is written to its end and closed, or fails.
WriteOutput(t) ==
    /\ readers[t].at = "write"
    /\ \/ /\ disk' = [disk EXCEPT ![readers[t].file] = [set |-> readers[t].set, whole |-> TRUE]]
          /\ Goes(t, "note") /\ UNCHANGED served
       \/ /\ served.failures < MaxWriteFailures
          /\ served' = [served EXCEPT !.failures = @ + 1]
          /\ Goes(t, "unusable") /\ UNCHANGED disk
    /\ UNCHANGED <<servedOverlay, pdef, particles, patches, built, reload, crossed>>

\* Its size is noted.
NoteSize(t) ==
    /\ readers[t].at = "note"
    /\ LET r == readers[t]
       IN  \/ r.file = "pdef" /\ pdef' = [pdef EXCEPT !.size = r.set] /\ UNCHANGED <<particles, built>>
           \/ r.file = "particles" /\ particles' = [particles EXCEPT !.size = r.set] /\ UNCHANGED <<pdef, built>>
           \/ /\ r.file \in KeyValueFiles
              /\ built' = Append(built, [file |-> r.file, size |-> r.set]) /\ UNCHANGED <<pdef, particles>>
    /\ readers' = [readers EXCEPT ![t].at = "flag", ![t].ready = TRUE]
    /\ UNCHANGED <<servedOverlay, patches, disk, reload, served, crossed>>

\* The build has failed: a manifest's size is 0 from then on, when it was the
\* write that failed.
GivesUp(t) ==
    /\ readers[t].at = "unusable"
    /\ particles' = IF readers[t].file = "particles" /\ readers[t].file \in Usable[readers[t].set]
                    THEN [particles EXCEPT !.size = NoBytes] ELSE particles
    /\ readers' = [readers EXCEPT ![t].at = "flag", ![t].ready = FALSE, ![t].quiet = FALSE]
    /\ UNCHANGED <<servedOverlay, pdef, patches, built, disk, reload, served, crossed>>

\* The builder's caller stores what it returned, and the lock is given back.
StoreFlag(t) ==
    /\ readers[t].at = "flag"
    /\ pdef' = IF readers[t].file = "pdef" THEN [pdef EXCEPT !.generated = readers[t].ready, !.locked = FALSE] ELSE pdef
    /\ particles' = IF readers[t].file = "particles" THEN [particles EXCEPT !.generated = readers[t].ready] ELSE particles
    /\ Goes(t, "answer")
    /\ UNCHANGED <<servedOverlay, patches, built, disk, reload, served, crossed>>

\* ModSize; the size is read where the flag was, and is no size when 0.
SizeNoted(f) ==
    IF f = "pdef" THEN pdef.size
    ELSE IF f = "particles" THEN particles.size
    ELSE IF ListedAs(f) = {} THEN NoBytes
    ELSE built[CHOOSE i \in ListedAs(f) : \A j \in ListedAs(f) : i <= j].size

ModSize(t) ==
    /\ readers[t].at = "answer" /\ readers[t].call = "size"
    /\ LET f == readers[t].file
           size == IF readers[t].ready THEN SizeNoted(f) ELSE NoBytes
       IN  readers' = [readers EXCEPT ![t].at = "ask", ![t].call = "open",
                                      ![t].told = IF size = NoBytes /\ f # "pdef" THEN 0 ELSE size]
    /\ UNCHANGED <<servedState, served, crossed>>

\* ModOpenEx and ModReadFile: the launcher's file, or else the game's; a read in
\* one call of a patched file is always the game's, and there is no definition
\* of the game's.
ModOpenOrRead(t) ==
    /\ readers[t].at = "answer" /\ readers[t].call # "size"
    /\ LET f == readers[t].file
           ours == readers[t].ready /\ (readers[t].call = "open" \/ f \notin KeyValueFiles)
       IN  readers' = [readers EXCEPT ![t].at = "done",
                                      ![t].got = IF ours THEN disk[f] ELSE IF f = "pdef" THEN Refused ELSE Stock]
    /\ UNCHANGED <<servedState, served, crossed>>

Rests(t) == readers[t].at = "done" /\ readers' = [readers EXCEPT ![t] = ReaderAtRest] /\ UNCHANGED <<servedState, served, crossed>>

-----------------------------------------------------------------------------
(* The reload, on the UI thread *)

\* A plausible bug: the definition counts as attempted after a reload.
StillAttempted(p) == [locked |-> FALSE, attempted |-> p.attempted, generated |-> FALSE, size |-> NoBytes]
ResetPdef(p) == [locked |-> FALSE, attempted |-> FALSE, generated |-> FALSE, size |-> NoBytes]
ForgetsBuilt(b) == <<>>

ReloadOverlayServed ==
    /\ reload = "none" /\ servedOverlay + 1 \in ModSets
    /\ servedOverlay' = servedOverlay + 1 /\ reload' = "pdef"
    /\ readers' = [t \in FileReaders |-> [readers[t] EXCEPT !.quiet = FALSE]]
    /\ crossed' = crossed \cup {f \in GeneratedFiles : \E t \in FileReaders : Building(t, f)}
    /\ UNCHANGED <<pdef, particles, patches, built, disk, served>>

\* ResetRuntimePdef waits for a build of the definition to end.
ResetRuntimePdef ==
    /\ reload = "pdef" /\ ~pdef.locked
    /\ pdef' = ResetPdef(pdef) /\ reload' = "keyvalues"
    /\ UNCHANGED <<servedOverlay, particles, patches, built, disk, readers, served, crossed>>

\* CollectKeyValuePatches: both lists are emptied, then the mods are scanned.
EmptyLists ==
    /\ reload = "keyvalues"
    /\ patches' = {} /\ built' = ForgetsBuilt(built) /\ reload' = "scan"
    /\ UNCHANGED <<servedOverlay, pdef, particles, disk, readers, served, crossed>>

ScanPatches ==
    /\ reload = "scan"
    /\ patches' = Patched[servedOverlay] /\ reload' = "particles"
    /\ UNCHANGED <<servedOverlay, pdef, particles, built, disk, readers, served, crossed>>

ResetParticles ==
    /\ \/ reload = "particles" /\ particles' = [particles EXCEPT !.generated = FALSE] /\ reload' = "size"
       \/ reload = "size" /\ particles' = [particles EXCEPT !.size = NoBytes] /\ reload' = "none"
    /\ UNCHANGED <<servedOverlay, pdef, patches, built, disk, readers, served, crossed>>

BuildStep(t) == Collect(t) \/ OpenOutput(t) \/ WriteOutput(t) \/ NoteSize(t) \/ GivesUp(t) \/ StoreFlag(t)

ServedNext ==
    \/ \E t \in FileReaders, f \in GeneratedFiles, call \in {"size", "read"} : Ask(t, f, call)
    \/ \E t \in FileReaders : \/ ReadFromCache(t) \/ IsReady(t) \/ BuildStep(t)
                              \/ ModSize(t) \/ ModOpenOrRead(t) \/ Rests(t)
    \/ ReloadOverlayServed \/ ResetRuntimePdef \/ EmptyLists \/ ScanPatches \/ ResetParticles

ServedSpec == ServedInit /\ [][ServedNext]_servedVars

-----------------------------------------------------------------------------
Content == [set : 0..NoBytes, whole : BOOLEAN]
ReaderStates ==
    [at : {"idle", "cache", "ask", "collect", "open", "write", "note", "unusable", "flag", "answer", "done"},
     file : GeneratedFiles, call : {"size", "open", "read"}, ready : BOOLEAN, set : 0..NoBytes,
     told : 0..NoBytes, got : Content, quiet : BOOLEAN]
PdefStates == [locked : BOOLEAN, attempted : BOOLEAN, generated : BOOLEAN, size : 0..NoBytes]

ServedTypeOK ==
    /\ servedOverlay \in ModSets /\ patches \subseteq KeyValueFiles
    /\ pdef \in PdefStates /\ particles \in [generated : BOOLEAN, size : 0..NoBytes]
    /\ built \in Seq([file : KeyValueFiles, size : 0..NoBytes]) /\ disk \in [GeneratedFiles -> Content]
    /\ reload \in {"none", "pdef", "keyvalues", "scan", "particles", "size"}
    /\ readers \in [FileReaders -> ReaderStates]
    /\ served \in [file : GeneratedFiles, reads : 0..MaxServedReads, failures : 0..MaxWriteFailures]
    /\ crossed \subseteq GeneratedFiles

\* A read by size that no reload, no other builder of the file and no failure
\* fell into.
QuietRead(r) == r.at = "done" /\ r.quiet /\ r.call = "open"
SizeFits(r) == r.got.whole /\ r.told = r.got.set

\* The enabled mods make no such file, or writing it failed.
LeftOut(f) ==
    \/ f \notin Usable[servedOverlay]
    \/ f \in KeyValueFiles \ Patched[servedOverlay]
    \/ served.failures > 0

\* Such a read of the persistence definition is told the size of the file it
\* opens, and it is the file of the mods enabled now, whatever reloads and
\* builds went before, unless those make none.  Of the other files the same holds until some build of
\* the file has met a reload or another build of it.
ServedInStep ==
    \A t \in FileReaders : LET r == readers[t] IN
        QuietRead(r) /\ (r.file = "pdef" \/ r.file \notin crossed) =>
            /\ SizeFits(r)
            /\ r.got.set = servedOverlay \/ LeftOut(r.file)

\* At no time is the definition half written, nor the lock free while one of
\* the readers is building it.
OneBuilderOfThePdef ==
    /\ disk["pdef"].whole
    /\ Cardinality({t \in FileReaders : Building(t, "pdef")}) <= 1

ServedSound == ServedInStep /\ OneBuilderOfThePdef

=============================================================================
