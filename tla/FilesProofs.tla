------------------------------ MODULE FilesProofs ------------------------------
(***************************************************************************)
(* Proofs about the files the game reads and scripts write (ServedFiles,   *)
(* SaveFiles), what is made from the set of mods (ModSet), their archives  *)
(* (RpakReader) and the loading of their paks (Rpaks), for every value of  *)
(* the constants, as theorems of FilesSpec.                                *)
(*                                                                         *)
(* ServedInv says that the persistence definition is built by one reader   *)
(* at a time, under its lock, and that since the last reset what was made  *)
(* and noted of any file is of the mods enabled now.  SavesInv says that   *)
(* names refer to different inodes, that a save which nobody shares has     *)
(* its temporary to itself and holds there what was written so far, and    *)
(* that what it renames is synced; FolderInv that a save under way has     *)
(* room for its text.  MadeInv says how far a reload has brought what is   *)
(* made from the mods.  RpaksInv gives each entry a mod's load made to the  *)
(* pak whose handle it is, and says what a pass and a scan have still to   *)
(* load.                                                                   *)
(***************************************************************************)
EXTENDS MCFiles, ModSetProofs

-----------------------------------------------------------------------------
(***************************************************************************)
(* Served files                                                            *)
(***************************************************************************)

\* The reader builds the file it reads.
Builds(r) == r.at \in {"collect", "open", "write", "note", "unusable", "flag"}

\* A behaviour asks for one file; a read that nothing fell into has seen no
\* reload; and the patches are those of the mods enabled now, but in a reload.
ServedFacts ==
    /\ reload \in {"none", "particles", "size"} => patches = Patched[servedOverlay]
    /\ \A t \in FileReaders : readers[t].at # "idle" => readers[t].file = served.file
    /\ \A t \in FileReaders : readers[t].quiet => readers[t].at # "idle" /\ reload = "none"
    /\ disk["pdef"].whole

\* A quiet read is told the size of the file it opens, and opens the current one.
Fits(r) == SizeFits(r) /\ (r.got.set = servedOverlay \/ LeftOut(r.file))

\* The definition is built under its lock, by one reader at a time.
PdefLocked ==
    /\ pdef.locked => pdef.attempted
    /\ \A t \in FileReaders : Builds(readers[t]) => pdef.locked
    /\ \A t, u \in FileReaders : Builds(readers[t]) /\ Builds(readers[u]) => t = u

\* Since the last reset, what is made and noted is of the mods enabled now, or
\* none is made.
PdefMade == pdef.size = servedOverlay /\ disk["pdef"].set = servedOverlay
PdefStands == /\ pdef.generated => PdefMade
              /\ ~pdef.generated => LeftOut("pdef")
PdefUnderWay(r) ==
    /\ r.at \in {"open", "write", "note"} => r.set = servedOverlay
    /\ r.at = "note" => disk["pdef"].set = servedOverlay
    /\ r.at = "unusable" => LeftOut("pdef")
    /\ r.at = "flag" /\ r.ready => PdefMade
    /\ r.at = "flag" /\ ~r.ready => LeftOut("pdef")
PdefCurrent ==
    reload # "pdef" =>
        /\ pdef.attempted /\ ~pdef.locked => PdefStands
        /\ \A t \in FileReaders : PdefUnderWay(readers[t])

\* A quiet read has asked when the definition was there or was attempted.
PdefQuiet(r) ==
    /\ Builds(r) \/ r.at = "cache" => r.call # "open"
    /\ r.at = "flag" => r.ready
    /\ r.at = "answer" => r.ready = pdef.generated
    /\ r.at = "answer" \/ (r.at = "ask" /\ r.call = "open") => pdef.attempted /\ ~pdef.locked
    /\ r.at \in {"ask", "answer"} /\ r.call = "open" /\ pdef.generated => r.told = pdef.size
    /\ r.at \in {"ask", "answer"} /\ r.call = "open" /\ ~pdef.generated => r.told = NoBytes
    /\ r.at = "done" /\ r.call = "open" => Fits(r)
PdefQuietReads == \A t \in FileReaders : readers[t].quiet => PdefQuiet(readers[t])
PdefSound == served.file = "pdef" => PdefLocked /\ PdefCurrent /\ PdefQuietReads

\* Of another file: its builds met neither a reload nor one another.
LoneBuilds ==
    /\ \A t, u \in FileReaders : Builds(readers[t]) /\ Builds(readers[u]) => t = u
    /\ \A t \in FileReaders : Builds(readers[t]) => reload = "none"

WholeNow == [set |-> servedOverlay, whole |-> TRUE]
ManifestMade == particles.size = servedOverlay /\ disk["particles"] = WholeNow
ManifestUnderWay(r) ==
    /\ Builds(r) => ~particles.generated
    /\ r.at \in {"open", "write", "note"} => r.set = servedOverlay
    /\ r.at = "note" => disk["particles"] = WholeNow
    /\ r.at = "flag" /\ r.ready => ManifestMade
ManifestQuiet(r) ==
    /\ Builds(r) \/ r.at = "cache" => r.call # "open"
    /\ r.at = "flag" => r.ready
    /\ r.at = "answer" => r.ready
    /\ r.at = "answer" \/ (r.at = "ask" /\ r.call = "open") => particles.generated
    /\ r.at \in {"ask", "answer"} /\ r.call = "open" => r.told = servedOverlay
    /\ r.at = "done" /\ r.call = "open" => Fits(r)
ManifestCurrent ==
    /\ reload = "size" => ~particles.generated
    /\ reload = "none" /\ particles.generated => ManifestMade
    /\ \A t \in FileReaders : ManifestUnderWay(readers[t])
    /\ \A t \in FileReaders : readers[t].quiet => ManifestQuiet(readers[t])
ManifestSound ==
    served.file = "particles" /\ served.file \notin crossed => LoneBuilds /\ ManifestCurrent

Listed(f) == ListedAs(f) # {}
PatchMade(f) == /\ \A i \in ListedAs(f) : built[i].size = servedOverlay
                /\ disk[f] = WholeNow
PatchUnderWay(f, r) ==
    /\ Builds(r) /\ r.at # "flag" => ~Listed(f)
    /\ r.at \in {"open", "write", "note"} => r.set = servedOverlay
    /\ r.at = "note" => disk[f] = WholeNow
    /\ r.at = "flag" /\ r.ready => Listed(f)
PatchQuiet(f, r) ==
    /\ Builds(r) \/ r.at = "cache" => r.call # "open"
    /\ Builds(r) => f \in patches
    /\ r.at = "flag" => r.ready
    /\ r.at = "answer" => r.ready = (f \in patches)
    /\ f \in patches /\ r.at = "answer" /\ r.call # "read" => Listed(f)
    /\ f \in patches /\ r.at = "ask" /\ r.call = "open" => Listed(f)
    /\ r.at \in {"ask", "answer"} /\ r.call = "open" /\ f \in patches => r.told = servedOverlay
    /\ r.at \in {"ask", "answer"} /\ r.call = "open" /\ f \notin patches => r.told = 0
    /\ r.at = "done" /\ r.call = "open" => Fits(r)
PatchCurrent(f) ==
    /\ \A i, j \in ListedAs(f) : i = j
    /\ reload \in {"scan", "particles", "size"} => ~Listed(f)
    /\ reload = "none" /\ Listed(f) => PatchMade(f)
    /\ \A t \in FileReaders : PatchUnderWay(f, readers[t])
    /\ \A t \in FileReaders : readers[t].quiet => PatchQuiet(f, readers[t])
PatchSound ==
    served.file \in KeyValueFiles \ crossed => LoneBuilds /\ PatchCurrent(served.file)

ServedInv == ServedTypeOK /\ ServedFacts /\ PdefSound /\ ManifestSound /\ PatchSound

-----------------------------------------------------------------------------
(* What each step of a reader does to its record.                          *)

\* The other readers stay as they are.
OthersStay(t) == \A u \in FileReaders \ {t} : readers'[u] = readers[u]
\* The reader goes on with the file it asked for, in the same call.
SameRead(t) ==
    /\ readers'[t].file = readers[t].file /\ readers'[t].call = readers[t].call
    /\ readers'[t].quiet = readers[t].quiet
SameSet(t) == readers'[t].set = readers[t].set
SameTold(t) == readers'[t].told = readers[t].told
SameReady(t) == readers'[t].ready = readers[t].ready

\* A reader's record replaced by another one.
LEMMA ReaderMoved ==
    ASSUME readers \in [FileReaders -> ReaderStates], NEW t \in FileReaders, NEW r \in ReaderStates,
           readers' = [readers EXCEPT ![t] = r]
    PROVE  readers' \in [FileReaders -> ReaderStates] /\ readers'[t] = r /\ OthersStay(t)
  BY DEF OthersStay

LEMMA ReaderGoes ==
    ASSUME readers \in [FileReaders -> ReaderStates], NEW t \in FileReaders,
           NEW at \in {"cache", "ask", "collect", "open", "write", "note", "unusable", "flag", "answer", "done"},
           Goes(t, at)
    PROVE  /\ readers' \in [FileReaders -> ReaderStates] /\ OthersStay(t) /\ readers'[t].at = at
           /\ SameRead(t) /\ SameSet(t) /\ SameTold(t) /\ SameReady(t)
  <1>1. PICK r : r = [readers[t] EXCEPT !.at = at]
    OBVIOUS
  <1>2. readers[t] \in ReaderStates
    OBVIOUS
  <1>3. /\ r \in ReaderStates /\ r.at = at /\ r.file = readers[t].file /\ r.call = readers[t].call
        /\ r.quiet = readers[t].quiet /\ r.set = readers[t].set /\ r.told = readers[t].told
        /\ r.ready = readers[t].ready
    BY <1>1, <1>2 DEF ReaderStates
  <1>4. readers' = [readers EXCEPT ![t] = r]
    BY <1>1 DEF Goes
  <1>5. QED
    BY <1>3, <1>4, ReaderMoved DEF SameRead, SameSet, SameTold, SameReady

LEMMA ReaderAnswers ==
    ASSUME readers \in [FileReaders -> ReaderStates], NEW t \in FileReaders, NEW ready \in BOOLEAN,
           Answers(t, ready)
    PROVE  /\ readers' \in [FileReaders -> ReaderStates] /\ OthersStay(t) /\ readers'[t].at = "answer"
           /\ readers'[t].ready = ready /\ SameRead(t) /\ SameSet(t) /\ SameTold(t)
  <1>1. PICK r : r = [readers[t] EXCEPT !.at = "answer", !.ready = ready]
    OBVIOUS
  <1>2. readers[t] \in ReaderStates
    OBVIOUS
  <1>3. /\ r \in ReaderStates /\ r.at = "answer" /\ r.file = readers[t].file /\ r.call = readers[t].call
        /\ r.quiet = readers[t].quiet /\ r.set = readers[t].set /\ r.told = readers[t].told
        /\ r.ready = ready
    BY <1>1, <1>2 DEF ReaderStates
  <1>4. readers' = [readers EXCEPT ![t] = r]
    BY <1>1 DEF Answers
  <1>5. QED
    BY <1>3, <1>4, ReaderMoved DEF SameRead, SameSet, SameTold

LEMMA ReaderAsks ==
    ASSUME ServedTypeOK, NEW t \in FileReaders, NEW f \in GeneratedFiles, NEW how \in {"size", "read"},
           Ask(t, f, how)
    PROVE  /\ readers' \in [FileReaders -> ReaderStates] /\ OthersStay(t)
           /\ readers'[t].at \in {"cache", "ask"} /\ readers'[t].call = how /\ readers'[t].file = f
           /\ readers'[t].quiet => reload = "none" /\ \A u \in FileReaders \ {t} : ~Building(u, f)
  <1>0. PICK quiet \in BOOLEAN : quiet = (reload = "none" /\ \A u \in FileReaders \ {t} : ~Building(u, f))
    OBVIOUS
  <1>1. PICK at \in {"cache", "ask"} : at = IF how = "size" THEN "cache" ELSE "ask"
    OBVIOUS
  <1>2. PICK r : r = [ReaderAtRest EXCEPT !.at = at, !.file = f, !.call = how, !.quiet = quiet]
    OBVIOUS
  <1>3. NoBytes \in 0..NoBytes /\ 0 \in 0..NoBytes
    BY ServedFilesAssumption DEF NoBytes
  <1>4. /\ r \in ReaderStates /\ r.at = at /\ r.file = f /\ r.call = how /\ r.quiet = quiet
    BY <1>2, <1>3 DEF ReaderStates, ReaderAtRest, Stock, Content
  <1>5. readers' = [readers EXCEPT ![t] = r]
    BY <1>0, <1>1, <1>2 DEF Ask
  <1>6. readers' \in [FileReaders -> ReaderStates] /\ readers'[t] = r /\ OthersStay(t)
    BY <1>4, <1>5, ReaderMoved DEF ServedTypeOK
  <1>7. QED
    BY <1>0, <1>1, <1>4, <1>6

LEMMA CacheFacts ==
    ASSUME ServedTypeOK, NEW t \in FileReaders, ReadFromCache(t)
    PROVE  /\ readers' \in [FileReaders -> ReaderStates] /\ OthersStay(t) /\ SameRead(t)
           /\ readers[t].at = "cache" /\ readers'[t].at \in {"ask", "done"}
           /\ readers'[t].at = "done" => readers'[t].got = Stock
           /\ readers'[t].at = "done" => readers'[t].told = 0
  <1>0. readers \in [FileReaders -> ReaderStates] /\ readers[t] \in ReaderStates
    BY DEF ServedTypeOK
  <1>1. CASE Goes(t, "ask")
    BY <1>0, <1>1, ReaderGoes DEF ReadFromCache
  <1>2. CASE readers' = [readers EXCEPT ![t].at = "done", ![t].told = 0, ![t].got = Stock]
    <2>1. PICK r : r = [readers[t] EXCEPT !.at = "done", !.told = 0, !.got = Stock]
      OBVIOUS
    <2>2. 0 \in 0..NoBytes
      BY ServedFilesAssumption DEF NoBytes
    <2>3. /\ r \in ReaderStates /\ r.at = "done" /\ r.file = readers[t].file /\ r.call = readers[t].call
          /\ r.quiet = readers[t].quiet /\ r.told = 0 /\ r.got = Stock
      BY <1>0, <2>1, <2>2 DEF ReaderStates, Stock, Content
    <2>4. readers' = [readers EXCEPT ![t] = r]
      BY <1>2, <2>1
    <2>5. QED
      BY <1>0, <2>3, <2>4, ReaderMoved DEF SameRead, ReadFromCache
  <1>3. QED
    BY <1>1, <1>2 DEF ReadFromCache

LEMMA StartFacts ==
    ASSUME readers \in [FileReaders -> ReaderStates], NEW t \in FileReaders, Starts(t)
    PROVE  /\ readers' \in [FileReaders -> ReaderStates]
           /\ SameRead(t) /\ readers'[t].at = "collect"
           /\ \A u \in FileReaders \ {t} :
                 /\ readers'[u].at = readers[u].at /\ SameSet(u) /\ SameReady(u)
                 /\ readers'[u].file = readers[u].file /\ readers'[u].call = readers[u].call
                 /\ readers'[u].quiet => readers[u].quiet /\ readers[u].file # readers[t].file
                 /\ readers[u].file # readers[t].file => readers'[u] = readers[u]
  <1>0. \A u \in FileReaders : readers[u] \in ReaderStates
    OBVIOUS
  <1>1. PICK r : r = [readers[t] EXCEPT !.at = "collect"]
    OBVIOUS
  <1>2. r \in ReaderStates /\ r.at = "collect" /\ r.file = readers[t].file /\ r.call = readers[t].call
        /\ r.quiet = readers[t].quiet
    BY <1>0, <1>1 DEF ReaderStates
  <1>3. readers'[t] = r
    BY <1>1 DEF Starts
  <1>4. ASSUME NEW u \in FileReaders \ {t}
        PROVE  /\ readers'[u] \in ReaderStates
               /\ readers'[u].at = readers[u].at /\ SameSet(u) /\ SameReady(u)
               /\ readers'[u].file = readers[u].file /\ readers'[u].call = readers[u].call
               /\ readers'[u].quiet => readers[u].quiet /\ readers[u].file # readers[t].file
               /\ readers[u].file # readers[t].file => readers'[u] = readers[u]
    <2>1. PICK quiet \in BOOLEAN : quiet = (readers[u].quiet /\ readers[u].file # readers[t].file)
      OBVIOUS
    <2>2. PICK v : v = [readers[u] EXCEPT !.quiet = quiet]
      OBVIOUS
    <2>3. /\ v \in ReaderStates /\ v.at = readers[u].at /\ v.file = readers[u].file /\ v.call = readers[u].call
          /\ v.set = readers[u].set /\ v.ready = readers[u].ready /\ v.quiet = quiet
      BY <1>0, <2>2 DEF ReaderStates
    <2>4. readers'[u] = v
      BY <2>1, <2>2 DEF Starts
    <2>5. readers[u].file # readers[t].file => quiet = readers[u].quiet
      BY <1>0, <2>1 DEF ReaderStates
    <2>6. quiet = readers[u].quiet => v = readers[u]
      BY <1>0, <2>2, <2>3 DEF ReaderStates
    <2>7. QED
      BY <2>1, <2>3, <2>4, <2>5, <2>6 DEF SameSet, SameReady
  <1>5. readers' = [u \in FileReaders |-> readers'[u]]
    BY DEF Starts
  <1>6. QED
    BY <1>2, <1>3, <1>4, <1>5 DEF SameRead

LEMMA CollectFacts ==
    ASSUME ServedTypeOK, NEW t \in FileReaders, Collect(t)
    PROVE  /\ readers' \in [FileReaders -> ReaderStates] /\ OthersStay(t) /\ SameRead(t)
           /\ readers[t].at = "collect" /\ readers'[t].at \in {"open", "unusable"}
           /\ readers'[t].set = servedOverlay
           /\ readers'[t].at = "unusable" => readers[t].file \notin Usable[servedOverlay]
  <1>0. readers \in [FileReaders -> ReaderStates] /\ readers[t] \in ReaderStates
    BY DEF ServedTypeOK
  <1>1. PICK at \in {"open", "unusable"} :
            at = IF readers[t].file \in Usable[servedOverlay] THEN "open" ELSE "unusable"
    OBVIOUS
  <1>2. PICK r : r = [readers[t] EXCEPT !.at = at, !.set = servedOverlay]
    OBVIOUS
  <1>3. servedOverlay \in 0..NoBytes
    BY ServedFilesAssumption DEF NoBytes, ServedTypeOK
  <1>4. /\ r \in ReaderStates /\ r.at = at /\ r.file = readers[t].file /\ r.call = readers[t].call
        /\ r.quiet = readers[t].quiet /\ r.set = servedOverlay
    BY <1>0, <1>2, <1>3 DEF ReaderStates
  <1>5. readers' = [readers EXCEPT ![t] = r]
    BY <1>1, <1>2 DEF Collect
  <1>6. QED
    BY <1>0, <1>1, <1>4, <1>5, ReaderMoved DEF SameRead, Collect

LEMMA NoteFacts ==
    ASSUME ServedTypeOK, NEW t \in FileReaders, NoteSize(t)
    PROVE  /\ readers' \in [FileReaders -> ReaderStates] /\ OthersStay(t) /\ SameRead(t)
           /\ readers[t].at = "note" /\ readers'[t].at = "flag" /\ readers'[t].ready = TRUE
  <1>0. readers \in [FileReaders -> ReaderStates] /\ readers[t] \in ReaderStates
    BY DEF ServedTypeOK
  <1>2. PICK r : r = [readers[t] EXCEPT !.at = "flag", !.ready = TRUE]
    OBVIOUS
  <1>4. /\ r \in ReaderStates /\ r.at = "flag" /\ r.file = readers[t].file /\ r.call = readers[t].call
        /\ r.quiet = readers[t].quiet /\ r.ready = TRUE
    BY <1>0, <1>2 DEF ReaderStates
  <1>5. readers' = [readers EXCEPT ![t] = r]
    BY <1>2 DEF NoteSize
  <1>6. QED
    BY <1>0, <1>4, <1>5, ReaderMoved DEF SameRead, NoteSize

LEMMA GiveUpFacts ==
    ASSUME ServedTypeOK, NEW t \in FileReaders, GivesUp(t)
    PROVE  /\ readers' \in [FileReaders -> ReaderStates] /\ OthersStay(t)
           /\ readers'[t].file = readers[t].file /\ readers'[t].quiet = FALSE
           /\ readers[t].at = "unusable" /\ readers'[t].at = "flag" /\ readers'[t].ready = FALSE
  <1>0. readers \in [FileReaders -> ReaderStates] /\ readers[t] \in ReaderStates
    BY DEF ServedTypeOK
  <1>2. PICK r : r = [readers[t] EXCEPT !.at = "flag", !.ready = FALSE, !.quiet = FALSE]
    OBVIOUS
  <1>4. /\ r \in ReaderStates /\ r.at = "flag" /\ r.file = readers[t].file
        /\ r.quiet = FALSE /\ r.ready = FALSE
    BY <1>0, <1>2 DEF ReaderStates
  <1>5. readers' = [readers EXCEPT ![t] = r]
    BY <1>2 DEF GivesUp
  <1>6. QED
    BY <1>0, <1>4, <1>5, ReaderMoved DEF GivesUp

\* The size a reader is told.
ToldNow(f, ready) == IF ready THEN SizeNoted(f) ELSE NoBytes

LEMMA SizeFacts ==
    ASSUME ServedTypeOK, NEW t \in FileReaders, ModSize(t), SizeNoted(readers[t].file) \in 0..NoBytes
    PROVE  /\ readers' \in [FileReaders -> ReaderStates] /\ OthersStay(t)
           /\ readers'[t].file = readers[t].file /\ readers'[t].quiet = readers[t].quiet
           /\ readers[t].at = "answer" /\ readers[t].call = "size"
           /\ readers'[t].at = "ask" /\ readers'[t].call = "open"
           /\ readers'[t].told = IF ToldNow(readers[t].file, readers[t].ready) = NoBytes /\ readers[t].file # "pdef"
                                 THEN 0 ELSE ToldNow(readers[t].file, readers[t].ready)
  <1>0. readers \in [FileReaders -> ReaderStates] /\ readers[t] \in ReaderStates
    BY DEF ServedTypeOK
  <1>1. NoBytes \in 0..NoBytes /\ 0 \in 0..NoBytes
    BY ServedFilesAssumption DEF NoBytes
  <1>2. PICK told \in 0..NoBytes :
            told = IF ToldNow(readers[t].file, readers[t].ready) = NoBytes /\ readers[t].file # "pdef"
                   THEN 0 ELSE ToldNow(readers[t].file, readers[t].ready)
    BY <1>1 DEF ToldNow
  <1>3. PICK r : r = [readers[t] EXCEPT !.at = "ask", !.call = "open", !.told = told]
    OBVIOUS
  <1>4. /\ r \in ReaderStates /\ r.at = "ask" /\ r.file = readers[t].file /\ r.call = "open"
        /\ r.quiet = readers[t].quiet /\ r.told = told
    BY <1>0, <1>3 DEF ReaderStates
  <1>5. readers' = [readers EXCEPT ![t] = r]
    BY <1>2, <1>3 DEF ModSize, ToldNow
  <1>6. QED
    BY <1>0, <1>2, <1>4, <1>5, ReaderMoved DEF ModSize

\* What a reader is given.
GivenNow(f, how, ready) ==
    IF ready /\ (how = "open" \/ f \notin KeyValueFiles) THEN disk[f] ELSE IF f = "pdef" THEN Refused ELSE Stock

LEMMA OpenFacts ==
    ASSUME ServedTypeOK, NEW t \in FileReaders, ModOpenOrRead(t)
    PROVE  /\ readers' \in [FileReaders -> ReaderStates] /\ OthersStay(t) /\ SameRead(t) /\ SameTold(t)
           /\ readers[t].at = "answer" /\ readers[t].call # "size" /\ readers'[t].at = "done"
           /\ readers'[t].got = GivenNow(readers[t].file, readers[t].call, readers[t].ready)
  <1>0. readers \in [FileReaders -> ReaderStates] /\ readers[t] \in ReaderStates
    BY DEF ServedTypeOK
  <1>1. readers[t].file \in GeneratedFiles
    BY <1>0 DEF ReaderStates
  <1>2. disk[readers[t].file] \in Content /\ Refused \in Content /\ Stock \in Content
    <2>1. disk[readers[t].file] \in Content
      BY <1>1 DEF ServedTypeOK
    <2>2. NoBytes \in 0..NoBytes /\ 0 \in 0..NoBytes /\ Len(Patched) + 1 = NoBytes
      BY ServedFilesAssumption DEF NoBytes
    <2>3. QED
      BY <2>1, <2>2 DEF Refused, Stock, Content
  <1>3. PICK got \in Content : got = GivenNow(readers[t].file, readers[t].call, readers[t].ready)
    BY <1>2 DEF GivenNow
  <1>4. PICK r : r = [readers[t] EXCEPT !.at = "done", !.got = got]
    OBVIOUS
  <1>5. /\ r \in ReaderStates /\ r.at = "done" /\ r.file = readers[t].file /\ r.call = readers[t].call
        /\ r.quiet = readers[t].quiet /\ r.told = readers[t].told /\ r.got = got
    BY <1>0, <1>4 DEF ReaderStates
  <1>6. readers' = [readers EXCEPT ![t] = r]
    BY <1>3, <1>4 DEF ModOpenOrRead, GivenNow
  <1>7. QED
    BY <1>0, <1>3, <1>5, <1>6, ReaderMoved DEF ModOpenOrRead, SameRead, SameTold

LEMMA RestFacts ==
    ASSUME ServedTypeOK, NEW t \in FileReaders, Rests(t)
    PROVE  /\ readers' \in [FileReaders -> ReaderStates] /\ OthersStay(t)
           /\ readers[t].at = "done" /\ readers'[t].at = "idle" /\ readers'[t].quiet = FALSE
  <1>1. NoBytes \in 0..NoBytes /\ 0 \in 0..NoBytes
    BY ServedFilesAssumption DEF NoBytes
  <1>2. ReaderAtRest \in ReaderStates
    BY <1>1 DEF ReaderAtRest, ReaderStates, Stock, Content, GeneratedFiles
  <1>3. QED
    BY <1>2, ReaderMoved DEF Rests, ServedTypeOK, ReaderAtRest

-----------------------------------------------------------------------------
(* Types, and the facts of every file.                                     *)

LEMMA SizeIsNoted ==
    ASSUME ServedTypeOK, NEW f \in GeneratedFiles
    PROVE  SizeNoted(f) \in 0..NoBytes
  <1>1. ListedAs(f) \subseteq DOMAIN built /\ DOMAIN built \subseteq Nat
    BY DEF ListedAs, ServedTypeOK
  <1>2. ListedAs(f) # {} => (CHOOSE i \in ListedAs(f) : \A j \in ListedAs(f) : i <= j) \in DOMAIN built
    BY <1>1, LeastOfMany
  <1>3. \A i \in DOMAIN built : built[i].size \in 0..NoBytes
    <2>1. built \in Seq([file : KeyValueFiles, size : 0..NoBytes])
      BY DEF ServedTypeOK
    <2>2. \A i \in DOMAIN built : built[i] \in [file : KeyValueFiles, size : 0..NoBytes]
      <3>1. DOMAIN built = 1..Len(built)
        BY <2>1
      <3>2. QED
        BY <2>1, <3>1, ElementOfSeq
    <2>3. QED
      BY <2>2
  <1>4. NoBytes \in 0..NoBytes
    BY ServedFilesAssumption DEF NoBytes
  <1>5. pdef.size \in 0..NoBytes /\ particles.size \in 0..NoBytes
    BY DEF ServedTypeOK, PdefStates
  <1>6. QED
    BY <1>2, <1>3, <1>4, <1>5 DEF SizeNoted

LEMMA BuildOutputTypes ==
    ASSUME ServedTypeOK, NEW t \in FileReaders, NEW whole \in BOOLEAN
    PROVE  /\ readers[t].file \in GeneratedFiles
           /\ [set |-> readers[t].set, whole |-> whole] \in Content
  <1>1. readers[t] \in ReaderStates
    BY DEF ServedTypeOK
  <1>2. QED
    BY <1>1 DEF ReaderStates, Content

\* Steps of a reader that leave the files and what is noted of them alone.
LEMMA ServedTypeKept ==
    ASSUME ServedTypeOK, readers' \in [FileReaders -> ReaderStates], UNCHANGED <<servedState, served>>,
           crossed' = crossed \/ \E f \in GeneratedFiles : crossed' = crossed \cup {f}
    PROVE  ServedTypeOK'
  BY DEF ServedTypeOK, servedState

\* Every step keeps the types.
LEMMA ServedTypeStep ==
    ASSUME ServedTypeOK, ServedNext
    PROVE  ServedTypeOK'
  <1>0. readers \in [FileReaders -> ReaderStates]
    BY DEF ServedTypeOK
  <1>1. ASSUME NEW t \in FileReaders, NEW f \in GeneratedFiles, NEW how \in {"size", "read"}, Ask(t, f, how)
        PROVE  ServedTypeOK'
    <2>1. readers' \in [FileReaders -> ReaderStates]
      BY <1>1, ReaderAsks
    <2>2. PICK s : s = [served EXCEPT !.reads = @ + 1]
      OBVIOUS
    <2>3. served \in [file : GeneratedFiles, reads : 0..MaxServedReads, failures : 0..MaxWriteFailures]
          /\ served.reads < MaxServedReads
      BY <1>1 DEF ServedTypeOK, Ask
    <2>4. served.reads + 1 \in 0..MaxServedReads
      BY <2>3, ServedFilesAssumption
    <2>5. s \in [file : GeneratedFiles, reads : 0..MaxServedReads, failures : 0..MaxWriteFailures]
      BY <2>2, <2>3, <2>4
    <2>6. served' = s /\ UNCHANGED <<servedState, crossed>>
      BY <1>1, <2>2 DEF Ask
    <2>7. QED
      BY <2>1, <2>5, <2>6 DEF ServedTypeOK, servedState
  <1>2. ASSUME NEW t \in FileReaders, ReadFromCache(t)
        PROVE  ServedTypeOK'
    BY <1>2, CacheFacts, ServedTypeKept DEF ReadFromCache
  <1>3. ASSUME NEW t \in FileReaders, IsReady(t)
        PROVE  ServedTypeOK'
    <2>1. readers[t].file \in GeneratedFiles
      BY BuildOutputTypes
    <2>2. (\E ready \in BOOLEAN : Answers(t, ready)) => readers' \in [FileReaders -> ReaderStates]
      BY <1>0, ReaderAnswers
    <2>3. Starts(t) => /\ readers' \in [FileReaders -> ReaderStates]
                       /\ (crossed' = crossed \/ crossed' = crossed \cup {readers[t].file})
      BY <1>0, StartFacts DEF Starts
    <2>4. pdef.generated \in BOOLEAN
      BY DEF ServedTypeOK, PdefStates
    <2>5. \/ (\E ready \in BOOLEAN : Answers(t, ready)) /\ UNCHANGED crossed
          \/ Starts(t)
      <3> DEFINE listed == (readers[t].file \in patches)
      <3>1. listed \in BOOLEAN
        OBVIOUS
      <3> HIDE DEF listed
      <3>2. \/ Answers(t, pdef.generated) /\ UNCHANGED crossed
            \/ Answers(t, TRUE) /\ UNCHANGED crossed
            \/ Answers(t, listed) /\ UNCHANGED crossed
            \/ Starts(t)
        BY <1>3 DEF IsReady, listed
      <3>3. QED
        BY <2>4, <3>1, <3>2
    <2>6. /\ readers' \in [FileReaders -> ReaderStates]
          /\ (crossed' = crossed \/ crossed' = crossed \cup {readers[t].file})
      BY <2>2, <2>3, <2>5
    <2>7. UNCHANGED <<servedOverlay, particles, patches, built, disk, reload, served>>
      BY <1>3 DEF IsReady
    <2>8. pdef' \in PdefStates
      <3>1. pdef' = pdef \/ pdef' = [pdef EXCEPT !.locked = TRUE, !.attempted = TRUE]
        BY <1>3 DEF IsReady
      <3>2. pdef \in PdefStates
        BY DEF ServedTypeOK
      <3>3. QED
        BY <3>1, <3>2 DEF PdefStates
    <2>9. QED
      BY <2>1, <2>6, <2>7, <2>8 DEF ServedTypeOK
  <1>4. ASSUME NEW t \in FileReaders, Collect(t)
        PROVE  ServedTypeOK'
    BY <1>4, CollectFacts, ServedTypeKept DEF Collect
  <1>5. ASSUME NEW t \in FileReaders, OpenOutput(t)
        PROVE  ServedTypeOK'
    <2>1. readers' \in [FileReaders -> ReaderStates]
      BY <1>0, <1>5, ReaderGoes DEF OpenOutput
    <2>2. disk' \in [GeneratedFiles -> Content]
      BY <1>5, BuildOutputTypes DEF OpenOutput, ServedTypeOK
    <2>3. QED
      BY <1>5, <2>1, <2>2 DEF OpenOutput, ServedTypeOK
  <1>6. ASSUME NEW t \in FileReaders, WriteOutput(t)
        PROVE  ServedTypeOK'
    <2>1. readers' \in [FileReaders -> ReaderStates]
      BY <1>0, <1>6, ReaderGoes DEF WriteOutput
    <2>2. disk' \in [GeneratedFiles -> Content]
      BY <1>6, BuildOutputTypes DEF WriteOutput, ServedTypeOK
    <2>3. served \in [file : GeneratedFiles, reads : 0..MaxServedReads, failures : 0..MaxWriteFailures]
      BY DEF ServedTypeOK
    <2>4. CASE UNCHANGED served
      BY <1>6, <2>1, <2>2, <2>4 DEF WriteOutput, ServedTypeOK
    <2>5. CASE served.failures < MaxWriteFailures /\ served' = [served EXCEPT !.failures = @ + 1]
      <3>1. served.failures + 1 \in 0..MaxWriteFailures
        BY <2>3, <2>5, ServedFilesAssumption
      <3>2. served' \in [file : GeneratedFiles, reads : 0..MaxServedReads, failures : 0..MaxWriteFailures]
        BY <2>3, <2>5, <3>1
      <3>3. QED
        BY <1>6, <2>1, <2>2, <3>2 DEF WriteOutput, ServedTypeOK
    <2>6. QED
      BY <1>6, <2>4, <2>5 DEF WriteOutput
  <1>7. ASSUME NEW t \in FileReaders, NoteSize(t)
        PROVE  ServedTypeOK'
    <2>1. readers' \in [FileReaders -> ReaderStates]
      BY <1>7, NoteFacts
    <2>2. readers[t].set \in 0..NoBytes
      <3>1. readers[t] \in ReaderStates
        BY <1>0
      <3>2. QED
        BY <3>1 DEF ReaderStates
    <2>3. pdef' \in PdefStates
      <3>1. pdef' = pdef \/ pdef' = [pdef EXCEPT !.size = readers[t].set]
        BY <1>7 DEF NoteSize
      <3>2. pdef \in PdefStates
        BY DEF ServedTypeOK
      <3>3. QED
        BY <2>2, <3>1, <3>2 DEF PdefStates
    <2>4. particles' \in [generated : BOOLEAN, size : 0..NoBytes]
      <3>1. particles' = particles \/ particles' = [particles EXCEPT !.size = readers[t].set]
        BY <1>7 DEF NoteSize
      <3>2. QED
        BY <2>2, <3>1 DEF ServedTypeOK
    <2>5. built' \in Seq([file : KeyValueFiles, size : 0..NoBytes])
      <3>1. \/ built' = built
            \/ /\ readers[t].file \in KeyValueFiles
               /\ built' = Append(built, [file |-> readers[t].file, size |-> readers[t].set])
        BY <1>7 DEF NoteSize
      <3>2. readers[t].file \in KeyValueFiles =>
              [file |-> readers[t].file, size |-> readers[t].set] \in [file : KeyValueFiles, size : 0..NoBytes]
        BY <2>2
      <3>3. built \in Seq([file : KeyValueFiles, size : 0..NoBytes])
        BY DEF ServedTypeOK
      <3>4. ASSUME NEW e \in [file : KeyValueFiles, size : 0..NoBytes]
            PROVE  Append(built, e) \in Seq([file : KeyValueFiles, size : 0..NoBytes])
        BY <3>3, AppendProperties
      <3>5. QED
        BY <3>1, <3>2, <3>3, <3>4
    <2>6. QED
      BY <1>7, <2>1, <2>3, <2>4, <2>5 DEF NoteSize, ServedTypeOK
  <1>8. ASSUME NEW t \in FileReaders, GivesUp(t)
        PROVE  ServedTypeOK'
    <2>1. particles' \in [generated : BOOLEAN, size : 0..NoBytes]
      <3>1. NoBytes \in 0..NoBytes
        BY ServedFilesAssumption DEF NoBytes
      <3>2. particles' = particles \/ particles' = [particles EXCEPT !.size = NoBytes]
        BY <1>8 DEF GivesUp
      <3>3. QED
        BY <3>1, <3>2 DEF ServedTypeOK
    <2>2. QED
      BY <1>8, <2>1, GiveUpFacts DEF GivesUp, ServedTypeOK
  <1>9. ASSUME NEW t \in FileReaders, StoreFlag(t)
        PROVE  ServedTypeOK'
    <2>1. readers' \in [FileReaders -> ReaderStates]
      BY <1>0, <1>9, ReaderGoes DEF StoreFlag
    <2>2. readers[t].ready \in BOOLEAN
      <3>1. readers[t] \in ReaderStates
        BY <1>0
      <3>2. QED
        BY <3>1 DEF ReaderStates
    <2>3. pdef' \in PdefStates
      <3>1. pdef' = pdef \/ pdef' = [pdef EXCEPT !.generated = readers[t].ready, !.locked = FALSE]
        BY <1>9 DEF StoreFlag
      <3>2. pdef \in PdefStates
        BY DEF ServedTypeOK
      <3>3. QED
        BY <2>2, <3>1, <3>2 DEF PdefStates
    <2>4. particles' \in [generated : BOOLEAN, size : 0..NoBytes]
      <3>1. particles' = particles \/ particles' = [particles EXCEPT !.generated = readers[t].ready]
        BY <1>9 DEF StoreFlag
      <3>2. QED
        BY <2>2, <3>1 DEF ServedTypeOK
    <2>5. QED
      BY <1>9, <2>1, <2>3, <2>4 DEF StoreFlag, ServedTypeOK
  <1>10. ASSUME NEW t \in FileReaders, ModSize(t)
         PROVE  ServedTypeOK'
    BY <1>10, SizeFacts, SizeIsNoted, BuildOutputTypes, ServedTypeKept DEF ModSize
  <1>11. ASSUME NEW t \in FileReaders, ModOpenOrRead(t)
         PROVE  ServedTypeOK'
    BY <1>11, OpenFacts, ServedTypeKept DEF ModOpenOrRead
  <1>12. ASSUME NEW t \in FileReaders, Rests(t)
         PROVE  ServedTypeOK'
    BY <1>12, RestFacts, ServedTypeKept DEF Rests
  <1>13. CASE ReloadOverlayServed
    <2>1. ASSUME NEW t \in FileReaders
          PROVE  [readers[t] EXCEPT !.quiet = FALSE] \in ReaderStates
      <3>1. readers[t] \in ReaderStates
        BY <1>0
      <3>2. QED
        BY <3>1 DEF ReaderStates
    <2>2. readers' \in [FileReaders -> ReaderStates]
      BY <1>13, <2>1 DEF ReloadOverlayServed
    <2>3. QED
      BY <1>13, <2>2 DEF ReloadOverlayServed, ServedTypeOK
  <1>14. CASE ResetRuntimePdef
    <2>1. NoBytes \in 0..NoBytes
      BY ServedFilesAssumption DEF NoBytes
    <2>2. pdef' \in PdefStates
      BY <1>14, <2>1 DEF ResetRuntimePdef, ResetPdef, PdefStates
    <2>3. QED
      BY <1>14, <2>2 DEF ResetRuntimePdef, ServedTypeOK
  <1>15. CASE EmptyLists
    <2>1. built' \in Seq([file : KeyValueFiles, size : 0..NoBytes])
      BY <1>15 DEF EmptyLists, ForgetsBuilt
    <2>2. QED
      BY <1>15, <2>1 DEF EmptyLists, ServedTypeOK
  <1>16. CASE ScanPatches
    <2>1. Patched[servedOverlay] \subseteq KeyValueFiles
      BY DEF ServedTypeOK, KeyValueFiles
    <2>2. QED
      BY <1>16, <2>1 DEF ScanPatches, ServedTypeOK
  <1>17. CASE ResetParticles
    <2>1. NoBytes \in 0..NoBytes
      BY ServedFilesAssumption DEF NoBytes
    <2>2. particles' \in [generated : BOOLEAN, size : 0..NoBytes]
      <3>1. particles \in [generated : BOOLEAN, size : 0..NoBytes]
        BY DEF ServedTypeOK
      <3>2. \/ particles' = [particles EXCEPT !.generated = FALSE]
            \/ particles' = [particles EXCEPT !.size = NoBytes]
        BY <1>17 DEF ResetParticles
      <3>3. QED
        BY <2>1, <3>1, <3>2
    <2>3. QED
      BY <1>17, <2>2 DEF ResetParticles, ServedTypeOK
  <1>18. QED
    BY <1>1, <1>2, <1>3, <1>4, <1>5, <1>6, <1>7, <1>8, <1>9, <1>10, <1>11, <1>12, <1>13, <1>14, <1>15,
       <1>16, <1>17 DEF ServedNext, BuildStep

\* A step of one reader that keeps the file it reads keeps the facts.
LEMMA ServedFactsKept ==
    ASSUME ServedFacts, NEW t \in FileReaders, UNCHANGED <<servedOverlay, reload, patches>>,
           OthersStay(t), served'.file = served.file, disk'["pdef"].whole,
           readers'[t].at # "idle" => readers'[t].file = served.file,
           readers'[t].quiet => readers'[t].at # "idle" /\ reload = "none"
    PROVE  ServedFacts'
  BY DEF ServedFacts, OthersStay

LEMMA ServedFactsStep ==
    ASSUME ServedTypeOK, ServedFacts, ServedNext
    PROVE  ServedFacts'
  <1>0. /\ readers \in [FileReaders -> ReaderStates] /\ "pdef" \in GeneratedFiles
        /\ disk \in [GeneratedFiles -> Content]
        /\ served \in [file : GeneratedFiles, reads : 0..MaxServedReads, failures : 0..MaxWriteFailures]
    BY DEF ServedTypeOK, GeneratedFiles
  <1>a. /\ \A t \in FileReaders : readers[t].at # "idle" => readers[t].file = served.file
        /\ \A t \in FileReaders : readers[t].quiet => readers[t].at # "idle" /\ reload = "none"
        /\ disk["pdef"].whole
    BY DEF ServedFacts
  <1>1. ASSUME NEW t \in FileReaders, NEW f \in GeneratedFiles, NEW how \in {"size", "read"}, Ask(t, f, how)
        PROVE  ServedFacts'
    <2>1. f = served.file /\ served'.file = served.file /\ UNCHANGED servedState
      BY <1>0, <1>1 DEF Ask
    <2>2. QED
      BY <1>1, <1>a, <2>1, ReaderAsks, ServedFactsKept DEF servedState
  <1>2. ASSUME NEW t \in FileReaders, ReadFromCache(t)
        PROVE  ServedFacts'
    <2>1. OthersStay(t) /\ readers'[t].file = readers[t].file /\ readers'[t].quiet = readers[t].quiet
          /\ readers'[t].at # "idle" /\ readers[t].at # "idle"
      BY <1>2, CacheFacts DEF SameRead
    <2>2. UNCHANGED <<servedOverlay, reload, patches, served, disk>>
      BY <1>2 DEF ReadFromCache, servedState
    <2>3. QED
      BY <1>a, <2>1, <2>2, ServedFactsKept
  <1>3. ASSUME NEW t \in FileReaders, IsReady(t)
        PROVE  ServedFacts'
    <2>1. readers[t].at = "ask" /\ UNCHANGED <<servedOverlay, patches, disk, reload, served>>
      BY <1>3 DEF IsReady
    <2>2. CASE Starts(t)
      <3>1. /\ SameRead(t) /\ readers'[t].at = "collect"
            /\ \A u \in FileReaders \ {t} :
                 /\ readers'[u].at = readers[u].at /\ readers'[u].file = readers[u].file
                 /\ readers'[u].quiet => readers[u].quiet
        BY <1>0, <2>2, StartFacts
      <3>2. QED
        BY <1>a, <2>1, <3>1 DEF ServedFacts, SameRead
    <2>3. CASE \E ready \in BOOLEAN : Answers(t, ready)
      BY <1>0, <1>a, <2>1, <2>3, ReaderAnswers, ServedFactsKept DEF SameRead
    <2>4. QED
      <3> DEFINE listed == (readers[t].file \in patches)
      <3>1. listed \in BOOLEAN
        OBVIOUS
      <3> HIDE DEF listed
      <3>2. pdef.generated \in BOOLEAN
        BY DEF ServedTypeOK, PdefStates
      <3>3. Answers(t, pdef.generated) \/ Answers(t, TRUE) \/ Answers(t, listed) \/ Starts(t)
        BY <1>3 DEF IsReady, listed
      <3>4. QED
        BY <2>2, <2>3, <3>1, <3>2, <3>3
  <1>4. ASSUME NEW t \in FileReaders, Collect(t)
        PROVE  ServedFacts'
    <2>1. OthersStay(t) /\ readers'[t].file = readers[t].file /\ readers'[t].quiet = readers[t].quiet
          /\ readers'[t].at # "idle" /\ readers[t].at # "idle"
      BY <1>4, CollectFacts DEF SameRead
    <2>2. UNCHANGED <<servedOverlay, reload, patches, served, disk>>
      BY <1>4 DEF Collect, servedState
    <2>3. QED
      BY <1>a, <2>1, <2>2, ServedFactsKept
  <1>5. ASSUME NEW t \in FileReaders, OpenOutput(t)
        PROVE  ServedFacts'
    <2>1. OthersStay(t) /\ SameRead(t) /\ readers'[t].at = "write" /\ readers[t].at = "open"
      BY <1>0, <1>5, ReaderGoes DEF OpenOutput
    <2>2. disk'["pdef"].whole
      BY <1>0, <1>5, <1>a DEF OpenOutput
    <2>3. UNCHANGED <<servedOverlay, reload, patches, served>>
      BY <1>5 DEF OpenOutput
    <2>4. QED
      BY <1>a, <2>1, <2>2, <2>3, ServedFactsKept DEF SameRead
  <1>6. ASSUME NEW t \in FileReaders, WriteOutput(t)
        PROVE  ServedFacts'
    <2>1. OthersStay(t) /\ SameRead(t) /\ readers'[t].at # "idle" /\ readers[t].at = "write"
      BY <1>0, <1>6, ReaderGoes DEF WriteOutput
    <2>2. disk'["pdef"].whole
      BY <1>0, <1>6, <1>a DEF WriteOutput
    <2>3. UNCHANGED <<servedOverlay, reload, patches>> /\ served'.file = served.file
      BY <1>0, <1>6 DEF WriteOutput
    <2>4. QED
      BY <1>a, <2>1, <2>2, <2>3, ServedFactsKept DEF SameRead
  <1>7. ASSUME NEW t \in FileReaders, NoteSize(t)
        PROVE  ServedFacts'
    <2>1. OthersStay(t) /\ readers'[t].file = readers[t].file /\ readers'[t].quiet = readers[t].quiet
          /\ readers'[t].at # "idle" /\ readers[t].at # "idle"
      BY <1>7, NoteFacts DEF SameRead
    <2>2. UNCHANGED <<servedOverlay, reload, patches, served, disk>>
      BY <1>7 DEF NoteSize, servedState
    <2>3. QED
      BY <1>a, <2>1, <2>2, ServedFactsKept
  <1>8. ASSUME NEW t \in FileReaders, GivesUp(t)
        PROVE  ServedFacts'
    BY <1>8, <1>a, GiveUpFacts, ServedFactsKept DEF GivesUp
  <1>9. ASSUME NEW t \in FileReaders, StoreFlag(t)
        PROVE  ServedFacts'
    <2>1. OthersStay(t) /\ SameRead(t) /\ readers'[t].at = "answer" /\ readers[t].at = "flag"
      BY <1>0, <1>9, ReaderGoes DEF StoreFlag
    <2>2. UNCHANGED <<servedOverlay, reload, patches, served, disk>>
      BY <1>9 DEF StoreFlag
    <2>3. QED
      BY <1>a, <2>1, <2>2, ServedFactsKept DEF SameRead
  <1>10. ASSUME NEW t \in FileReaders, ModSize(t)
         PROVE  ServedFacts'
    <2>1. OthersStay(t) /\ readers'[t].file = readers[t].file /\ readers'[t].quiet = readers[t].quiet
          /\ readers'[t].at # "idle" /\ readers[t].at # "idle"
      BY <1>10, SizeFacts, SizeIsNoted, BuildOutputTypes DEF SameRead
    <2>2. UNCHANGED <<servedOverlay, reload, patches, served, disk>>
      BY <1>10 DEF ModSize, servedState
    <2>3. QED
      BY <1>a, <2>1, <2>2, ServedFactsKept
  <1>11. ASSUME NEW t \in FileReaders, ModOpenOrRead(t)
         PROVE  ServedFacts'
    <2>1. OthersStay(t) /\ readers'[t].file = readers[t].file /\ readers'[t].quiet = readers[t].quiet
          /\ readers'[t].at # "idle" /\ readers[t].at # "idle"
      BY <1>11, OpenFacts DEF SameRead
    <2>2. UNCHANGED <<servedOverlay, reload, patches, served, disk>>
      BY <1>11 DEF ModOpenOrRead, servedState
    <2>3. QED
      BY <1>a, <2>1, <2>2, ServedFactsKept
  <1>12. ASSUME NEW t \in FileReaders, Rests(t)
         PROVE  ServedFacts'
    BY <1>12, <1>a, RestFacts, ServedFactsKept DEF Rests, servedState
  <1>13. CASE ReloadOverlayServed
    <2>1. ASSUME NEW t \in FileReaders
          PROVE  readers'[t].at = readers[t].at /\ readers'[t].file = readers[t].file /\ readers'[t].quiet = FALSE
      <3>1. readers[t] \in ReaderStates /\ readers'[t] = [readers[t] EXCEPT !.quiet = FALSE]
        BY <1>0, <1>13 DEF ReloadOverlayServed
      <3>2. QED
        BY <3>1 DEF ReaderStates
    <2>2. reload' = "pdef" /\ UNCHANGED <<served, disk>>
      BY <1>13 DEF ReloadOverlayServed
    <2>3. QED
      BY <1>a, <2>1, <2>2 DEF ServedFacts
  <1>14. CASE ResetRuntimePdef
    BY <1>14, <1>a DEF ResetRuntimePdef, ServedFacts
  <1>15. CASE EmptyLists
    BY <1>15, <1>a DEF EmptyLists, ServedFacts
  <1>16. CASE ScanPatches
    BY <1>16, <1>a DEF ScanPatches, ServedFacts
  <1>17. CASE ResetParticles
    BY <1>17, <1>a DEF ResetParticles, ServedFacts
  <1>18. QED
    BY <1>1, <1>2, <1>3, <1>4, <1>5, <1>6, <1>7, <1>8, <1>9, <1>10, <1>11, <1>12, <1>13, <1>14, <1>15,
       <1>16, <1>17 DEF ServedNext, BuildStep

-----------------------------------------------------------------------------
(* The persistence definition.                                             *)

PdefParts == PdefLocked /\ PdefCurrent /\ PdefQuietReads

\* A step of one reader that leaves the definition and what is noted of it
\* alone, and begins no build.
LEMMA PdefFrame ==
    ASSUME PdefParts, NEW t \in FileReaders, UNCHANGED <<servedOverlay, reload, pdef>>,
           disk'["pdef"] = disk["pdef"], served.failures > 0 => served'.failures > 0, OthersStay(t),
           Builds(readers[t])' => Builds(readers[t]),
           reload # "pdef" => PdefUnderWay(readers[t])',
           readers'[t].quiet => PdefQuiet(readers[t])'
    PROVE  PdefParts'
  <1>1. \A f : LeftOut(f) => LeftOut(f)'
    BY DEF LeftOut
  <1>2. PdefLocked'
    BY DEF PdefParts, PdefLocked, OthersStay
  <1>3. PdefMade' <=> PdefMade
    BY DEF PdefMade
  <1>4. PdefCurrent'
    <2>1. PdefStands => PdefStands'
      BY <1>1, <1>3 DEF PdefStands
    <2>2. ASSUME NEW u \in FileReaders, u # t, reload # "pdef"
          PROVE  PdefUnderWay(readers[u])'
      <3>1. PdefUnderWay(readers[u]) /\ readers'[u] = readers[u]
        BY <2>2 DEF PdefParts, PdefCurrent, OthersStay
      <3>2. QED
        BY <1>1, <1>3, <3>1 DEF PdefUnderWay
    <2>3. QED
      BY <2>1, <2>2 DEF PdefParts, PdefCurrent
  <1>5. PdefQuietReads'
    <2>1. ASSUME NEW u \in FileReaders, u # t, readers'[u].quiet
          PROVE  PdefQuiet(readers[u])'
      <3>1. PdefQuiet(readers[u]) /\ readers'[u] = readers[u]
        BY <2>1 DEF PdefParts, PdefQuietReads, OthersStay
      <3>2. Fits(readers[u]) => Fits(readers[u])'
        BY <1>1, <3>1 DEF Fits, SizeFits
      <3>3. QED
        BY <3>1, <3>2 DEF PdefQuiet, Builds
    <2>2. QED
      BY <2>1 DEF PdefQuietReads
  <1>6. QED
    BY <1>2, <1>4, <1>5 DEF PdefParts

\* A step of the reader that builds the definition: no other reader builds
\* it, nor is in a read that relies on it.
LEMMA PdefBuildStep ==
    ASSUME PdefParts, NEW t \in FileReaders, UNCHANGED <<servedOverlay, reload, served>>,
           Builds(readers[t]), OthersStay(t),
           pdef'.locked => pdef'.attempted, Builds(readers[t])' => pdef'.locked,
           reload # "pdef" /\ ~pdef'.locked => PdefStands',
           reload # "pdef" => PdefUnderWay(readers[t])',
           readers'[t].quiet => PdefQuiet(readers[t])'
    PROVE  PdefParts'
  <1>1. pdef.locked /\ \A u \in FileReaders \ {t} : ~Builds(readers[u]) /\ readers'[u] = readers[u]
    BY DEF PdefParts, PdefLocked, OthersStay
  <1>2. PdefLocked'
    BY <1>1 DEF PdefLocked, Builds
  <1>3. PdefCurrent'
    <2>1. ASSUME NEW u \in FileReaders, u # t
          PROVE  PdefUnderWay(readers[u])'
      BY <1>1, <2>1 DEF PdefUnderWay, Builds
    <2>2. QED
      BY <2>1 DEF PdefCurrent
  <1>4. PdefQuietReads'
    <2>1. ASSUME NEW u \in FileReaders, u # t, readers'[u].quiet
          PROVE  PdefQuiet(readers[u])'
      <3>1. PdefQuiet(readers[u]) /\ readers'[u] = readers[u] /\ ~Builds(readers[u])
        BY <1>1, <2>1 DEF PdefParts, PdefQuietReads
      <3>2. Fits(readers[u]) => Fits(readers[u])'
        BY <3>1 DEF Fits, SizeFits, LeftOut
      <3>3. QED
        BY <1>1, <3>1, <3>2 DEF PdefQuiet, Builds
    <2>2. QED
      BY <2>1 DEF PdefQuietReads
  <1>5. QED
    BY <1>2, <1>3, <1>4 DEF PdefParts

\* The definition's step.
LEMMA PdefStep ==
    ASSUME ServedTypeOK, ServedFacts, PdefParts, served.file = "pdef", ServedNext
    PROVE  PdefParts'
  <1>0. /\ readers \in [FileReaders -> ReaderStates] /\ "pdef" \in GeneratedFiles /\ "pdef" \notin KeyValueFiles
        /\ disk \in [GeneratedFiles -> Content] /\ pdef \in PdefStates
        /\ served \in [file : GeneratedFiles, reads : 0..MaxServedReads, failures : 0..MaxWriteFailures]
    BY ServedFilesAssumption DEF ServedTypeOK, GeneratedFiles
  <1>a. /\ \A t \in FileReaders : readers[t].at # "idle" => readers[t].file = "pdef"
        /\ \A t \in FileReaders : readers[t].quiet => readers[t].at # "idle" /\ reload = "none"
        /\ disk["pdef"].whole
    BY DEF ServedFacts
  <1>b. \A t \in FileReaders : readers[t].quiet => PdefQuiet(readers[t])
    BY DEF PdefParts, PdefQuietReads
  <1>c. reload # "pdef" => /\ pdef.attempted /\ ~pdef.locked => PdefStands
                           /\ \A t \in FileReaders : PdefUnderWay(readers[t])
    BY DEF PdefParts, PdefCurrent
  <1>d. /\ pdef.locked => pdef.attempted
        /\ \A t \in FileReaders : Builds(readers[t]) => pdef.locked
    BY DEF PdefParts, PdefLocked
  <1>1. ASSUME NEW t \in FileReaders, NEW f \in GeneratedFiles, NEW how \in {"size", "read"}, Ask(t, f, how)
        PROVE  PdefParts'
    <2>1. served'.failures = served.failures /\ UNCHANGED servedState
      BY <1>0, <1>1 DEF Ask
    <2>2. OthersStay(t) /\ readers'[t].at \in {"cache", "ask"} /\ readers'[t].call # "open"
      BY <1>1, ReaderAsks
    <2>3. ~Builds(readers[t])' /\ PdefUnderWay(readers[t])' /\ PdefQuiet(readers[t])'
      BY <2>2 DEF Builds, PdefUnderWay, PdefQuiet
    <2>4. QED
      BY <2>1, <2>2, <2>3, PdefFrame DEF servedState
  <1>2. ASSUME NEW t \in FileReaders, ReadFromCache(t)
        PROVE  PdefParts'
    <2>1. UNCHANGED <<servedState, served>> /\ readers[t].at = "cache"
      BY <1>2 DEF ReadFromCache
    <2>2. readers[t].file = "pdef"
      BY <1>a, <2>1
    <2>3. OthersStay(t) /\ readers'[t].at = "ask" /\ SameRead(t)
      BY <1>0, <1>2, <2>2, ReaderGoes DEF ReadFromCache
    <2>4. ~Builds(readers[t])' /\ PdefUnderWay(readers[t])'
      BY <2>3 DEF Builds, PdefUnderWay
    <2>5. readers'[t].quiet => PdefQuiet(readers[t])'
      <3>1. readers[t].quiet => readers[t].call # "open"
        BY <1>b, <2>1 DEF PdefQuiet
      <3>2. QED
        BY <2>3, <3>1 DEF PdefQuiet, SameRead, Builds
    <2>6. QED
      BY <2>1, <2>3, <2>4, <2>5, PdefFrame DEF servedState
  <1>3. ASSUME NEW t \in FileReaders, IsReady(t)
        PROVE  PdefParts'
    <2>1. /\ readers[t].at = "ask" /\ UNCHANGED <<servedOverlay, disk, reload, served>>
          /\ readers[t].file = "pdef" /\ ~pdef.locked
      BY <1>0, <1>3, <1>a DEF IsReady
    <2>2. CASE pdef.attempted
      <3>1. Answers(t, pdef.generated) /\ UNCHANGED pdef
        BY <1>0, <1>3, <2>1, <2>2 DEF IsReady
      <3>2. OthersStay(t) /\ SameRead(t) /\ SameTold(t) /\ readers'[t].at = "answer" /\ readers'[t].ready = pdef.generated
        BY <1>0, <3>1, ReaderAnswers DEF PdefStates
      <3>3. ~Builds(readers[t])' /\ PdefUnderWay(readers[t])'
        BY <3>2 DEF Builds, PdefUnderWay
      <3>4. readers'[t].quiet => PdefQuiet(readers[t])'
        <4>1. readers[t].quiet /\ readers[t].call = "open" =>
                /\ pdef.generated => readers[t].told = pdef.size
                /\ ~pdef.generated => readers[t].told = NoBytes
          BY <1>b, <2>1 DEF PdefQuiet
        <4>2. QED
          BY <2>1, <2>2, <3>1, <3>2, <4>1 DEF PdefQuiet, SameRead, SameTold, Builds
      <3>5. QED
        BY <2>1, <3>1, <3>2, <3>3, <3>4, PdefFrame
    <2>3. CASE ~pdef.attempted
      <3>1. Starts(t) /\ pdef' = [pdef EXCEPT !.locked = TRUE, !.attempted = TRUE]
        BY <1>0, <1>3, <2>1, <2>3 DEF IsReady
      <3>2. pdef'.locked /\ pdef'.attempted
        BY <1>0, <3>1 DEF PdefStates
      <3>3. /\ SameRead(t) /\ readers'[t].at = "collect"
            /\ \A u \in FileReaders \ {t} :
                 /\ readers'[u].at = readers[u].at
                 /\ readers'[u].quiet => readers[u].quiet /\ readers[u].file # readers[t].file
        BY <1>0, <3>1, StartFacts
      <3>4. \A u \in FileReaders \ {t} : ~readers'[u].quiet /\ ~Builds(readers[u])'
        BY <1>a, <1>d, <2>1, <3>3 DEF Builds
      <3>5. PdefLocked'
        BY <3>2, <3>4 DEF PdefLocked
      <3>6. PdefCurrent'
        <4>1. \A u \in FileReaders : PdefUnderWay(readers[u])'
          BY <3>3, <3>4 DEF PdefUnderWay, Builds
        <4>2. QED
          BY <3>2, <4>1 DEF PdefCurrent
      <3>7. PdefQuietReads'
        <4>1. readers[t].quiet => readers[t].call # "open"
          BY <1>b, <2>1, <2>3 DEF PdefQuiet
        <4>2. readers'[t].quiet => PdefQuiet(readers[t])'
          BY <3>3, <4>1 DEF PdefQuiet, SameRead
        <4>3. QED
          BY <3>4, <4>2 DEF PdefQuietReads
      <3>8. QED
        BY <3>5, <3>6, <3>7 DEF PdefParts
    <2>4. QED
      BY <2>2, <2>3
  <1>4. ASSUME NEW t \in FileReaders, Collect(t)
        PROVE  PdefParts'
    <2>1. /\ OthersStay(t) /\ SameRead(t) /\ readers[t].at = "collect" /\ readers'[t].at \in {"open", "unusable"}
          /\ readers'[t].set = servedOverlay
          /\ readers'[t].at = "unusable" => readers[t].file \notin Usable[servedOverlay]
      BY <1>4, CollectFacts
    <2>2. UNCHANGED <<servedState, served>> /\ readers[t].file = "pdef"
      BY <1>4, <1>a, <2>1 DEF Collect
    <2>3. PdefUnderWay(readers[t])'
      BY <2>1, <2>2 DEF PdefUnderWay, LeftOut, servedState
    <2>4. Builds(readers[t])
      BY <2>1 DEF Builds
    <2>5. readers'[t].quiet => PdefQuiet(readers[t])'
      BY <1>b, <2>1, <2>4 DEF PdefQuiet, SameRead
    <2>6. QED
      BY <2>1, <2>2, <2>3, <2>4, <2>5, PdefFrame DEF servedState
  <1>5. ASSUME NEW t \in FileReaders, OpenOutput(t)
        PROVE  PdefParts'
    <2>1. OthersStay(t) /\ SameRead(t) /\ SameSet(t) /\ readers'[t].at = "write" /\ readers[t].at = "open"
      BY <1>0, <1>5, ReaderGoes DEF OpenOutput
    <2>2. UNCHANGED <<servedOverlay, reload, pdef, disk, served>>
      BY <1>5, <1>a, <2>1 DEF OpenOutput
    <2>3. reload # "pdef" => PdefUnderWay(readers[t])'
      BY <1>c, <2>1, <2>2 DEF PdefUnderWay, SameSet
    <2>4. Builds(readers[t])
      BY <2>1 DEF Builds
    <2>5. readers'[t].quiet => PdefQuiet(readers[t])'
      BY <1>b, <2>1, <2>4 DEF PdefQuiet, SameRead
    <2>6. QED
      BY <2>1, <2>2, <2>3, <2>4, <2>5, PdefFrame
  <1>6. ASSUME NEW t \in FileReaders, WriteOutput(t)
        PROVE  PdefParts'
    <2>1. readers[t].at = "write" /\ UNCHANGED <<servedOverlay, reload, pdef>>
      BY <1>6 DEF WriteOutput
    <2>2. readers[t].file = "pdef" /\ Builds(readers[t])
      BY <1>a, <2>1 DEF Builds
    <2>3. CASE Goes(t, "note") /\ disk' = [disk EXCEPT ![readers[t].file] = [set |-> readers[t].set, whole |-> TRUE]]
               /\ UNCHANGED served
      <3>1. OthersStay(t) /\ SameRead(t) /\ SameSet(t) /\ readers'[t].at = "note"
        BY <1>0, <2>3, ReaderGoes
      <3>2. disk'["pdef"].set = readers[t].set
        BY <1>0, <2>2, <2>3
      <3>3. reload # "pdef" => PdefUnderWay(readers[t])'
        BY <1>c, <2>1, <3>1, <3>2 DEF PdefUnderWay, SameSet
      <3>4. readers'[t].quiet => PdefQuiet(readers[t])'
        BY <1>b, <2>2, <3>1 DEF PdefQuiet, SameRead
      <3>5. pdef.locked /\ pdef.attempted
        BY <1>d, <2>2
      <3>6. QED
        BY <2>1, <2>2, <2>3, <3>1, <3>3, <3>4, <3>5, PdefBuildStep
    <2>4. CASE Goes(t, "unusable") /\ served' = [served EXCEPT !.failures = @ + 1] /\ UNCHANGED disk
      <3>1. OthersStay(t) /\ SameRead(t) /\ readers'[t].at = "unusable"
        BY <1>0, <2>4, ReaderGoes
      <3>2. served'.failures > 0
        BY <1>0, <2>4, ServedFilesAssumption
      <3>3. PdefUnderWay(readers[t])'
        BY <3>1, <3>2 DEF PdefUnderWay, LeftOut
      <3>4. readers'[t].quiet => PdefQuiet(readers[t])'
        BY <1>b, <2>2, <3>1 DEF PdefQuiet, SameRead
      <3>5. QED
        BY <2>1, <2>2, <2>4, <3>1, <3>2, <3>3, <3>4, PdefFrame
    <2>5. QED
      BY <1>6, <2>3, <2>4 DEF WriteOutput
  <1>7. ASSUME NEW t \in FileReaders, NoteSize(t)
        PROVE  PdefParts'
    <2>1. OthersStay(t) /\ SameRead(t) /\ readers[t].at = "note" /\ readers'[t].at = "flag" /\ readers'[t].ready = TRUE
      BY <1>7, NoteFacts
    <2>2. readers[t].file = "pdef" /\ Builds(readers[t]) /\ Builds(readers[t])'
      BY <1>a, <2>1 DEF Builds
    <2>3. pdef' = [pdef EXCEPT !.size = readers[t].set] /\ UNCHANGED <<servedOverlay, reload, served, disk>>
      BY <1>0, <1>7, <2>2 DEF NoteSize
    <2>4. pdef'.size = readers[t].set /\ pdef'.locked = pdef.locked /\ pdef'.attempted = pdef.attempted
      BY <1>0, <2>3 DEF PdefStates
    <2>5. reload # "pdef" => PdefUnderWay(readers[t])'
      BY <1>c, <2>1, <2>3, <2>4 DEF PdefUnderWay, PdefMade
    <2>6. readers'[t].quiet => PdefQuiet(readers[t])'
      BY <1>b, <2>1, <2>2 DEF PdefQuiet, SameRead
    <2>7. pdef'.locked /\ pdef'.attempted
      BY <1>d, <2>2, <2>4
    <2>8. QED
      BY <2>1, <2>2, <2>3, <2>5, <2>6, <2>7, PdefBuildStep
  <1>8. ASSUME NEW t \in FileReaders, GivesUp(t)
        PROVE  PdefParts'
    <2>1. /\ OthersStay(t) /\ readers'[t].quiet = FALSE
          /\ readers[t].at = "unusable" /\ readers'[t].at = "flag" /\ readers'[t].ready = FALSE
      BY <1>8, GiveUpFacts
    <2>2. UNCHANGED <<servedOverlay, reload, pdef, disk, served>>
      BY <1>8 DEF GivesUp
    <2>3. reload # "pdef" => PdefUnderWay(readers[t])'
      BY <1>c, <2>1, <2>2 DEF PdefUnderWay, LeftOut
    <2>4. Builds(readers[t])
      BY <2>1 DEF Builds
    <2>5. QED
      BY <2>1, <2>2, <2>3, <2>4, PdefFrame
  <1>9. ASSUME NEW t \in FileReaders, StoreFlag(t)
        PROVE  PdefParts'
    <2>1. OthersStay(t) /\ SameRead(t) /\ SameReady(t) /\ readers'[t].at = "answer" /\ readers[t].at = "flag"
      BY <1>0, <1>9, ReaderGoes DEF StoreFlag
    <2>2. readers[t].file = "pdef" /\ Builds(readers[t]) /\ ~Builds(readers[t])'
      BY <1>a, <2>1 DEF Builds
    <2>3. pdef' = [pdef EXCEPT !.generated = readers[t].ready, !.locked = FALSE]
          /\ UNCHANGED <<servedOverlay, reload, served, disk>>
      BY <1>9, <2>2 DEF StoreFlag
    <2>4. pdef'.generated = readers[t].ready /\ ~pdef'.locked /\ pdef'.attempted = pdef.attempted /\ pdef'.size = pdef.size
      BY <1>0, <2>3 DEF PdefStates
    <2>5. reload # "pdef" => PdefStands'
      BY <1>c, <2>1, <2>3, <2>4 DEF PdefUnderWay, PdefStands, PdefMade, LeftOut
    <2>6. PdefUnderWay(readers[t])'
      BY <2>1 DEF PdefUnderWay
    <2>7. readers'[t].quiet => PdefQuiet(readers[t])'
      <3>1. readers[t].quiet => readers[t].call # "open"
        BY <1>b, <2>2 DEF PdefQuiet
      <3>2. pdef'.attempted
        BY <1>d, <2>2, <2>4
      <3>3. QED
        BY <2>1, <2>2, <2>4, <3>1, <3>2 DEF PdefQuiet, SameRead, SameReady
    <2>8. QED
      BY <2>1, <2>2, <2>3, <2>4, <2>5, <2>6, <2>7, PdefBuildStep
  <1>10. ASSUME NEW t \in FileReaders, ModSize(t)
         PROVE  PdefParts'
    <2>1. readers[t].at = "answer" /\ UNCHANGED <<servedState, served>>
      BY <1>10 DEF ModSize
    <2>2. readers[t].file = "pdef"
      BY <1>a, <2>1
    <2>3. /\ OthersStay(t) /\ readers'[t].quiet = readers[t].quiet /\ readers'[t].at = "ask" /\ readers'[t].call = "open"
          /\ readers'[t].told = ToldNow("pdef", readers[t].ready)
      BY <1>0, <1>10, <2>2, SizeIsNoted, SizeFacts
    <2>4. ~Builds(readers[t])' /\ PdefUnderWay(readers[t])'
      BY <2>3 DEF Builds, PdefUnderWay
    <2>5. readers'[t].quiet => PdefQuiet(readers[t])'
      <3>1. readers[t].quiet => readers[t].ready = pdef.generated /\ pdef.attempted /\ ~pdef.locked
        BY <1>b, <2>1 DEF PdefQuiet
      <3>2. UNCHANGED pdef
        BY <2>1 DEF servedState
      <3>3. QED
        BY <2>3, <3>1, <3>2 DEF PdefQuiet, ToldNow, SizeNoted, Builds
    <2>6. QED
      BY <2>1, <2>3, <2>4, <2>5, PdefFrame DEF servedState
  <1>11. ASSUME NEW t \in FileReaders, ModOpenOrRead(t)
         PROVE  PdefParts'
    <2>1. /\ OthersStay(t) /\ SameRead(t) /\ SameTold(t)
          /\ readers[t].at = "answer" /\ readers[t].call # "size" /\ readers'[t].at = "done"
          /\ readers'[t].got = GivenNow(readers[t].file, readers[t].call, readers[t].ready)
      BY <1>11, OpenFacts
    <2>2. UNCHANGED <<servedState, served>> /\ readers[t].file = "pdef"
      BY <1>11, <1>a, <2>1 DEF ModOpenOrRead
    <2>3. ~Builds(readers[t])' /\ PdefUnderWay(readers[t])'
      BY <2>1 DEF Builds, PdefUnderWay
    <2>4. readers'[t].quiet => PdefQuiet(readers[t])'
      <3>1. SUFFICES ASSUME readers[t].quiet, readers[t].call = "open"
                     PROVE  Fits(readers[t])'
        BY <2>1 DEF PdefQuiet, SameRead, Builds
      <3>2. /\ readers[t].ready = pdef.generated /\ pdef.attempted /\ ~pdef.locked /\ reload = "none"
            /\ pdef.generated => readers[t].told = pdef.size
            /\ ~pdef.generated => readers[t].told = NoBytes
        BY <1>a, <1>b, <2>1, <3>1 DEF PdefQuiet
      <3>3. PdefStands
        BY <1>c, <3>2
      <3>4. CASE pdef.generated
        <4>1. readers'[t].got = disk["pdef"] /\ readers'[t].told = servedOverlay
          BY <1>0, <2>1, <2>2, <3>1, <3>2, <3>3, <3>4 DEF GivenNow, PdefStands, PdefMade, SameTold
        <4>2. QED
          BY <1>a, <2>2, <3>3, <3>4, <4>1 DEF Fits, SizeFits, PdefStands, PdefMade, servedState
      <3>5. CASE ~pdef.generated
        <4>1. readers'[t].got = Refused /\ readers'[t].told = NoBytes /\ LeftOut("pdef")
          BY <2>1, <2>2, <3>2, <3>3, <3>5 DEF GivenNow, PdefStands, SameTold
        <4>2. LeftOut("pdef")' /\ readers'[t].file = "pdef"
          BY <2>1, <2>2, <4>1 DEF LeftOut, SameRead, servedState
        <4>3. QED
          BY <4>1, <4>2 DEF Fits, SizeFits, Refused, NoBytes
      <3>6. QED
        BY <3>4, <3>5
    <2>5. QED
      BY <2>1, <2>2, <2>3, <2>4, PdefFrame DEF servedState
  <1>12. ASSUME NEW t \in FileReaders, Rests(t)
         PROVE  PdefParts'
    <2>1. OthersStay(t) /\ readers'[t].at = "idle" /\ readers'[t].quiet = FALSE
      BY <1>12, RestFacts
    <2>2. ~Builds(readers[t])' /\ PdefUnderWay(readers[t])'
      BY <2>1 DEF Builds, PdefUnderWay
    <2>3. UNCHANGED <<servedState, served>>
      BY <1>12 DEF Rests
    <2>4. QED
      BY <2>1, <2>2, <2>3, PdefFrame DEF servedState
  <1>13. CASE ReloadOverlayServed
    <2>1. ASSUME NEW t \in FileReaders
          PROVE  readers'[t].at = readers[t].at /\ readers'[t].quiet = FALSE
      <3>1. readers[t] \in ReaderStates /\ readers'[t] = [readers[t] EXCEPT !.quiet = FALSE]
        BY <1>0, <1>13 DEF ReloadOverlayServed
      <3>2. QED
        BY <3>1 DEF ReaderStates
    <2>2. reload' = "pdef" /\ UNCHANGED pdef
      BY <1>13 DEF ReloadOverlayServed
    <2>3. PdefLocked'
      BY <2>1, <2>2 DEF PdefLocked, PdefParts, Builds
    <2>4. QED
      BY <2>1, <2>2, <2>3 DEF PdefParts, PdefCurrent, PdefQuietReads
  <1>14. CASE ResetRuntimePdef
    <2>1. reload = "pdef" /\ reload' = "keyvalues" /\ ~pdef.locked /\ UNCHANGED readers
      BY <1>14 DEF ResetRuntimePdef
    <2>2. ~pdef'.locked /\ ~pdef'.attempted
      BY <1>14 DEF ResetRuntimePdef, ResetPdef
    <2>3. \A t \in FileReaders : ~Builds(readers[t])' /\ ~readers'[t].quiet
      BY <1>a, <1>d, <2>1 DEF Builds
    <2>4. \A t \in FileReaders : PdefUnderWay(readers[t])'
      BY <2>3 DEF PdefUnderWay, Builds
    <2>5. QED
      BY <2>2, <2>3, <2>4 DEF PdefParts, PdefLocked, PdefCurrent, PdefQuietReads
  <1>15. CASE EmptyLists \/ ScanPatches \/ ResetParticles
    <2>1. /\ reload \in {"keyvalues", "scan", "particles", "size"} /\ reload' # "pdef"
          /\ UNCHANGED <<servedOverlay, pdef, disk, readers, served>>
      BY <1>15 DEF EmptyLists, ScanPatches, ResetParticles
    <2>2. \A t \in FileReaders : ~readers'[t].quiet
      BY <1>a, <2>1
    <2>3. PdefLocked'
      BY <2>1 DEF PdefLocked, PdefParts, Builds
    <2>4. \A f : LeftOut(f) => LeftOut(f)'
      BY <2>1 DEF LeftOut
    <2>5. PdefStands => PdefStands'
      BY <2>1, <2>4 DEF PdefStands, PdefMade
    <2>6. \A t \in FileReaders : PdefUnderWay(readers[t])'
      BY <1>c, <2>1, <2>4 DEF PdefUnderWay, PdefMade
    <2>7. PdefCurrent'
      BY <1>c, <2>1, <2>5, <2>6 DEF PdefCurrent
    <2>8. QED
      BY <2>2, <2>3, <2>7 DEF PdefParts, PdefQuietReads
  <1>16. QED
    BY <1>1, <1>2, <1>3, <1>4, <1>5, <1>6, <1>7, <1>8, <1>9, <1>10, <1>11, <1>12, <1>13, <1>14, <1>15
       DEF ServedNext, BuildStep

-----------------------------------------------------------------------------
(* The other files, of which no build met a reload or another build.       *)

\* A step of one reader that begins no build.
LEMMA LoneFrame ==
    ASSUME LoneBuilds, NEW t \in FileReaders, UNCHANGED reload, OthersStay(t),
           Builds(readers[t])' => Builds(readers[t])
    PROVE  LoneBuilds'
  BY DEF LoneBuilds, OthersStay, Builds

LEMMA LoneBuildsStep ==
    ASSUME ServedTypeOK, ServedFacts, LoneBuilds, served.file \notin crossed', ServedNext
    PROVE  LoneBuilds'
  <1>0. /\ readers \in [FileReaders -> ReaderStates] /\ served.file \in GeneratedFiles
        /\ pdef \in PdefStates
    BY DEF ServedTypeOK
  <1>a. \A t \in FileReaders : readers[t].at # "idle" => readers[t].file = served.file
    BY DEF ServedFacts
  <1>1. ASSUME NEW t \in FileReaders, NEW f \in GeneratedFiles, NEW how \in {"size", "read"}, Ask(t, f, how)
        PROVE  LoneBuilds'
    <2>1. UNCHANGED reload
      BY <1>1 DEF Ask, servedState
    <2>2. OthersStay(t) /\ readers'[t].at \in {"cache", "ask"}
      BY <1>1, ReaderAsks
    <2>3. QED
      BY <2>1, <2>2, LoneFrame DEF Builds
  <1>2. ASSUME NEW t \in FileReaders, ReadFromCache(t)
        PROVE  LoneBuilds'
    <2>1. UNCHANGED reload
      BY <1>2 DEF ReadFromCache, servedState
    <2>2. QED
      BY <1>2, <2>1, CacheFacts, LoneFrame DEF Builds
  <1>3. ASSUME NEW t \in FileReaders, IsReady(t)
        PROVE  LoneBuilds'
    <2>1. readers[t].at = "ask" /\ UNCHANGED reload /\ readers[t].file = served.file
      BY <1>3, <1>a DEF IsReady
    <2>2. CASE Starts(t)
      <3>1. reload = "none" /\ \A u \in FileReaders \ {t} : ~Building(u, readers[t].file)
        BY <2>1, <2>2 DEF Starts
      <3>2. \A u \in FileReaders \ {t} : ~Builds(readers[u])
        BY <1>a, <2>1, <3>1 DEF Building, Builds
      <3>3. \A u \in FileReaders \ {t} : readers'[u].at = readers[u].at
        BY <1>0, <2>2, StartFacts
      <3>4. QED
        BY <2>1, <3>1, <3>2, <3>3 DEF LoneBuilds, Builds
    <2>3. CASE \E ready \in BOOLEAN : Answers(t, ready)
      <3>1. OthersStay(t) /\ readers'[t].at = "answer"
        BY <1>0, <2>3, ReaderAnswers
      <3>2. QED
        BY <2>1, <3>1, LoneFrame DEF Builds
    <2>4. QED
      <3> DEFINE listed == (readers[t].file \in patches)
      <3>1. listed \in BOOLEAN
        OBVIOUS
      <3> HIDE DEF listed
      <3>2. pdef.generated \in BOOLEAN
        BY <1>0 DEF PdefStates
      <3>3. Answers(t, pdef.generated) \/ Answers(t, TRUE) \/ Answers(t, listed) \/ Starts(t)
        BY <1>3 DEF IsReady, listed
      <3>4. QED
        BY <2>2, <2>3, <3>1, <3>2, <3>3
  <1>4. ASSUME NEW t \in FileReaders, BuildStep(t)
        PROVE  LoneBuilds'
    <2>1. OthersStay(t) /\ Builds(readers[t])
      <3>1. CASE Collect(t)
        BY <3>1, CollectFacts DEF Builds
      <3>2. CASE OpenOutput(t)
        BY <1>0, <3>2, ReaderGoes DEF OpenOutput, Builds
      <3>3. CASE WriteOutput(t)
        BY <1>0, <3>3, ReaderGoes DEF WriteOutput, Builds
      <3>4. CASE NoteSize(t)
        BY <3>4, NoteFacts DEF Builds
      <3>5. CASE GivesUp(t)
        BY <3>5, GiveUpFacts DEF Builds
      <3>6. CASE StoreFlag(t)
        BY <1>0, <3>6, ReaderGoes DEF StoreFlag, Builds
      <3>7. QED
        BY <1>4, <3>1, <3>2, <3>3, <3>4, <3>5, <3>6 DEF BuildStep
    <2>2. UNCHANGED reload
      BY <1>4 DEF BuildStep, Collect, OpenOutput, WriteOutput, NoteSize, GivesUp, StoreFlag, servedState
    <2>3. QED
      BY <2>1, <2>2, LoneFrame
  <1>5. ASSUME NEW t \in FileReaders, ModSize(t)
        PROVE  LoneBuilds'
    <2>1. UNCHANGED reload
      BY <1>5 DEF ModSize, servedState
    <2>2. OthersStay(t) /\ readers'[t].at = "ask"
      BY <1>5, SizeFacts, SizeIsNoted, BuildOutputTypes
    <2>3. QED
      BY <2>1, <2>2, LoneFrame DEF Builds
  <1>6. ASSUME NEW t \in FileReaders, ModOpenOrRead(t)
        PROVE  LoneBuilds'
    <2>1. UNCHANGED reload
      BY <1>6 DEF ModOpenOrRead, servedState
    <2>2. QED
      BY <1>6, <2>1, OpenFacts, LoneFrame DEF Builds
  <1>7. ASSUME NEW t \in FileReaders, Rests(t)
        PROVE  LoneBuilds'
    <2>1. UNCHANGED reload
      BY <1>7 DEF Rests, servedState
    <2>2. QED
      BY <1>7, <2>1, RestFacts, LoneFrame DEF Builds
  <1>8. CASE ReloadOverlayServed
    <2>1. ASSUME NEW t \in FileReaders
          PROVE  readers'[t].at = readers[t].at
      <3>1. readers[t] \in ReaderStates /\ readers'[t] = [readers[t] EXCEPT !.quiet = FALSE]
        BY <1>0, <1>8 DEF ReloadOverlayServed
      <3>2. QED
        BY <3>1 DEF ReaderStates
    <2>2. \A t \in FileReaders : ~Building(t, served.file)
      BY <1>0, <1>8 DEF ReloadOverlayServed
    <2>3. \A t \in FileReaders : ~Builds(readers[t])'
      BY <1>a, <2>1, <2>2 DEF Building, Builds
    <2>4. QED
      BY <2>3 DEF LoneBuilds
  <1>9. CASE ResetRuntimePdef \/ EmptyLists \/ ScanPatches \/ ResetParticles
    <2>1. reload # "none" /\ UNCHANGED readers
      BY <1>9 DEF ResetRuntimePdef, EmptyLists, ScanPatches, ResetParticles
    <2>2. \A t \in FileReaders : ~Builds(readers[t])'
      BY <2>1 DEF LoneBuilds, Builds
    <2>3. QED
      BY <2>2 DEF LoneBuilds
  <1>10. QED
    BY <1>1, <1>2, <1>3, <1>4, <1>5, <1>6, <1>7, <1>8, <1>9 DEF ServedNext

\* What no step undoes: a file some build of which met another stays marked.
LEMMA CrossedStays ==
    ASSUME ServedNext
    PROVE  crossed \subseteq crossed'
  BY DEF ServedNext, BuildStep, Ask, ReadFromCache, IsReady, Starts, Collect, OpenOutput, WriteOutput, NoteSize,
         GivesUp, StoreFlag, ModSize, ModOpenOrRead, Rests, ReloadOverlayServed, ResetRuntimePdef, EmptyLists,
         ScanPatches, ResetParticles

-----------------------------------------------------------------------------
(* The particles manifest.                                                 *)

LEMMA ManifestFrame ==
    ASSUME ManifestCurrent, NEW t \in FileReaders, UNCHANGED <<servedOverlay, reload, particles>>,
           disk'["particles"] = disk["particles"], served.failures > 0 => served'.failures > 0, OthersStay(t),
           ManifestUnderWay(readers[t])', readers'[t].quiet => ManifestQuiet(readers[t])'
    PROVE  ManifestCurrent'
  <1>1. \A f : LeftOut(f) => LeftOut(f)'
    BY DEF LeftOut
  <1>2. ManifestMade' <=> ManifestMade
    BY DEF ManifestMade, WholeNow
  <1>3. ASSUME NEW u \in FileReaders, u # t
        PROVE  ManifestUnderWay(readers[u])'
    <2>1. ManifestUnderWay(readers[u]) /\ readers'[u] = readers[u]
      BY <1>3 DEF ManifestCurrent, OthersStay
    <2>2. QED
      BY <1>2, <2>1 DEF ManifestUnderWay, Builds, WholeNow
  <1>4. ASSUME NEW u \in FileReaders, u # t, readers'[u].quiet
        PROVE  ManifestQuiet(readers[u])'
    <2>1. ManifestQuiet(readers[u]) /\ readers'[u] = readers[u]
      BY <1>4 DEF ManifestCurrent, OthersStay
    <2>2. Fits(readers[u]) => Fits(readers[u])'
      BY <1>1, <2>1 DEF Fits, SizeFits
    <2>3. QED
      BY <2>1, <2>2 DEF ManifestQuiet, Builds
  <1>5. QED
    BY <1>2, <1>3, <1>4 DEF ManifestCurrent

\* A step of the reader that builds the manifest.
LEMMA ManifestBuildStep ==
    ASSUME LoneBuilds, ManifestCurrent, NEW t \in FileReaders, UNCHANGED <<servedOverlay, reload, served>>,
           Builds(readers[t]), OthersStay(t), particles'.generated => ManifestMade',
           ManifestUnderWay(readers[t])', readers'[t].quiet => ManifestQuiet(readers[t])'
    PROVE  ManifestCurrent'
  <1>1. /\ reload = "none" /\ ~particles.generated
        /\ \A u \in FileReaders \ {t} : ~Builds(readers[u]) /\ readers'[u] = readers[u]
    BY DEF LoneBuilds, OthersStay, ManifestCurrent, ManifestUnderWay
  <1>2. ASSUME NEW u \in FileReaders, u # t
        PROVE  ManifestUnderWay(readers[u])'
    BY <1>1, <1>2 DEF ManifestUnderWay, Builds
  <1>3. ASSUME NEW u \in FileReaders, u # t, readers'[u].quiet
        PROVE  ManifestQuiet(readers[u])'
    <2>1. ManifestQuiet(readers[u]) /\ readers'[u] = readers[u] /\ ~Builds(readers[u])
      BY <1>1, <1>3 DEF ManifestCurrent
    <2>2. Fits(readers[u]) => Fits(readers[u])'
      BY <2>1 DEF Fits, SizeFits, LeftOut
    <2>3. QED
      BY <1>1, <2>1, <2>2 DEF ManifestQuiet, Builds
  <1>4. QED
    BY <1>1, <1>2, <1>3 DEF ManifestCurrent

LEMMA ManifestStep ==
    ASSUME ServedTypeOK, ServedFacts, LoneBuilds, ManifestCurrent, served.file = "particles",
           served.file \notin crossed', ServedNext
    PROVE  ManifestCurrent'
  <1>0. /\ readers \in [FileReaders -> ReaderStates] /\ "particles" \in GeneratedFiles
        /\ "particles" \notin KeyValueFiles /\ particles \in [generated : BOOLEAN, size : 0..NoBytes]
        /\ disk \in [GeneratedFiles -> Content] /\ servedOverlay \in ModSets
        /\ served \in [file : GeneratedFiles, reads : 0..MaxServedReads, failures : 0..MaxWriteFailures]
    BY ServedFilesAssumption DEF ServedTypeOK, GeneratedFiles
  <1>a. /\ \A t \in FileReaders : readers[t].at # "idle" => readers[t].file = "particles"
        /\ \A t \in FileReaders : readers[t].quiet => readers[t].at # "idle" /\ reload = "none"
    BY DEF ServedFacts
  <1>b. /\ \A t \in FileReaders : readers[t].quiet => ManifestQuiet(readers[t])
        /\ \A t \in FileReaders : ManifestUnderWay(readers[t])
        /\ reload = "none" /\ particles.generated => ManifestMade
        /\ reload = "size" => ~particles.generated
    BY DEF ManifestCurrent
  <1>1. ASSUME NEW t \in FileReaders, NEW f \in GeneratedFiles, NEW how \in {"size", "read"}, Ask(t, f, how)
        PROVE  ManifestCurrent'
    <2>1. served'.failures = served.failures /\ UNCHANGED servedState
      BY <1>0, <1>1 DEF Ask
    <2>2. OthersStay(t) /\ readers'[t].at \in {"cache", "ask"} /\ readers'[t].call # "open"
      BY <1>1, ReaderAsks
    <2>3. ManifestUnderWay(readers[t])' /\ ManifestQuiet(readers[t])'
      BY <2>2 DEF Builds, ManifestUnderWay, ManifestQuiet
    <2>4. QED
      BY <2>1, <2>2, <2>3, ManifestFrame DEF servedState
  <1>2. ASSUME NEW t \in FileReaders, ReadFromCache(t)
        PROVE  ManifestCurrent'
    <2>1. UNCHANGED <<servedState, served>> /\ readers[t].at = "cache"
      BY <1>2 DEF ReadFromCache
    <2>2. readers[t].file = "particles"
      BY <1>a, <2>1
    <2>3. OthersStay(t) /\ readers'[t].at = "ask" /\ SameRead(t)
      BY <1>0, <1>2, <2>2, ReaderGoes DEF ReadFromCache
    <2>4. ManifestUnderWay(readers[t])'
      BY <2>3 DEF Builds, ManifestUnderWay
    <2>5. readers'[t].quiet => ManifestQuiet(readers[t])'
      <3>1. readers[t].quiet => readers[t].call # "open"
        BY <1>b, <2>1 DEF ManifestQuiet
      <3>2. QED
        BY <2>3, <3>1 DEF ManifestQuiet, SameRead, Builds
    <2>6. QED
      BY <2>1, <2>3, <2>4, <2>5, ManifestFrame DEF servedState
  <1>3. ASSUME NEW t \in FileReaders, IsReady(t)
        PROVE  ManifestCurrent'
    <2>1. /\ readers[t].at = "ask" /\ UNCHANGED <<servedOverlay, particles, disk, reload, served>>
          /\ readers[t].file = "particles"
      BY <1>0, <1>3, <1>a DEF IsReady
    <2>2. CASE particles.generated
      <3>1. Answers(t, TRUE)
        BY <1>0, <1>3, <2>1, <2>2 DEF IsReady
      <3>2. OthersStay(t) /\ SameRead(t) /\ SameTold(t) /\ readers'[t].at = "answer" /\ readers'[t].ready = TRUE
        BY <1>0, <3>1, ReaderAnswers
      <3>3. ManifestUnderWay(readers[t])'
        BY <3>2 DEF Builds, ManifestUnderWay
      <3>4. readers'[t].quiet => ManifestQuiet(readers[t])'
        <4>1. readers[t].quiet /\ readers[t].call = "open" => readers[t].told = servedOverlay
          BY <1>b, <2>1 DEF ManifestQuiet
        <4>2. QED
          BY <2>1, <2>2, <3>2, <4>1 DEF ManifestQuiet, SameRead, SameTold, Builds
      <3>5. QED
        BY <2>1, <3>2, <3>3, <3>4, ManifestFrame
    <2>3. CASE ~particles.generated
      <3>1. Starts(t)
        BY <1>0, <1>3, <2>1, <2>3 DEF IsReady
      <3>2. reload = "none" /\ \A u \in FileReaders \ {t} : ~Building(u, "particles")
        BY <2>1, <3>1 DEF Starts
      <3>3. /\ SameRead(t) /\ readers'[t].at = "collect"
            /\ \A u \in FileReaders \ {t} :
                 /\ readers'[u].at = readers[u].at
                 /\ readers'[u].quiet => readers[u].quiet /\ readers[u].file # readers[t].file
        BY <1>0, <3>1, StartFacts
      <3>4. \A u \in FileReaders \ {t} : ~readers'[u].quiet /\ ~Builds(readers[u])'
        BY <1>a, <2>1, <3>2, <3>3 DEF Builds, Building
      <3>5. \A u \in FileReaders : ManifestUnderWay(readers[u])'
        BY <2>1, <2>3, <3>3, <3>4 DEF ManifestUnderWay, Builds
      <3>6. readers'[t].quiet => ManifestQuiet(readers[t])'
        <4>1. readers[t].quiet => readers[t].call # "open"
          BY <1>b, <2>1, <2>3 DEF ManifestQuiet
        <4>2. QED
          BY <3>3, <4>1 DEF ManifestQuiet, SameRead
      <3>7. QED
        BY <2>1, <2>3, <3>4, <3>5, <3>6 DEF ManifestCurrent
    <2>4. QED
      BY <2>2, <2>3
  <1>4. ASSUME NEW t \in FileReaders, Collect(t)
        PROVE  ManifestCurrent'
    <2>1. /\ OthersStay(t) /\ SameRead(t) /\ readers[t].at = "collect" /\ readers'[t].at \in {"open", "unusable"}
          /\ readers'[t].set = servedOverlay
      BY <1>4, CollectFacts
    <2>2. UNCHANGED <<servedState, served>> /\ Builds(readers[t])
      BY <1>4, <2>1 DEF Collect, Builds
    <2>3. ManifestUnderWay(readers[t])'
      BY <1>b, <2>1, <2>2 DEF ManifestUnderWay, servedState
    <2>4. readers'[t].quiet => ManifestQuiet(readers[t])'
      BY <1>b, <2>1, <2>2 DEF ManifestQuiet, SameRead
    <2>5. QED
      BY <2>1, <2>2, <2>3, <2>4, ManifestFrame DEF servedState
  <1>5. ASSUME NEW t \in FileReaders, OpenOutput(t)
        PROVE  ManifestCurrent'
    <2>1. OthersStay(t) /\ SameRead(t) /\ SameSet(t) /\ readers'[t].at = "write" /\ readers[t].at = "open"
      BY <1>0, <1>5, ReaderGoes DEF OpenOutput
    <2>2. UNCHANGED <<servedOverlay, reload, particles, served>> /\ Builds(readers[t])
      BY <1>5, <2>1 DEF OpenOutput, Builds
    <2>3. ManifestUnderWay(readers[t])' /\ ~particles.generated
      BY <1>b, <2>1, <2>2 DEF ManifestUnderWay, SameSet
    <2>4. readers'[t].quiet => ManifestQuiet(readers[t])'
      BY <1>b, <2>1, <2>2 DEF ManifestQuiet, SameRead
    <2>5. QED
      BY <2>1, <2>2, <2>3, <2>4, ManifestBuildStep
  <1>6. ASSUME NEW t \in FileReaders, WriteOutput(t)
        PROVE  ManifestCurrent'
    <2>1. readers[t].at = "write" /\ UNCHANGED <<servedOverlay, reload, particles>>
      BY <1>6 DEF WriteOutput
    <2>2. readers[t].file = "particles" /\ Builds(readers[t]) /\ ~particles.generated
      BY <1>a, <1>b, <2>1 DEF Builds, ManifestUnderWay
    <2>3. CASE Goes(t, "note") /\ disk' = [disk EXCEPT ![readers[t].file] = [set |-> readers[t].set, whole |-> TRUE]]
               /\ UNCHANGED served
      <3>1. OthersStay(t) /\ SameRead(t) /\ SameSet(t) /\ readers'[t].at = "note"
        BY <1>0, <2>3, ReaderGoes
      <3>2. disk'["particles"] = [set |-> readers[t].set, whole |-> TRUE]
        BY <1>0, <2>2, <2>3
      <3>3. ManifestUnderWay(readers[t])'
        BY <1>b, <2>1, <2>2, <3>1, <3>2 DEF ManifestUnderWay, SameSet, WholeNow
      <3>4. readers'[t].quiet => ManifestQuiet(readers[t])'
        BY <1>b, <2>2, <3>1 DEF ManifestQuiet, SameRead
      <3>5. QED
        BY <2>1, <2>2, <2>3, <3>1, <3>3, <3>4, ManifestBuildStep
    <2>4. CASE Goes(t, "unusable") /\ served' = [served EXCEPT !.failures = @ + 1] /\ UNCHANGED disk
      <3>1. OthersStay(t) /\ SameRead(t) /\ readers'[t].at = "unusable"
        BY <1>0, <2>4, ReaderGoes
      <3>2. served'.failures > 0
        BY <1>0, <2>4, ServedFilesAssumption
      <3>3. ManifestUnderWay(readers[t])'
        BY <2>1, <2>2, <3>1 DEF ManifestUnderWay
      <3>4. readers'[t].quiet => ManifestQuiet(readers[t])'
        BY <1>b, <2>2, <3>1 DEF ManifestQuiet, SameRead
      <3>5. QED
        BY <2>1, <2>2, <2>4, <3>1, <3>2, <3>3, <3>4, ManifestFrame
    <2>5. QED
      BY <1>6, <2>3, <2>4 DEF WriteOutput
  <1>7. ASSUME NEW t \in FileReaders, NoteSize(t)
        PROVE  ManifestCurrent'
    <2>1. OthersStay(t) /\ SameRead(t) /\ readers[t].at = "note" /\ readers'[t].at = "flag" /\ readers'[t].ready = TRUE
      BY <1>7, NoteFacts
    <2>2. readers[t].file = "particles" /\ Builds(readers[t]) /\ Builds(readers[t])'
      BY <1>a, <2>1 DEF Builds
    <2>3. particles' = [particles EXCEPT !.size = readers[t].set] /\ UNCHANGED <<servedOverlay, reload, served, disk>>
      BY <1>0, <1>7, <2>2 DEF NoteSize
    <2>4. particles'.size = readers[t].set /\ particles'.generated = particles.generated
      BY <1>0, <2>3
    <2>5. ManifestUnderWay(readers[t])' /\ ~particles'.generated
      BY <1>b, <2>1, <2>2, <2>3, <2>4 DEF ManifestUnderWay, ManifestMade, WholeNow
    <2>6. readers'[t].quiet => ManifestQuiet(readers[t])'
      BY <1>b, <2>1, <2>2 DEF ManifestQuiet, SameRead
    <2>7. QED
      BY <2>1, <2>2, <2>3, <2>5, <2>6, ManifestBuildStep
  <1>8. ASSUME NEW t \in FileReaders, GivesUp(t)
        PROVE  ManifestCurrent'
    <2>1. /\ OthersStay(t) /\ readers'[t].quiet = FALSE
          /\ readers[t].at = "unusable" /\ readers'[t].at = "flag" /\ readers'[t].ready = FALSE
      BY <1>8, GiveUpFacts
    <2>2. Builds(readers[t]) /\ ~particles.generated
      BY <1>b, <2>1 DEF Builds, ManifestUnderWay
    <2>3. UNCHANGED <<servedOverlay, reload, served>> /\ ~particles'.generated
      BY <1>0, <1>8, <2>2 DEF GivesUp
    <2>4. ManifestUnderWay(readers[t])'
      BY <2>1, <2>3 DEF ManifestUnderWay
    <2>5. QED
      BY <2>1, <2>2, <2>3, <2>4, ManifestBuildStep
  <1>9. ASSUME NEW t \in FileReaders, StoreFlag(t)
        PROVE  ManifestCurrent'
    <2>1. OthersStay(t) /\ SameRead(t) /\ SameReady(t) /\ readers'[t].at = "answer" /\ readers[t].at = "flag"
      BY <1>0, <1>9, ReaderGoes DEF StoreFlag
    <2>2. readers[t].file = "particles" /\ Builds(readers[t])
      BY <1>a, <2>1 DEF Builds
    <2>3. particles' = [particles EXCEPT !.generated = readers[t].ready] /\ UNCHANGED <<servedOverlay, reload, served, disk>>
      BY <1>9, <2>2 DEF StoreFlag
    <2>4. particles'.generated = readers[t].ready /\ particles'.size = particles.size
      BY <1>0, <2>3
    <2>5. particles'.generated => ManifestMade'
      BY <1>b, <2>1, <2>3, <2>4 DEF ManifestUnderWay, ManifestMade, WholeNow
    <2>6. ManifestUnderWay(readers[t])'
      BY <2>1 DEF ManifestUnderWay, Builds
    <2>7. readers'[t].quiet => ManifestQuiet(readers[t])'
      <3>1. readers[t].quiet => readers[t].call # "open" /\ readers[t].ready
        BY <1>b, <2>1, <2>2 DEF ManifestQuiet
      <3>2. QED
        BY <2>1, <2>4, <3>1 DEF ManifestQuiet, SameRead, SameReady, Builds
    <2>8. QED
      BY <2>1, <2>2, <2>3, <2>5, <2>6, <2>7, ManifestBuildStep
  <1>10. ASSUME NEW t \in FileReaders, ModSize(t)
         PROVE  ManifestCurrent'
    <2>1. readers[t].at = "answer" /\ UNCHANGED <<servedState, served>>
      BY <1>10 DEF ModSize
    <2>2. readers[t].file = "particles"
      BY <1>a, <2>1
    <2>3. /\ OthersStay(t) /\ readers'[t].quiet = readers[t].quiet /\ readers'[t].at = "ask" /\ readers'[t].call = "open"
          /\ readers'[t].told = IF ToldNow("particles", readers[t].ready) = NoBytes THEN 0
                                ELSE ToldNow("particles", readers[t].ready)
      BY <1>0, <1>10, <2>2, SizeIsNoted, SizeFacts
    <2>4. ManifestUnderWay(readers[t])'
      BY <2>3 DEF Builds, ManifestUnderWay
    <2>5. readers'[t].quiet => ManifestQuiet(readers[t])'
      <3>1. readers[t].quiet => readers[t].ready /\ particles.generated /\ reload = "none"
        BY <1>a, <1>b, <2>1 DEF ManifestQuiet
      <3>2. readers[t].quiet => ToldNow("particles", readers[t].ready) = servedOverlay
        BY <1>b, <3>1 DEF ToldNow, SizeNoted, ManifestMade
      <3>3. servedOverlay # NoBytes
        BY <1>0, ServedFilesAssumption DEF NoBytes
      <3>4. UNCHANGED <<particles, servedOverlay>>
        BY <2>1 DEF servedState
      <3>5. QED
        BY <2>3, <3>1, <3>2, <3>3, <3>4 DEF ManifestQuiet, Builds
    <2>6. QED
      BY <2>1, <2>3, <2>4, <2>5, ManifestFrame DEF servedState
  <1>11. ASSUME NEW t \in FileReaders, ModOpenOrRead(t)
         PROVE  ManifestCurrent'
    <2>1. /\ OthersStay(t) /\ SameRead(t) /\ SameTold(t)
          /\ readers[t].at = "answer" /\ readers[t].call # "size" /\ readers'[t].at = "done"
          /\ readers'[t].got = GivenNow(readers[t].file, readers[t].call, readers[t].ready)
      BY <1>11, OpenFacts
    <2>2. UNCHANGED <<servedState, served>> /\ readers[t].file = "particles"
      BY <1>11, <1>a, <2>1 DEF ModOpenOrRead
    <2>3. ManifestUnderWay(readers[t])'
      BY <2>1 DEF Builds, ManifestUnderWay
    <2>4. readers'[t].quiet => ManifestQuiet(readers[t])'
      <3>1. SUFFICES ASSUME readers[t].quiet, readers[t].call = "open"
                     PROVE  Fits(readers[t])'
        BY <2>1 DEF ManifestQuiet, SameRead, Builds
      <3>2. readers[t].ready /\ particles.generated /\ reload = "none" /\ readers[t].told = servedOverlay
        BY <1>a, <1>b, <2>1, <3>1 DEF ManifestQuiet
      <3>3. readers'[t].got = WholeNow /\ readers'[t].told = servedOverlay
        BY <1>0, <1>b, <2>1, <2>2, <3>1, <3>2 DEF GivenNow, ManifestMade, SameTold
      <3>4. QED
        BY <2>2, <3>3 DEF Fits, SizeFits, WholeNow, servedState
    <2>5. QED
      BY <2>1, <2>2, <2>3, <2>4, ManifestFrame DEF servedState
  <1>12. ASSUME NEW t \in FileReaders, Rests(t)
         PROVE  ManifestCurrent'
    <2>1. OthersStay(t) /\ readers'[t].at = "idle" /\ readers'[t].quiet = FALSE
      BY <1>12, RestFacts
    <2>2. ManifestUnderWay(readers[t])'
      BY <2>1 DEF Builds, ManifestUnderWay
    <2>3. UNCHANGED <<servedState, served>>
      BY <1>12 DEF Rests
    <2>4. QED
      BY <2>1, <2>2, <2>3, ManifestFrame DEF servedState
  <1>13. CASE ReloadOverlayServed
    <2>1. ASSUME NEW t \in FileReaders
          PROVE  readers'[t].at = readers[t].at /\ readers'[t].quiet = FALSE
      <3>1. readers[t] \in ReaderStates /\ readers'[t] = [readers[t] EXCEPT !.quiet = FALSE]
        BY <1>0, <1>13 DEF ReloadOverlayServed
      <3>2. QED
        BY <3>1 DEF ReaderStates
    <2>2. reload' = "pdef"
      BY <1>13 DEF ReloadOverlayServed
    <2>3. \A t \in FileReaders : ~Builds(readers[t])'
      BY LoneBuildsStep, <2>2 DEF LoneBuilds
    <2>4. \A t \in FileReaders : ManifestUnderWay(readers[t])'
      BY <2>3 DEF ManifestUnderWay, Builds
    <2>5. QED
      BY <2>1, <2>2, <2>4 DEF ManifestCurrent
  <1>14. CASE ResetRuntimePdef \/ EmptyLists \/ ScanPatches \/ ResetParticles
    <2>1. /\ reload \in {"pdef", "keyvalues", "scan", "particles", "size"}
          /\ UNCHANGED <<servedOverlay, readers>>
      BY <1>14 DEF ResetRuntimePdef, EmptyLists, ScanPatches, ResetParticles
    <2>2. \A t \in FileReaders : ~readers'[t].quiet
      BY <1>a, <2>1
    <2>3. \A t \in FileReaders : ~Builds(readers[t])'
      BY <2>1 DEF LoneBuilds, Builds
    <2>4. \A t \in FileReaders : ManifestUnderWay(readers[t])'
      BY <2>3 DEF ManifestUnderWay, Builds
    <2>5. reload' \in {"size", "none"} => ~particles'.generated
      BY <1>0, <1>14, <1>b DEF ResetRuntimePdef, EmptyLists, ScanPatches, ResetParticles
    <2>6. QED
      BY <2>2, <2>4, <2>5 DEF ManifestCurrent
  <1>15. QED
    BY <1>1, <1>2, <1>3, <1>4, <1>5, <1>6, <1>7, <1>8, <1>9, <1>10, <1>11, <1>12, <1>13, <1>14
       DEF ServedNext, BuildStep

-----------------------------------------------------------------------------
(* The patched files.                                                      *)

LEMMA PatchFrame ==
    ASSUME NEW f, PatchCurrent(f), NEW t \in FileReaders, UNCHANGED <<servedOverlay, reload, patches, built>>,
           disk'[f] = disk[f], served.failures > 0 => served'.failures > 0, OthersStay(t),
           PatchUnderWay(f, readers[t])', readers'[t].quiet => PatchQuiet(f, readers[t])'
    PROVE  PatchCurrent(f)'
  <1>1. \A g : LeftOut(g) => LeftOut(g)'
    BY DEF LeftOut
  <1>2. ListedAs(f)' = ListedAs(f) /\ (Listed(f)' <=> Listed(f))
    BY DEF ListedAs, Listed
  <1>3. PatchMade(f)' <=> PatchMade(f)
    BY <1>2 DEF PatchMade, WholeNow
  <1>4. ASSUME NEW u \in FileReaders, u # t
        PROVE  PatchUnderWay(f, readers[u])'
    <2>1. PatchUnderWay(f, readers[u]) /\ readers'[u] = readers[u]
      BY <1>4 DEF PatchCurrent, OthersStay
    <2>2. QED
      BY <1>2, <2>1 DEF PatchUnderWay, Builds, WholeNow
  <1>5. ASSUME NEW u \in FileReaders, u # t, readers'[u].quiet
        PROVE  PatchQuiet(f, readers[u])'
    <2>1. PatchQuiet(f, readers[u]) /\ readers'[u] = readers[u]
      BY <1>5 DEF PatchCurrent, OthersStay
    <2>2. Fits(readers[u]) => Fits(readers[u])'
      BY <1>1, <2>1 DEF Fits, SizeFits
    <2>3. QED
      BY <1>2, <2>1, <2>2 DEF PatchQuiet, Builds
  <1>6. QED
    BY <1>2, <1>3, <1>4, <1>5 DEF PatchCurrent

\* A step of the reader that builds the file, which is not listed yet.
LEMMA PatchBuildStep ==
    ASSUME NEW f, LoneBuilds, PatchCurrent(f), NEW t \in FileReaders,
           UNCHANGED <<servedOverlay, reload, patches, served>>,
           Builds(readers[t]), readers[t].at # "flag", OthersStay(t),
           \A i, j \in ListedAs(f)' : i = j, Listed(f)' => PatchMade(f)',
           PatchUnderWay(f, readers[t])', readers'[t].quiet => PatchQuiet(f, readers[t])'
    PROVE  PatchCurrent(f)'
  <1>1. /\ reload = "none" /\ ~Listed(f)
        /\ \A u \in FileReaders \ {t} : ~Builds(readers[u]) /\ readers'[u] = readers[u]
    BY DEF LoneBuilds, OthersStay, PatchCurrent, PatchUnderWay
  <1>2. ASSUME NEW u \in FileReaders, u # t
        PROVE  PatchUnderWay(f, readers[u])'
    BY <1>1, <1>2 DEF PatchUnderWay, Builds
  <1>3. ASSUME NEW u \in FileReaders, u # t, readers'[u].quiet
        PROVE  PatchQuiet(f, readers[u])'
    <2>1. PatchQuiet(f, readers[u]) /\ readers'[u] = readers[u] /\ ~Builds(readers[u])
      BY <1>1, <1>3 DEF PatchCurrent
    <2>2. Fits(readers[u]) => Fits(readers[u])'
      BY <2>1 DEF Fits, SizeFits, LeftOut
    <2>3. QED
      BY <1>1, <2>1, <2>2 DEF PatchQuiet, Builds
  <1>4. QED
    BY <1>1, <1>2, <1>3 DEF PatchCurrent

LEMMA PatchStep ==
    ASSUME ServedTypeOK, ServedFacts, LoneBuilds, NEW f \in KeyValueFiles, PatchCurrent(f), served.file = f,
           served.file \notin crossed', ServedNext
    PROVE  PatchCurrent(f)'
  <1>0. /\ readers \in [FileReaders -> ReaderStates] /\ f \in GeneratedFiles /\ f # "pdef" /\ f # "particles"
        /\ disk \in [GeneratedFiles -> Content] /\ servedOverlay \in ModSets
        /\ served \in [file : GeneratedFiles, reads : 0..MaxServedReads, failures : 0..MaxWriteFailures]
    BY ServedFilesAssumption DEF ServedTypeOK, GeneratedFiles
  <1>a. /\ \A t \in FileReaders : readers[t].at # "idle" => readers[t].file = f
        /\ \A t \in FileReaders : readers[t].quiet => readers[t].at # "idle" /\ reload = "none"
        /\ reload = "none" => patches = Patched[servedOverlay]
    BY DEF ServedFacts
  <1>b. /\ \A t \in FileReaders : readers[t].quiet => PatchQuiet(f, readers[t])
        /\ \A t \in FileReaders : PatchUnderWay(f, readers[t])
        /\ reload = "none" /\ Listed(f) => PatchMade(f)
        /\ reload \in {"scan", "particles", "size"} => ~Listed(f)
        /\ \A i, j \in ListedAs(f) : i = j
    BY DEF PatchCurrent
  <1>1. ASSUME NEW t \in FileReaders, NEW g \in GeneratedFiles, NEW how \in {"size", "read"}, Ask(t, g, how)
        PROVE  PatchCurrent(f)'
    <2>1. served'.failures = served.failures /\ UNCHANGED servedState
      BY <1>0, <1>1 DEF Ask
    <2>2. OthersStay(t) /\ readers'[t].at \in {"cache", "ask"} /\ readers'[t].call # "open"
      BY <1>1, ReaderAsks
    <2>3. PatchUnderWay(f, readers[t])' /\ PatchQuiet(f, readers[t])'
      BY <2>2 DEF Builds, PatchUnderWay, PatchQuiet
    <2>4. QED
      BY <2>1, <2>2, <2>3, PatchFrame DEF servedState
  <1>2. ASSUME NEW t \in FileReaders, ReadFromCache(t)
        PROVE  PatchCurrent(f)'
    <2>1. UNCHANGED <<servedState, served>> /\ readers[t].at = "cache"
      BY <1>2 DEF ReadFromCache
    <2>2. OthersStay(t) /\ readers'[t].at \in {"ask", "done"} /\ SameRead(t)
      BY <1>2, CacheFacts
    <2>3. PatchUnderWay(f, readers[t])'
      BY <2>2 DEF Builds, PatchUnderWay
    <2>4. readers'[t].quiet => PatchQuiet(f, readers[t])'
      <3>1. readers[t].quiet => readers[t].call # "open"
        BY <1>b, <2>1 DEF PatchQuiet
      <3>2. QED
        BY <2>2, <3>1 DEF PatchQuiet, SameRead, Builds
    <2>5. QED
      BY <2>1, <2>2, <2>3, <2>4, PatchFrame DEF servedState
  <1>3. ASSUME NEW t \in FileReaders, IsReady(t)
        PROVE  PatchCurrent(f)'
    <2>1. /\ readers[t].at = "ask" /\ UNCHANGED <<servedOverlay, patches, built, disk, reload, served>>
          /\ readers[t].file = f
      BY <1>0, <1>3, <1>a DEF IsReady
    <2>2. CASE f \notin patches \/ Listed(f) \/ readers[t].call = "read"
      <3> DEFINE listed == (f \in patches)
      <3>1. listed \in BOOLEAN
        OBVIOUS
      <3>2. Answers(t, listed)
        BY <1>0, <1>3, <2>1, <2>2 DEF IsReady, Listed
      <3>3. readers'[t].ready <=> f \in patches
        <4> HIDE DEF listed
        <4>1. readers'[t].ready = listed
          BY <1>0, <3>1, <3>2, ReaderAnswers
        <4>2. QED
          BY <4>1 DEF listed
      <3>4. readers'[t].ready = (f \in patches)
        <4> HIDE DEF listed
        <4>1. readers'[t].ready = listed
          BY <1>0, <3>1, <3>2, ReaderAnswers
        <4>2. QED
          BY <4>1 DEF listed
      <3> HIDE DEF listed
      <3>5. OthersStay(t) /\ SameRead(t) /\ SameTold(t) /\ readers'[t].at = "answer"
        BY <1>0, <3>1, <3>2, ReaderAnswers
      <3>6. PatchUnderWay(f, readers[t])'
        BY <3>5 DEF Builds, PatchUnderWay
      <3>7. readers'[t].quiet => PatchQuiet(f, readers[t])'
        <4>1. readers[t].quiet /\ readers[t].call = "open" =>
                /\ f \in patches => readers[t].told = servedOverlay
                /\ f \notin patches => readers[t].told = 0
          BY <1>b, <2>1 DEF PatchQuiet
        <4>2. Listed(f)' <=> Listed(f)
          BY <2>1 DEF Listed, ListedAs
        <4>3. QED
          BY <2>1, <2>2, <3>4, <3>5, <4>1, <4>2 DEF PatchQuiet, SameRead, SameTold, Builds
      <3>8. QED
        BY <2>1, <3>5, <3>6, <3>7, PatchFrame
    <2>3. CASE f \in patches /\ ~Listed(f) /\ readers[t].call # "read"
      <3>1. Starts(t)
        BY <1>0, <1>3, <2>1, <2>3 DEF IsReady, Listed
      <3>2. reload = "none" /\ \A u \in FileReaders \ {t} : ~Building(u, f)
        BY <2>1, <3>1 DEF Starts
      <3>3. /\ SameRead(t) /\ readers'[t].at = "collect"
            /\ \A u \in FileReaders \ {t} :
                 /\ readers'[u].at = readers[u].at
                 /\ readers'[u].quiet => readers[u].quiet /\ readers[u].file # readers[t].file
        BY <1>0, <3>1, StartFacts
      <3>4. \A u \in FileReaders \ {t} : ~readers'[u].quiet /\ ~Builds(readers[u])'
        BY <1>a, <2>1, <3>2, <3>3 DEF Builds, Building
      <3>5. ListedAs(f)' = ListedAs(f) /\ ~Listed(f)'
        BY <2>1, <2>3 DEF Listed, ListedAs
      <3>6. \A u \in FileReaders : PatchUnderWay(f, readers[u])'
        BY <3>3, <3>4, <3>5 DEF PatchUnderWay, Builds
      <3>7. readers'[t].quiet => PatchQuiet(f, readers[t])'
        <4>1. readers[t].quiet => readers[t].call # "open"
          BY <1>b, <2>1, <2>3 DEF PatchQuiet
        <4>2. QED
          BY <2>1, <2>3, <3>3, <4>1 DEF PatchQuiet, SameRead
      <3>8. QED
        BY <1>b, <3>4, <3>5, <3>6, <3>7 DEF PatchCurrent
    <2>4. QED
      BY <2>2, <2>3
  <1>4. ASSUME NEW t \in FileReaders, Collect(t)
        PROVE  PatchCurrent(f)'
    <2>1. /\ OthersStay(t) /\ SameRead(t) /\ readers[t].at = "collect" /\ readers'[t].at \in {"open", "unusable"}
          /\ readers'[t].set = servedOverlay
      BY <1>4, CollectFacts
    <2>2. UNCHANGED <<servedState, served>> /\ Builds(readers[t])
      BY <1>4, <2>1 DEF Collect, Builds
    <2>3. PatchUnderWay(f, readers[t])'
      BY <1>b, <2>1, <2>2 DEF PatchUnderWay, servedState, Listed, ListedAs
    <2>4. readers'[t].quiet => PatchQuiet(f, readers[t])'
      BY <1>b, <2>1, <2>2 DEF PatchQuiet, SameRead, servedState
    <2>5. QED
      BY <2>1, <2>2, <2>3, <2>4, PatchFrame DEF servedState
  <1>5. ASSUME NEW t \in FileReaders, OpenOutput(t)
        PROVE  PatchCurrent(f)'
    <2>1. OthersStay(t) /\ SameRead(t) /\ SameSet(t) /\ readers'[t].at = "write" /\ readers[t].at = "open"
      BY <1>0, <1>5, ReaderGoes DEF OpenOutput
    <2>2. UNCHANGED <<servedOverlay, reload, patches, built, served>> /\ Builds(readers[t])
      BY <1>5, <2>1 DEF OpenOutput, Builds
    <2>3. ListedAs(f)' = ListedAs(f) /\ ~Listed(f)'
      BY <1>b, <2>1, <2>2 DEF PatchUnderWay, Listed, ListedAs
    <2>4. PatchUnderWay(f, readers[t])'
      BY <1>b, <2>1, <2>2, <2>3 DEF PatchUnderWay, SameSet
    <2>5. readers'[t].quiet => PatchQuiet(f, readers[t])'
      BY <1>b, <2>1, <2>2 DEF PatchQuiet, SameRead
    <2>6. QED
      BY <1>b, <2>1, <2>2, <2>3, <2>4, <2>5, PatchBuildStep
  <1>6. ASSUME NEW t \in FileReaders, WriteOutput(t)
        PROVE  PatchCurrent(f)'
    <2>1. readers[t].at = "write" /\ UNCHANGED <<servedOverlay, reload, patches, built>>
      BY <1>6 DEF WriteOutput
    <2>2. readers[t].file = f /\ Builds(readers[t])
      BY <1>a, <2>1 DEF Builds
    <2>3. ListedAs(f)' = ListedAs(f) /\ ~Listed(f)'
      BY <1>b, <2>1, <2>2 DEF PatchUnderWay, Listed, ListedAs
    <2>4. CASE Goes(t, "note") /\ disk' = [disk EXCEPT ![readers[t].file] = [set |-> readers[t].set, whole |-> TRUE]]
               /\ UNCHANGED served
      <3>1. OthersStay(t) /\ SameRead(t) /\ SameSet(t) /\ readers'[t].at = "note"
        BY <1>0, <2>4, ReaderGoes
      <3>2. disk'[f] = [set |-> readers[t].set, whole |-> TRUE]
        BY <1>0, <2>2, <2>4
      <3>3. PatchUnderWay(f, readers[t])'
        BY <1>b, <2>1, <2>3, <3>1, <3>2 DEF PatchUnderWay, SameSet, WholeNow
      <3>4. readers'[t].quiet => PatchQuiet(f, readers[t])'
        BY <1>b, <2>1, <2>2, <3>1 DEF PatchQuiet, SameRead
      <3>5. QED
        BY <1>b, <2>1, <2>2, <2>3, <2>4, <3>1, <3>3, <3>4, PatchBuildStep
    <2>5. CASE Goes(t, "unusable") /\ served' = [served EXCEPT !.failures = @ + 1] /\ UNCHANGED disk
      <3>1. OthersStay(t) /\ SameRead(t) /\ readers'[t].at = "unusable"
        BY <1>0, <2>5, ReaderGoes
      <3>2. served'.failures > 0
        BY <1>0, <2>5, ServedFilesAssumption
      <3>3. PatchUnderWay(f, readers[t])'
        BY <2>3, <3>1 DEF PatchUnderWay
      <3>4. readers'[t].quiet => PatchQuiet(f, readers[t])'
        BY <1>b, <2>1, <2>2, <3>1 DEF PatchQuiet, SameRead
      <3>5. QED
        BY <2>1, <2>2, <2>5, <3>1, <3>2, <3>3, <3>4, PatchFrame
    <2>6. QED
      BY <1>6, <2>4, <2>5 DEF WriteOutput
  <1>7. ASSUME NEW t \in FileReaders, NoteSize(t)
        PROVE  PatchCurrent(f)'
    <2>1. OthersStay(t) /\ SameRead(t) /\ readers[t].at = "note" /\ readers'[t].at = "flag" /\ readers'[t].ready = TRUE
      BY <1>7, NoteFacts
    <2>2. readers[t].file = f /\ Builds(readers[t]) /\ readers[t].at # "flag"
      BY <1>a, <2>1 DEF Builds
    <2>3. /\ built' = Append(built, [file |-> f, size |-> readers[t].set])
          /\ UNCHANGED <<servedOverlay, reload, patches, served, disk>>
      BY <1>0, <1>7, <2>2 DEF NoteSize
    <2>4. readers[t].set = servedOverlay /\ disk[f] = WholeNow /\ ListedAs(f) = {}
      BY <1>b, <2>1, <2>2 DEF PatchUnderWay, Listed
    <2>5. ListedAs(f)' = {Len(built) + 1} /\ built'[Len(built) + 1].size = servedOverlay
      <3>1. PICK e : e = [file |-> f, size |-> readers[t].set]
        OBVIOUS
      <3>2. built \in Seq([file : KeyValueFiles, size : 0..NoBytes])
        BY DEF ServedTypeOK
      <3>3. /\ DOMAIN built' = 1..(Len(built) + 1) /\ built'[Len(built) + 1] = e
            /\ \A i \in 1..Len(built) : built'[i] = built[i]
        BY <2>3, <3>1, <3>2, AppendProperties
      <3>4. Len(built) \in Nat /\ DOMAIN built = 1..Len(built)
        BY <3>2
      <3>5. e.file = f /\ e.size = servedOverlay
        BY <2>4, <3>1
      <3>6. \A i \in 1..Len(built) : built'[i].file # f
        BY <2>4, <3>3, <3>4 DEF ListedAs
      <3>7. \A i \in 1..(Len(built) + 1) : i \in 1..Len(built) \/ i = Len(built) + 1
        BY <3>4
      <3>8. QED
        BY <3>3, <3>4, <3>5, <3>6, <3>7 DEF ListedAs
    <2>6. Listed(f)' /\ PatchMade(f)'
      BY <2>3, <2>4, <2>5 DEF Listed, PatchMade, WholeNow
    <2>7. PatchUnderWay(f, readers[t])'
      BY <2>1, <2>6 DEF PatchUnderWay
    <2>8. readers'[t].quiet => PatchQuiet(f, readers[t])'
      BY <1>b, <2>1, <2>2, <2>3 DEF PatchQuiet, SameRead
    <2>9. QED
      BY <2>1, <2>2, <2>3, <2>5, <2>6, <2>7, <2>8, PatchBuildStep
  <1>8. ASSUME NEW t \in FileReaders, GivesUp(t)
        PROVE  PatchCurrent(f)'
    <2>1. /\ OthersStay(t) /\ readers'[t].quiet = FALSE
          /\ readers[t].at = "unusable" /\ readers'[t].at = "flag" /\ readers'[t].ready = FALSE
      BY <1>8, GiveUpFacts
    <2>2. UNCHANGED <<servedOverlay, reload, patches, built, disk, served>>
      BY <1>8 DEF GivesUp
    <2>3. PatchUnderWay(f, readers[t])'
      BY <2>1 DEF PatchUnderWay
    <2>4. QED
      BY <2>1, <2>2, <2>3, PatchFrame
  <1>9. ASSUME NEW t \in FileReaders, StoreFlag(t)
        PROVE  PatchCurrent(f)'
    <2>1. OthersStay(t) /\ SameRead(t) /\ SameReady(t) /\ readers'[t].at = "answer" /\ readers[t].at = "flag"
      BY <1>0, <1>9, ReaderGoes DEF StoreFlag
    <2>2. UNCHANGED <<servedOverlay, reload, patches, built, disk, served>> /\ Builds(readers[t])
      BY <1>9, <2>1 DEF StoreFlag, Builds
    <2>3. PatchUnderWay(f, readers[t])'
      BY <2>1 DEF PatchUnderWay, Builds
    <2>4. readers'[t].quiet => PatchQuiet(f, readers[t])'
      <3>1. readers[t].quiet => readers[t].call # "open" /\ readers[t].ready /\ f \in patches
        BY <1>b, <2>1, <2>2 DEF PatchQuiet
      <3>2. readers[t].ready \in BOOLEAN
        <4>1. readers[t] \in ReaderStates
          BY <1>0
        <4>2. QED
          BY <4>1 DEF ReaderStates
      <3>3. readers[t].ready => Listed(f) /\ Listed(f)'
        BY <1>b, <2>1, <2>2 DEF PatchUnderWay, Listed, ListedAs
      <3>4. readers[t].quiet => readers'[t].ready = (f \in patches)
        BY <2>1, <3>1, <3>2 DEF SameReady
      <3>5. QED
        BY <2>1, <2>2, <3>1, <3>3, <3>4 DEF PatchQuiet, SameRead, Builds
    <2>5. QED
      BY <2>1, <2>2, <2>3, <2>4, PatchFrame
  <1>10. ASSUME NEW t \in FileReaders, ModSize(t)
         PROVE  PatchCurrent(f)'
    <2>1. readers[t].at = "answer" /\ readers[t].call = "size" /\ UNCHANGED <<servedState, served>>
      BY <1>10 DEF ModSize
    <2>2. readers[t].file = f
      BY <1>a, <2>1
    <2>3. /\ OthersStay(t) /\ readers'[t].quiet = readers[t].quiet /\ readers'[t].at = "ask" /\ readers'[t].call = "open"
          /\ readers'[t].told = IF ToldNow(f, readers[t].ready) = NoBytes THEN 0
                                ELSE ToldNow(f, readers[t].ready)
      BY <1>0, <1>10, <2>2, SizeIsNoted, SizeFacts
    <2>4. PatchUnderWay(f, readers[t])'
      BY <2>3 DEF Builds, PatchUnderWay
    <2>5. readers'[t].quiet => PatchQuiet(f, readers[t])'
      <3>1. SUFFICES ASSUME readers[t].quiet
                     PROVE  PatchQuiet(f, readers[t])'
        BY <2>3
      <3>2. reload = "none" /\ readers[t].ready = (f \in patches) /\ (f \in patches => Listed(f))
        BY <1>a, <1>b, <2>1, <3>1 DEF PatchQuiet
      <3>3. f \in patches => SizeNoted(f) = servedOverlay
        <4>1. SUFFICES ASSUME f \in patches
                       PROVE  SizeNoted(f) = servedOverlay
          OBVIOUS
        <4>2. ListedAs(f) # {} /\ PatchMade(f)
          BY <1>b, <3>2, <4>1 DEF Listed
        <4>3. ListedAs(f) \subseteq Nat
          <5>1. built \in Seq([file : KeyValueFiles, size : 0..NoBytes])
            BY DEF ServedTypeOK
          <5>2. DOMAIN built = 1..Len(built) /\ Len(built) \in Nat
            BY <5>1
          <5>3. QED
            BY <5>2 DEF ListedAs
        <4>4. (CHOOSE i \in ListedAs(f) : \A j \in ListedAs(f) : i <= j) \in ListedAs(f)
          BY <4>2, <4>3, LeastOfMany
        <4>5. QED
          BY <1>0, <4>2, <4>4 DEF SizeNoted, PatchMade
      <3>4. servedOverlay # NoBytes
        BY <1>0, ServedFilesAssumption DEF NoBytes
      <3>5. readers'[t].told = IF f \in patches THEN servedOverlay ELSE 0
        BY <2>3, <3>2, <3>3, <3>4 DEF ToldNow
      <3>6. UNCHANGED <<patches, servedOverlay>> /\ (Listed(f) => Listed(f)')
        BY <2>1 DEF servedState, Listed, ListedAs
      <3>7. QED
        BY <2>3, <3>2, <3>5, <3>6 DEF PatchQuiet, Builds
    <2>6. QED
      BY <2>1, <2>3, <2>4, <2>5, PatchFrame DEF servedState
  <1>11. ASSUME NEW t \in FileReaders, ModOpenOrRead(t)
         PROVE  PatchCurrent(f)'
    <2>1. /\ OthersStay(t) /\ SameRead(t) /\ SameTold(t)
          /\ readers[t].at = "answer" /\ readers[t].call # "size" /\ readers'[t].at = "done"
          /\ readers'[t].got = GivenNow(readers[t].file, readers[t].call, readers[t].ready)
      BY <1>11, OpenFacts
    <2>2. UNCHANGED <<servedState, served>> /\ readers[t].file = f
      BY <1>11, <1>a, <2>1 DEF ModOpenOrRead
    <2>3. PatchUnderWay(f, readers[t])'
      BY <2>1 DEF Builds, PatchUnderWay
    <2>4. readers'[t].quiet => PatchQuiet(f, readers[t])'
      <3>1. SUFFICES ASSUME readers[t].quiet, readers[t].call = "open"
                     PROVE  Fits(readers[t])'
        BY <2>1 DEF PatchQuiet, SameRead, Builds
      <3>2. /\ reload = "none" /\ readers[t].ready = (f \in patches)
            /\ f \in patches => Listed(f) /\ readers[t].told = servedOverlay
            /\ f \notin patches => readers[t].told = 0
        BY <1>a, <1>b, <2>1, <3>1 DEF PatchQuiet
      <3>3. CASE f \in patches
        <4>1. readers'[t].got = WholeNow /\ readers'[t].told = servedOverlay
          BY <1>b, <2>1, <2>2, <3>1, <3>2, <3>3 DEF GivenNow, PatchMade, SameTold
        <4>2. QED
          BY <2>2, <4>1 DEF Fits, SizeFits, WholeNow, servedState
      <3>4. CASE f \notin patches
        <4>1. readers'[t].got = Stock /\ readers'[t].told = 0
          BY <1>0, <2>1, <2>2, <3>2, <3>4 DEF GivenNow, SameTold
        <4>2. readers'[t].file = f /\ f \notin Patched[servedOverlay]
          BY <1>a, <2>1, <2>2, <3>2, <3>4 DEF SameRead
        <4>3. LeftOut(readers[t].file)'
          BY <2>2, <4>2 DEF LeftOut, servedState
        <4>4. QED
          BY <4>1, <4>3 DEF Fits, SizeFits, Stock
      <3>5. QED
        BY <3>3, <3>4
    <2>5. QED
      BY <2>1, <2>2, <2>3, <2>4, PatchFrame DEF servedState
  <1>12. ASSUME NEW t \in FileReaders, Rests(t)
         PROVE  PatchCurrent(f)'
    <2>1. OthersStay(t) /\ readers'[t].at = "idle" /\ readers'[t].quiet = FALSE
      BY <1>12, RestFacts
    <2>2. PatchUnderWay(f, readers[t])'
      BY <2>1 DEF Builds, PatchUnderWay
    <2>3. UNCHANGED <<servedState, served>>
      BY <1>12 DEF Rests
    <2>4. QED
      BY <2>1, <2>2, <2>3, PatchFrame DEF servedState
  <1>13. CASE ReloadOverlayServed
    <2>1. ASSUME NEW t \in FileReaders
          PROVE  readers'[t].at = readers[t].at /\ readers'[t].quiet = FALSE
      <3>1. readers[t] \in ReaderStates /\ readers'[t] = [readers[t] EXCEPT !.quiet = FALSE]
        BY <1>0, <1>13 DEF ReloadOverlayServed
      <3>2. QED
        BY <3>1 DEF ReaderStates
    <2>2. reload' = "pdef" /\ UNCHANGED built
      BY <1>13 DEF ReloadOverlayServed
    <2>3. \A t \in FileReaders : ~Builds(readers[t])'
      BY LoneBuildsStep, <2>2 DEF LoneBuilds
    <2>4. \A t \in FileReaders : PatchUnderWay(f, readers[t])'
      BY <2>3 DEF PatchUnderWay, Builds
    <2>5. ListedAs(f)' = ListedAs(f)
      BY <2>2 DEF ListedAs
    <2>6. QED
      BY <1>b, <2>1, <2>2, <2>4, <2>5 DEF PatchCurrent
  <1>14. CASE ResetRuntimePdef \/ EmptyLists \/ ScanPatches \/ ResetParticles
    <2>1. /\ reload \in {"pdef", "keyvalues", "scan", "particles", "size"}
          /\ UNCHANGED <<servedOverlay, readers>>
      BY <1>14 DEF ResetRuntimePdef, EmptyLists, ScanPatches, ResetParticles
    <2>2. \A t \in FileReaders : ~readers'[t].quiet
      BY <1>a, <2>1
    <2>3. \A t \in FileReaders : ~Builds(readers[t])'
      BY <2>1 DEF LoneBuilds, Builds
    <2>4. \A t \in FileReaders : PatchUnderWay(f, readers[t])'
      BY <2>3 DEF PatchUnderWay, Builds
    <2>5. /\ \A i, j \in ListedAs(f)' : i = j
          /\ reload' \in {"scan", "particles", "size", "none"} => ~Listed(f)'
      <3>1. CASE EmptyLists
        BY <3>1 DEF EmptyLists, ForgetsBuilt, Listed, ListedAs
      <3>2. CASE UNCHANGED built /\ (reload' = "keyvalues" \/ reload \in {"scan", "particles", "size"})
        <4>1. ListedAs(f)' = ListedAs(f)
          BY <3>2 DEF ListedAs
        <4>2. QED
          BY <1>b, <3>2, <4>1 DEF Listed
      <3>3. QED
        BY <1>14, <3>1, <3>2 DEF ResetRuntimePdef, ScanPatches, ResetParticles
    <2>6. QED
      BY <2>2, <2>4, <2>5 DEF PatchCurrent
  <1>15. QED
    BY <1>1, <1>2, <1>3, <1>4, <1>5, <1>6, <1>7, <1>8, <1>9, <1>10, <1>11, <1>12, <1>13, <1>14
       DEF ServedNext, BuildStep

-----------------------------------------------------------------------------
(* Together.                                                               *)

LEMMA ServedInvStep ==
    ASSUME ServedInv, ServedNext
    PROVE  ServedInv'
  <1>1. ServedTypeOK' /\ ServedFacts' /\ crossed \subseteq crossed'
    BY ServedTypeStep, ServedFactsStep, CrossedStays DEF ServedInv
  <1>2. served'.file = served.file
    <2>1. served \in [file : GeneratedFiles, reads : 0..MaxServedReads, failures : 0..MaxWriteFailures]
      BY DEF ServedInv, ServedTypeOK
    <2>2. served' = served \/ served' = [served EXCEPT !.reads = @ + 1] \/ served' = [served EXCEPT !.failures = @ + 1]
      BY DEF ServedNext, BuildStep, Ask, ReadFromCache, IsReady, Collect, OpenOutput, WriteOutput, NoteSize, GivesUp,
             StoreFlag, ModSize, ModOpenOrRead, Rests, ReloadOverlayServed, ResetRuntimePdef, EmptyLists, ScanPatches,
             ResetParticles
    <2>3. QED
      BY <2>1, <2>2
  <1>3. PdefSound'
    <2>1. served.file = "pdef" => PdefParts'
      BY PdefStep DEF ServedInv, PdefSound, PdefParts
    <2>2. QED
      BY <1>2, <2>1 DEF PdefSound, PdefParts
  <1>4. ManifestSound'
    <2>1. served.file = "particles" /\ served.file \notin crossed' => LoneBuilds' /\ ManifestCurrent'
      BY <1>1, LoneBuildsStep, ManifestStep DEF ServedInv, ManifestSound
    <2>2. QED
      BY <1>2, <2>1 DEF ManifestSound
  <1>5. PatchSound'
    <2>1. served.file \in KeyValueFiles /\ served.file \notin crossed' => LoneBuilds' /\ PatchCurrent(served.file)'
      <3>1. SUFFICES ASSUME served.file \in KeyValueFiles, served.file \notin crossed'
                     PROVE  LoneBuilds' /\ PatchCurrent(served.file)'
        OBVIOUS
      <3>2. LoneBuilds /\ PatchCurrent(served.file)
        BY <1>1, <3>1 DEF ServedInv, PatchSound
      <3>3. PICK f \in KeyValueFiles : f = served.file
        BY <3>1
      <3>4. LoneBuilds' /\ PatchCurrent(f)'
        BY <3>1, <3>2, <3>3, LoneBuildsStep, PatchStep DEF ServedInv
      <3>5. PatchCurrent(served.file)' <=> PatchCurrent(f)'
        BY <1>2, <3>3
      <3>6. QED
        BY <3>4, <3>5
    <2>2. QED
      BY <1>2, <2>1 DEF PatchSound
  <1>6. QED
    BY <1>1, <1>3, <1>4, <1>5 DEF ServedInv

LEMMA ServedInvInit ==
    ASSUME ServedInit
    PROVE  ServedInv
  <1>0. /\ "pdef" \in GeneratedFiles /\ NoBytes \in 0..NoBytes /\ 0 \in 0..NoBytes /\ 1 \in ModSets
        /\ 0 \in 0..MaxServedReads /\ 0 \in 0..MaxWriteFailures
    BY ServedFilesAssumption DEF GeneratedFiles, NoBytes
  <1>1. /\ ReaderAtRest \in ReaderStates /\ ReaderAtRest.at = "idle" /\ ReaderAtRest.quiet = FALSE
    BY <1>0 DEF ReaderAtRest, ReaderStates, Stock, Content
  <1>2. \A t \in FileReaders : readers[t].at = "idle" /\ readers[t].quiet = FALSE
    BY <1>1 DEF ServedInit
  <1>3. ServedTypeOK
    <2>1. Refused \in Content
      BY <1>0 DEF Refused, Content, NoBytes
    <2>2. pdef \in PdefStates /\ particles \in [generated : BOOLEAN, size : 0..NoBytes]
      BY <1>0 DEF ServedInit, PdefStates
    <2>3. patches \subseteq KeyValueFiles
      BY <1>0 DEF ServedInit, KeyValueFiles
    <2>4. served \in [file : GeneratedFiles, reads : 0..MaxServedReads, failures : 0..MaxWriteFailures]
      BY <1>0 DEF ServedInit
    <2>5. readers \in [FileReaders -> ReaderStates] /\ disk \in [GeneratedFiles -> Content]
      BY <1>1, <2>1 DEF ServedInit
    <2>6. QED
      BY <1>0, <2>2, <2>3, <2>4, <2>5 DEF ServedInit, ServedTypeOK
  <1>4. ServedFacts
    BY <1>0, <1>2 DEF ServedInit, ServedFacts, Refused
  <1>5. \A t \in FileReaders : ~Builds(readers[t]) /\ ~readers[t].quiet
    BY <1>2 DEF Builds
  <1>6. PdefSound
    <2>1. ~pdef.locked /\ ~pdef.attempted
      BY DEF ServedInit
    <2>2. \A t \in FileReaders : PdefUnderWay(readers[t])
      BY <1>5 DEF PdefUnderWay, Builds
    <2>3. QED
      BY <1>5, <2>1, <2>2 DEF PdefSound, PdefLocked, PdefCurrent, PdefQuietReads
  <1>7. LoneBuilds
    BY <1>5 DEF LoneBuilds
  <1>8. ManifestSound
    <2>1. ~particles.generated
      BY DEF ServedInit
    <2>2. \A t \in FileReaders : ManifestUnderWay(readers[t])
      BY <1>5 DEF ManifestUnderWay, Builds
    <2>3. QED
      BY <1>5, <1>7, <2>1, <2>2 DEF ManifestSound, ManifestCurrent
  <1>9. PatchSound
    <2>1. \A f : ListedAs(f) = {} /\ ~Listed(f)
      BY DEF ServedInit, ListedAs, Listed
    <2>2. \A f : \A t \in FileReaders : PatchUnderWay(f, readers[t])
      BY <1>5 DEF PatchUnderWay, Builds
    <2>3. QED
      BY <1>5, <1>7, <2>1, <2>2 DEF PatchSound, PatchCurrent
  <1>10. QED
    BY <1>3, <1>4, <1>6, <1>8, <1>9 DEF ServedInv

\* The invariant gives what the engine relies on.
LEMMA ServedInvSound ==
    ASSUME ServedInv
    PROVE  ServedSound
  <1>1. ServedTypeOK /\ ServedFacts
    BY DEF ServedInv
  <1>2. \A t \in FileReaders : readers[t].at # "idle" => readers[t].file = served.file
    BY <1>1 DEF ServedFacts
  <1>3. served.file \in GeneratedFiles
    BY <1>1 DEF ServedTypeOK
  <1>4. ASSUME NEW t \in FileReaders, QuietRead(readers[t]),
               readers[t].file = "pdef" \/ readers[t].file \notin crossed
        PROVE  Fits(readers[t])
    <2>1. readers[t].at = "done" /\ readers[t].quiet /\ readers[t].call = "open" /\ readers[t].file = served.file
      BY <1>2, <1>4 DEF QuietRead
    <2>2. CASE served.file = "pdef"
      BY <2>1, <2>2 DEF ServedInv, PdefSound, PdefQuietReads, PdefQuiet
    <2>3. CASE served.file = "particles"
      BY <1>4, <2>1, <2>3 DEF ServedInv, ManifestSound, ManifestCurrent, ManifestQuiet
    <2>4. CASE served.file \in KeyValueFiles /\ served.file # "pdef"
      <3>1. PatchCurrent(served.file)
        BY <1>4, <2>1, <2>4 DEF ServedInv, PatchSound
      <3>2. QED
        BY <2>1, <3>1 DEF PatchCurrent, PatchQuiet
    <2>5. QED
      BY <1>3, <2>2, <2>3, <2>4 DEF GeneratedFiles
  <1>5. ServedInStep
    BY <1>4 DEF ServedInStep, Fits
  <1>6. OneBuilderOfThePdef
    <2> DEFINE B == {t \in FileReaders : Building(t, "pdef")}
    <2>1. disk["pdef"].whole
      BY <1>1 DEF ServedFacts
    <2>2. \A t, u \in B : t = u
      <3>1. SUFFICES ASSUME NEW t \in B, NEW u \in B
                     PROVE  t = u
        OBVIOUS
      <3>2. Builds(readers[t]) /\ Builds(readers[u]) /\ served.file = "pdef"
        BY <1>2 DEF Building, Builds
      <3>3. QED
        BY <3>2 DEF ServedInv, PdefSound, PdefLocked
    <2>3. CASE B = {}
      BY <2>1, <2>3, FS_EmptySet DEF OneBuilderOfThePdef
    <2>4. CASE B # {}
      <3>1. PICK t \in B : TRUE
        BY <2>4
      <3>2. B = {t}
        BY <2>2, <3>1
      <3>3. Cardinality(B) = 1
        BY <3>2, FS_Singleton
      <3>4. QED
        BY <2>1, <3>3 DEF OneBuilderOfThePdef
    <2>5. QED
      BY <2>3, <2>4
  <1>7. QED
    BY <1>5, <1>6 DEF ServedSound

\* In the composition.
LEMMA ServedPartInit ==
    ASSUME FilesInit
    PROVE  ServedInv
  <1>1. ServedInit
    BY DEF FilesInit
  <1>2. QED
    BY <1>1, ServedInvInit

LEMMA ServedPartStep ==
    ASSUME ServedInv, [FilesNext]_filesVars
    PROVE  ServedInv'
  <1>1. CASE ServedNext
    BY <1>1, ServedInvStep
  <1>2. CASE UNCHANGED servedVars
    <2>1. UNCHANGED <<servedOverlay, pdef, particles, patches, built, disk, reload, readers, served, crossed>>
      BY <1>2 DEF servedVars
    <2>2. ServedTypeOK' /\ ServedFacts'
      BY <2>1 DEF ServedInv, ServedTypeOK, ServedFacts
    <2>3. \A f : LeftOut(f)' <=> LeftOut(f)
      BY <2>1 DEF LeftOut
    <2>4. \A r : Fits(r)' <=> Fits(r)
      BY <2>1, <2>3 DEF Fits
    <2>5. PdefSound'
      BY <2>1, <2>3, <2>4 DEF ServedInv, PdefSound, PdefLocked, PdefCurrent, PdefQuietReads, PdefStands, PdefMade,
                              PdefUnderWay, PdefQuiet, Builds
    <2>6. ManifestSound' /\ PatchSound'
      BY <2>1, <2>3, <2>4 DEF ServedInv, ManifestSound, PatchSound, LoneBuilds, ManifestCurrent, ManifestMade, WholeNow,
                              ManifestUnderWay, ManifestQuiet, PatchCurrent, PatchMade, PatchUnderWay, PatchQuiet,
                              Listed, ListedAs, Builds
    <2>7. QED
      BY <2>2, <2>5, <2>6 DEF ServedInv
  <1>3. QED
    BY <1>1, <1>2 DEF FilesNext, filesVars

\* What the engine reads is the file of the mods enabled now, and of the size
\* it was told; the persistence definition is built by one thread at a time and
\* never seen half written (ModSize, ModOpenEx, RuntimePdefReady).
THEOREM ReadsAreServedAlways == FilesSpec => []ReadsAreServed
  <1>1. FilesInit => ServedInv
    BY ServedPartInit
  <1>2. ServedInv /\ [FilesNext]_filesVars => ServedInv'
    BY ServedPartStep
  <1>3. ServedInv => ReadsAreServed
    BY ServedInvSound DEF ReadsAreServed
  <1>4. QED
    BY <1>1, <1>2, <1>3, PTL DEF FilesSpec

-----------------------------------------------------------------------------
(* How a path is read.  The walk along a path gives where its first n       *)
(* segments lead.                                                           *)
Segment(walk, path, n) ==
    IF path[n] \in {"", "."} THEN walk[n - 1]
    ELSE IF path[n] = ".." THEN Front(walk[n - 1])
    ELSE Append(walk[n - 1], path[n])
Walks(path, walk) == walk = [n \in 0..Len(path) |-> IF n = 0 THEN <<>> ELSE Segment(walk, path, n)]

\* A set that holds 0, and each number after one it holds, holds them all.
LEMMA UpTo ==
    ASSUME NEW last \in Nat, NEW S, 0 \in S, \A n \in 0..last : n \in S /\ n < last => n + 1 \in S
    PROVE  \A n \in 0..last : n \in S
  <1> DEFINE Missing == {n \in 0..last : n \notin S}
  <1>1. SUFFICES ASSUME Missing # {}
                 PROVE  FALSE
    OBVIOUS
  <1>2. Missing \in SUBSET Nat
    OBVIOUS
  <1>3. PICK x \in Missing : \A y \in Missing : ~ (<<y, x>> \in OpToRel(<, Nat))
    BY <1>1, <1>2, NatLessThanWellFounded, WFMin
  <1>4. \A y \in Missing : ~(y < x)
    BY <1>2, <1>3 DEF OpToRel
  <1>5. x \in 1..last
    <2>1. x \in 0..last /\ x \notin S
      BY <1>3
    <2>2. x # 0
      BY <2>1
    <2>3. QED
      BY <2>1, <2>2
  <1>6. x - 1 \in 0..last /\ x - 1 < x /\ x - 1 < last
    BY <1>5
  <1>7. x - 1 \in S
    BY <1>4, <1>6
  <1>8. (x - 1) + 1 \in S
    BY <1>6, <1>7
  <1>9. (x - 1) + 1 = x
    BY <1>5
  <1>10. QED
    BY <1>3, <1>8, <1>9

LEMMA SegmentType ==
    ASSUME NEW S, NEW path \in Seq(S), NEW n \in 1..Len(path), NEW at \in Seq(S)
    PROVE  /\ path[n] \in S
           /\ Front(at) \in Seq(S)
           /\ Append(at, path[n]) \in Seq(S)
  <1>1. path[n] \in S
    BY ElementOfSeq
  <1>2. Front(at) \in Seq(S)
    <2>1. CASE Len(at) = 0
      BY <2>1, SubSeqEmpty, EmptySeq DEF Front
    <2>2. CASE Len(at) > 0
      <3>1. 1 \in Int /\ Len(at) - 1 \in 0..Len(at)
        BY <2>2
      <3>2. QED
        BY <3>1 DEF Front
    <2>3. QED
      BY <2>1, <2>2
  <1>3. QED
    BY <1>1, <1>2

LEMMA WalkExists ==
    ASSUME NEW S, NEW path \in Seq(S)
    PROVE  \E walk \in [0..Len(path) -> Seq(S)] : Walks(path, walk)
  <1> DEFINE last == Len(path)
             Step(w, k) == w[k] = IF k = 0 THEN <<>> ELSE Segment(w, path, k)
             Reached == {n \in 0..last : \E w \in [0..n -> Seq(S)] : \A k \in 0..n : Step(w, k)}
  <1>1. last \in Nat
    OBVIOUS
  <1>2. 0 \in Reached
    <2> DEFINE w == [k \in 0..0 |-> <<>>]
    <2>1. w \in [0..0 -> Seq(S)] /\ \A k \in 0..0 : Step(w, k)
      OBVIOUS
    <2> HIDE DEF w, Step
    <2>2. QED
      BY <1>1, <2>1
  <1>3. ASSUME NEW n \in 0..last, n \in Reached, n < last
        PROVE  n + 1 \in Reached
    <2>1. PICK w \in [0..n -> Seq(S)] : \A k \in 0..n : Step(w, k)
      BY <1>3
    <2>2. n + 1 \in 1..last /\ n + 1 \in 0..last
      BY <1>1, <1>3
    <2>3. w[n] \in Seq(S)
      BY <2>1
    <2>4. Front(w[n]) \in Seq(S) /\ Append(w[n], path[n + 1]) \in Seq(S)
      BY <2>2, <2>3, SegmentType
    <2>5. Segment(w, path, n + 1) \in Seq(S)
      <3>1. (n + 1) - 1 = n
        BY <1>3
      <3>2. QED
        BY <2>3, <2>4, <3>1 DEF Segment
    <2> DEFINE v == [k \in 0..(n + 1) |-> IF k = n + 1 THEN Segment(w, path, n + 1) ELSE w[k]]
    <2>6. v \in [0..(n + 1) -> Seq(S)]
      BY <2>1, <2>5
    <2>7. \A k \in 0..n : v[k] = w[k]
      BY <1>3
    <2>8. \A k \in 1..(n + 1) : Segment(v, path, k) = Segment(w, path, k)
      <3>1. \A k \in 1..(n + 1) : v[k - 1] = w[k - 1]
        BY <2>7, <1>3
      <3> HIDE DEF v
      <3>2. QED
        BY <3>1, Zenon DEF Segment
    <2> DEFINE at == Segment(w, path, n + 1)
    <2>10. v[n + 1] = at
      BY <1>3
    <2>11. v[0] = w[0]
      BY <2>7, <1>3
    <2>9. ASSUME NEW k \in 0..(n + 1)
          PROVE  Step(v, k)
      <3> HIDE DEF v
      <3>1. CASE k = n + 1
        <4>1. k # 0 /\ k \in 1..(n + 1)
          BY <1>3, <3>1
        <4>2. v[k] = Segment(v, path, k)
          BY <2>8, <2>10, <3>1, <4>1
        <4>3. QED
          BY <4>1, <4>2
      <3>2. CASE k = 0
        <4>1. 0 \in 0..n
          BY <1>1, <1>3
        <4>2. Step(w, 0)
          BY <2>1, <4>1
        <4>3. w[0] = <<>>
          BY <4>2
        <4>4. QED
          BY <2>11, <3>2, <4>3
      <3>4. CASE k \in 1..n
        <4>1. k # 0 /\ k \in 1..(n + 1) /\ k \in 0..n
          BY <1>3, <3>4
        <4>2. Step(w, k)
          BY <2>1, <4>1
        <4>3. w[k] = Segment(w, path, k)
          BY <4>1, <4>2
        <4>4. QED
          BY <2>7, <2>8, <4>1, <4>3
      <3>3. QED
        BY <1>3, <3>1, <3>2, <3>4
    <2> HIDE DEF v, Step
    <2>12. QED
      BY <2>2, <2>6, <2>9
  <1>4. last \in Reached
    <2> HIDE DEF Reached
    <2>1. \A n \in 0..last : n \in Reached
      <3> HIDE DEF last
      <3>1. QED
        BY <1>1, <1>2, <1>3, UpTo
    <2>2. QED
      BY <1>1, <2>1
  <1>5. PICK w \in [0..last -> Seq(S)] : \A k \in 0..last : Step(w, k)
    BY <1>4
  <1>6. Walks(path, w)
    BY <1>5 DEF Walks
  <1>7. QED
    BY <1>5, <1>6

\* Where a path leads is where a walk along it ends.
LEMMA ResolveIsAWalk ==
    ASSUME NEW S, NEW path \in Seq(S)
    PROVE  \E walk : /\ walk \in [0..Len(path) -> Seq(S)]
                     /\ Walks(path, walk) /\ Resolve(path) = walk[Len(path)]
  <1> DEFINE w == CHOOSE walk : Walks(path, walk)
  <1>1. PICK v \in [0..Len(path) -> Seq(S)] : Walks(path, v)
    BY WalkExists
  <1>2. Walks(path, w)
    BY <1>1
  <1>3. Resolve(path) = w[Len(path)]
    BY Zenon DEF Resolve, Walks, Segment
  <1> DEFINE Same == {n \in 0..Len(path) : w[n] = v[n]}
  <1> HIDE DEF w
  <1>4. \A n \in 0..Len(path) : n \in Same
    <2>1. 0 \in Same
      BY <1>1, <1>2 DEF Walks
    <2>2. ASSUME NEW n \in 0..Len(path), n \in Same, n < Len(path)
          PROVE  n + 1 \in Same
      <3>1. w[n] = v[n] /\ n + 1 \in 0..Len(path) /\ (n + 1) - 1 = n /\ n + 1 # 0
        BY <2>2
      <3>2. Segment(w, path, n + 1) = Segment(v, path, n + 1)
        BY <3>1, Zenon DEF Segment
      <3>3. w[n + 1] = Segment(w, path, n + 1) /\ v[n + 1] = Segment(v, path, n + 1)
        BY <1>1, <1>2, <3>1 DEF Walks
      <3>4. QED
        BY <3>1, <3>2, <3>3
    <2> HIDE DEF Same
    <2>3. Len(path) \in Nat
      OBVIOUS
    <2>4. QED
      BY <2>1, <2>2, <2>3, UpTo
  <1>5. w \in [0..Len(path) -> Seq(S)]
    <2>1. w = [n \in 0..Len(path) |-> w[n]]
      BY <1>2 DEF Walks
    <2>2. \A n \in 0..Len(path) : w[n] \in Seq(S)
      BY <1>1, <1>4
    <2>3. QED
      BY <2>1, <2>2
  <1>6. QED
    BY <1>2, <1>3, <1>5

LEMMA CountStep ==
    ASSUME NEW X, NEW n \in Nat
    PROVE  /\ Cardinality(X \cap (1..n)) \in Nat
           /\ Cardinality(X \cap (1..(n + 1))) = Cardinality(X \cap (1..n)) + (IF n + 1 \in X THEN 1 ELSE 0)
  <1> DEFINE below == X \cap (1..n)
             upTo == X \cap (1..(n + 1))
  <1>1. IsFiniteSet(below) /\ Cardinality(below) \in Nat
    <2>1. IsFiniteSet(1..n)
      BY FS_Interval
    <2>2. below \in SUBSET (1..n)
      OBVIOUS
    <2>3. IsFiniteSet(below)
      BY <2>1, <2>2, FS_Subset
    <2>4. QED
      BY <2>3, FS_CardinalityType
  <1>2. \A x : x \in 1..(n + 1) <=> x \in 1..n \/ x = n + 1
    OBVIOUS
  <1>3. n + 1 \notin below
    OBVIOUS
  <1>4. CASE n + 1 \in X
    <2>1. upTo = below \cup {n + 1}
      BY <1>2, <1>4
    <2> HIDE DEF below, upTo
    <2>2. Cardinality(below \cup {n + 1}) = Cardinality(below) + 1
      BY <1>1, <1>3, FS_AddElement
    <2>3. Cardinality(upTo) = Cardinality(below) + (IF n + 1 \in X THEN 1 ELSE 0)
      BY <1>4, <2>1, <2>2
    <2>4. QED
      BY <1>1, <2>3 DEF below, upTo
  <1>5. CASE n + 1 \notin X
    <2>1. upTo = below
      BY <1>2, <1>5
    <2> HIDE DEF below, upTo
    <2>2. Cardinality(upTo) = Cardinality(below) + (IF n + 1 \in X THEN 1 ELSE 0)
      BY <1>1, <1>5, <2>1
    <2>3. QED
      BY <1>1, <2>2 DEF below, upTo
  <1>6. QED
    BY <1>4, <1>5

\* The segments of a path that climb, and those that descend.
Climbs(r) == {i \in Nat : r[i] = ".."}
Descends(r) == {i \in Nat : r[i] \notin {"", ".", ".."}}

LEMMA UpsAndDowns ==
    ASSUME NEW r
    PROVE  /\ Ups(r, 0) = 0 /\ Downs(r, 0) = 0
           /\ \A n \in Nat : Ups(r, n) \in Nat /\ Downs(r, n) \in Nat
           /\ \A n \in Nat : Ups(r, n + 1) = Ups(r, n) + (IF n + 1 \in Climbs(r) THEN 1 ELSE 0)
           /\ \A n \in Nat : Downs(r, n + 1) = Downs(r, n) + (IF n + 1 \in Descends(r) THEN 1 ELSE 0)
  <1>1. \A n \in Nat : Ups(r, n) = Cardinality(Climbs(r) \cap (1..n))
    <2>1. ASSUME NEW n \in Nat
          PROVE  {i \in 1..n : r[i] = ".."} = {i \in Nat : r[i] = ".."} \cap (1..n)
      OBVIOUS
    <2>2. QED
      BY <2>1 DEF Ups, Climbs
  <1>2. \A n \in Nat : Downs(r, n) = Cardinality(Descends(r) \cap (1..n))
    <2> DEFINE D == {"", ".", ".."}
    <2> HIDE DEF D
    <2>1. ASSUME NEW n \in Nat
          PROVE  {i \in 1..n : r[i] \notin D} = {i \in Nat : r[i] \notin D} \cap (1..n)
      OBVIOUS
    <2>2. QED
      BY <2>1 DEF Downs, Descends, D
  <1>3. \A X : X \cap (1..0) = {}
    <2>1. 1..0 = {}
      OBVIOUS
    <2>2. QED
      BY <2>1
  <1>4. Ups(r, 0) = 0 /\ Downs(r, 0) = 0
    BY <1>1, <1>2, <1>3, FS_EmptySet
  <1>5. ASSUME NEW n \in Nat
        PROVE  /\ Ups(r, n) \in Nat /\ Downs(r, n) \in Nat
               /\ Ups(r, n + 1) = Ups(r, n) + (IF n + 1 \in Climbs(r) THEN 1 ELSE 0)
               /\ Downs(r, n + 1) = Downs(r, n) + (IF n + 1 \in Descends(r) THEN 1 ELSE 0)
    <2>1. n + 1 \in Nat
      OBVIOUS
    <2>2. Ups(r, n) = Cardinality(Climbs(r) \cap (1..n)) /\ Ups(r, n + 1) = Cardinality(Climbs(r) \cap (1..(n + 1)))
      BY <1>1, <2>1
    <2>3. /\ Downs(r, n) = Cardinality(Descends(r) \cap (1..n))
          /\ Downs(r, n + 1) = Cardinality(Descends(r) \cap (1..(n + 1)))
      BY <1>2, <2>1
    <2>4. QED
      BY <2>2, <2>3, CountStep
  <1>6. QED
    BY <1>4, <1>5

\* A path that SavePathSafe lets through leads below the folder, to a file of
\* the name it ends in.
LEMMA SafePathsStayInside ==
    ASSUME NEW r \in Requests, SavePathSafe(r), Last(r) \in AllowedLeaves
    PROVE  /\ Resolve(Folder \o r) \in Below /\ Last(Resolve(Folder \o r)) \in AllowedLeaves
           /\ Last(Resolve(Folder \o r)) = Last(r)
  <1> DEFINE S == STRING \cup {"mod"}
             path == Folder \o r
             last == Len(r)
  <1>1. r \in Seq(S) /\ last \in Nat /\ last >= 1
    <2>1. r \in Seq(S) /\ r # <<>>
      <3>1. r \in Seq(STRING) /\ r # <<>>
        BY SaveFilesAssumption
      <3>2. QED
        BY <3>1, SeqMonotonic
    <2>2. QED
      BY <2>1, EmptySeq
  <1>2. path \in Seq(S) /\ Len(path) = last + 1 /\ path[1] = "mod"
        /\ \A n \in 1..last : path[n + 1] = r[n]
    <2>1. Folder \in Seq(S) /\ Len(Folder) = 1 /\ Folder[1] = "mod"
      BY DEF Folder
    <2> HIDE DEF S
    <2>2. path \in Seq(S) /\ Len(path) = last + 1
      <3>1. path \in Seq(S) /\ Len(path) = Len(Folder) + Len(r)
        BY <1>1, <2>1, ConcatProperties
      <3>2. QED
        BY <1>1, <2>1, <3>1
    <2>3. path[1] = "mod"
      <3>1. 1 \in 1..Len(Folder)
        BY <2>1
      <3>2. (Folder \o r)[1] = Folder[1]
        BY <1>1, <2>1, <3>1, ConcatProperties
      <3>3. QED
        BY <2>1, <3>2
    <2>4. ASSUME NEW n \in 1..last
          PROVE  path[n + 1] = r[n]
      <3>1. n + 1 \in 1..(Len(Folder) + Len(r)) /\ ~(n + 1 <= Len(Folder)) /\ (n + 1) - Len(Folder) = n
        BY <1>1, <2>1
      <3>2. (Folder \o r)[n + 1] = r[(n + 1) - Len(Folder)]
        <4>1. \A i \in 1..(Len(Folder) + Len(r)) :
                  (Folder \o r)[i] = IF i <= Len(Folder) THEN Folder[i] ELSE r[i - Len(Folder)]
          BY <1>1, <2>1, ConcatProperties
        <4> DEFINE one == Len(Folder)
                   joined == Folder \o r
        <4> HIDE DEF one, joined, last
        <4>2. QED
          BY <3>1, <4>1, Zenon DEF one, joined, last
      <3>3. QED
        BY <3>1, <3>2
    <2>5. QED
      BY <2>2, <2>3, <2>4
  <1>3. PICK walk : /\ walk \in [0..Len(path) -> Seq(S)]
                    /\ Walks(path, walk) /\ Resolve(path) = walk[Len(path)]
    BY <1>2, ResolveIsAWalk
  <1> HIDE DEF path, S
  <1>4. \A n \in 0..last : n + 1 \in 0..Len(path) /\ walk[n + 1] = Segment(walk, path, n + 1)
                           /\ walk[n + 1] \in Seq(S)
    <2>1. \A n \in 0..last : n + 1 \in 0..Len(path) /\ n + 1 # 0
      BY <1>1, <1>2
    <2>2. QED
      BY <1>3, <2>1 DEF Walks
  <1>5. walk[1] = <<"mod">>
    <2>1. walk[1] = Segment(walk, path, 1) /\ walk[0] = <<>>
      <3>1. 0 \in 0..last /\ 0 + 1 = 1 /\ 0 \in 0..Len(path)
        BY <1>1, <1>2
      <3>2. walk[1] = Segment(walk, path, 1)
        BY <1>4, <3>1
      <3>3. QED
        BY <1>3, <3>1, <3>2 DEF Walks
    <2>2. path[1] \notin {"", "."} /\ path[1] # ".."
      BY <1>2
    <2>3. Segment(walk, path, 1) = Append(walk[0], path[1])
      <3>1. Segment(walk, path, 1) = Append(walk[1 - 1], path[1])
        BY <2>2, Zenon DEF Segment
      <3>2. QED
        BY <3>1
    <2>4. QED
      BY <1>2, <2>1, <2>3
  <1> DEFINE In(n) == walk[n + 1][1] = "mod" /\ Len(walk[n + 1]) = (1 + Downs(r, n)) - Ups(r, n)
             Inside == {n \in 0..last : In(n)}
  <1>6. 0 \in Inside
    <2>1. walk[0 + 1] = <<"mod">>
      BY <1>5
    <2>2. Len(<<"mod">>) = 1 /\ <<"mod">>[1] = "mod"
      OBVIOUS
    <2>3. In(0)
      BY <2>1, <2>2, UpsAndDowns
    <2>4. QED
      BY <1>1, <2>3
  <1>7. ASSUME NEW n \in 0..last, In(n)
        PROVE  Len(walk[n + 1]) >= 1
    <2>1. CASE n = 0
      <3>1. walk[n + 1] = <<"mod">>
        BY <1>5, <2>1
      <3>2. Len(<<"mod">>) = 1
        OBVIOUS
      <3>3. QED
        BY <3>1, <3>2
    <2>2. CASE n \in 1..last
      <3>1. Ups(r, n) <= Downs(r, n)
        BY <2>2 DEF SavePathSafe
      <3>2. Ups(r, n) \in Nat /\ Downs(r, n) \in Nat
        <4>1. n \in Nat
          BY <2>2
        <4>2. QED
          BY <4>1, UpsAndDowns
      <3>3. QED
        BY <1>7, <3>1, <3>2
    <2>3. QED
      BY <1>1, <2>1, <2>2
  <1>8. ASSUME NEW n \in 0..last, n < last, In(n)
        PROVE  /\ In(n + 1)
               /\ r[n + 1] \notin {"", ".", ".."} =>
                      Len(walk[n + 2]) >= 2 /\ walk[n + 2][Len(walk[n + 2])] = r[n + 1]
    <2> DEFINE at == walk[n + 1]
               s == r[n + 1]
    <2>1. n \in Nat /\ n + 1 \in 1..last /\ n + 1 \in 0..last /\ (n + 1) + 1 = n + 2 /\ (n + 2) - 1 = n + 1
      BY <1>1, <1>8
    <2>2. at \in Seq(S) /\ Len(at) >= 1 /\ Len(at) \in Nat /\ at[1] = "mod"
      <3>1. at \in Seq(S)
        BY <1>4
      <3>2. Len(at) >= 1
        BY <1>7, <1>8
      <3>3. QED
        BY <1>8, <3>1, <3>2
    <2>3. path[n + 2] = s /\ s \in S
      <3>1. path[(n + 1) + 1] = s
        BY <1>2, <2>1
      <3>2. s \in S
        BY <1>1, <2>1, ElementOfSeq
      <3>3. QED
        BY <2>1, <3>1, <3>2
    <2>4. walk[n + 2] = IF s \in {"", "."} THEN at ELSE IF s = ".." THEN Front(at) ELSE Append(at, s)
      <3>1. walk[(n + 1) + 1] = Segment(walk, path, (n + 1) + 1)
        BY <1>4, <2>1
      <3>2. walk[n + 2] = Segment(walk, path, n + 2)
        BY <2>1, <3>1
      <3>3. QED
        BY <2>1, <2>3, <3>2 DEF Segment
    <2>5. /\ Ups(r, n + 1) = Ups(r, n) + (IF n + 1 \in Climbs(r) THEN 1 ELSE 0)
          /\ Downs(r, n + 1) = Downs(r, n) + (IF n + 1 \in Descends(r) THEN 1 ELSE 0)
          /\ Ups(r, n) \in Nat /\ Downs(r, n) \in Nat
      BY <2>1, UpsAndDowns
    <2>13. /\ n + 1 \in Climbs(r) <=> s = ".."
           /\ n + 1 \in Descends(r) <=> s \notin {"", ".", ".."}
      <3>1. n + 1 \in Nat
        BY <2>1
      <3>2. QED
        BY <3>1, Zenon DEF Climbs, Descends
    <2>14. s \in {"", "."} => s # ".." /\ s \in {"", ".", ".."}
      OBVIOUS
    <2>6. Ups(r, n + 1) <= Downs(r, n + 1)
      BY <2>1 DEF SavePathSafe
    <2>7. Len(at) = (1 + Downs(r, n)) - Ups(r, n)
      BY <1>8
    <2>8. In(n + 1) <=> walk[n + 2][1] = "mod" /\ Len(walk[n + 2]) = (1 + Downs(r, n + 1)) - Ups(r, n + 1)
      BY <2>1
    <2> HIDE DEF at, s, In
    <2>9. CASE s \in {"", "."}
      <3>1. walk[n + 2] = at /\ s # ".."
        BY <2>4, <2>9
      <3>2. n + 1 \notin Climbs(r) /\ n + 1 \notin Descends(r)
        BY <2>9, <2>13, <2>14
      <3>3. Ups(r, n + 1) = Ups(r, n) /\ Downs(r, n + 1) = Downs(r, n)
        BY <2>5, <3>2
      <3>4. In(n + 1)
        BY <2>2, <2>7, <2>8, <3>1, <3>3
      <3>5. QED
        BY <2>9, <2>14, <3>4 DEF s
    <2>10. CASE s = ".."
      <3>1. walk[n + 2] = SubSeq(at, 1, Len(at) - 1)
        BY <2>4, <2>10 DEF Front
      <3>2. Ups(r, n + 1) = Ups(r, n) + 1 /\ Downs(r, n + 1) = Downs(r, n)
        <4>1. n + 1 \in Climbs(r) /\ n + 1 \notin Descends(r)
          BY <2>10, <2>13
        <4>2. QED
          BY <2>5, <4>1
      <3>3. Len(at) - 1 >= 1 /\ Len(at) - 1 \in Nat
        BY <2>2, <2>5, <2>6, <2>7, <3>2
      <3>4. Len(walk[n + 2]) = Len(at) - 1 /\ walk[n + 2][1] = "mod"
        BY <2>2, <3>1, <3>3
      <3>5. QED
        <4>1. In(n + 1)
          BY <2>2, <2>5, <2>7, <2>8, <3>2, <3>4
        <4>2. s \in {"", ".", ".."}
          BY <2>10
        <4>3. QED
          BY <4>1, <4>2 DEF s
    <2>11. CASE s \notin {"", ".", ".."}
      <3>1. walk[n + 2] = Append(at, s)
        BY <2>4, <2>11
      <3>2. /\ Len(walk[n + 2]) = Len(at) + 1 /\ walk[n + 2][1] = "mod"
            /\ walk[n + 2][Len(walk[n + 2])] = s
        BY <2>2, <2>3, <3>1, AppendProperties
      <3>3. Ups(r, n + 1) = Ups(r, n) /\ Downs(r, n + 1) = Downs(r, n) + 1
        <4>1. n + 1 \notin Climbs(r) /\ n + 1 \in Descends(r)
          BY <2>11, <2>13
        <4>2. QED
          BY <2>5, <4>1
      <3>4. In(n + 1)
        BY <2>2, <2>5, <2>7, <2>8, <3>2, <3>3
      <3>5. Len(walk[n + 2]) >= 2
        BY <2>2, <3>2
      <3>6. QED
        BY <3>2, <3>4, <3>5 DEF s
    <2>12. QED
      BY <2>9, <2>10, <2>11, Zenon
  <1>9. \A n \in 0..last : In(n)
    <2>1. \A n \in 0..last : n \in Inside /\ n < last => n + 1 \in Inside
      <3>1. ASSUME NEW n \in 0..last, n \in Inside, n < last
            PROVE  n + 1 \in Inside
        <4>1. In(n) /\ n + 1 \in 0..last
          BY <1>1, <3>1
        <4>2. In(n + 1)
          BY <1>8, <3>1, <4>1
        <4>3. QED
          BY <4>1, <4>2
      <3>2. QED
        BY <3>1
    <2>2. \A n \in 0..last : n \in Inside
      <3> HIDE DEF Inside, last
      <3>1. QED
        BY <1>1, <1>6, <2>1, UpTo
    <2>3. QED
      BY <2>2
  <1>10. Len(Resolve(path)) >= 2 /\ Resolve(path)[1] = "mod" /\ Last(Resolve(path)) = Last(r)
    <2>1. last - 1 \in 0..last /\ last - 1 < last /\ (last - 1) + 1 = last /\ (last - 1) + 2 = last + 1
      BY <1>1
    <2>2. r[last] \notin {"", ".", ".."}
      BY SaveFilesAssumption DEF Last
    <2>3. Len(walk[last + 1]) >= 2 /\ walk[last + 1][Len(walk[last + 1])] = r[last]
      <3>1. In(last - 1)
        BY <1>9, <2>1
      <3> HIDE DEF In
      <3>2. r[(last - 1) + 1] \notin {"", ".", ".."} =>
                Len(walk[(last - 1) + 2]) >= 2 /\ walk[(last - 1) + 2][Len(walk[(last - 1) + 2])] = r[(last - 1) + 1]
        BY <1>8, <2>1, <3>1
      <3>3. QED
        BY <2>1, <2>2, <3>2
    <2>4. In(last)
      BY <1>1, <1>9
    <2>5. Resolve(path) = walk[last + 1]
      BY <1>2, <1>3
    <2>6. QED
      BY <2>3, <2>4, <2>5 DEF Last
  <1>11. Resolve(path) \in Path
    BY DEF Path, path
  <1>12. QED
    BY <1>10, <1>11 DEF Below, Folder, path

-----------------------------------------------------------------------------
(* The files of scripts (SaveFiles).                                        *)

\* A save has its temporary open.
Opened(t) == call[t].pc \in {"writing", "flushed"}

\* No two names refer to the same inode.
NamesDiffer ==
    \A p, q \in Path :
        /\ temporary[p] # NoInode => temporary[p] # file[q]
        /\ temporary[p] # NoInode /\ temporary[p] = temporary[q] => p = q
        /\ file[p] # NoInode /\ file[p] = file[q] => p = q

\* What a save has open goes by no other path's names, though by then it may
\* have none.
OpenByOwnName ==
    \A t \in SaveThreads : Opened(t) =>
        \A q \in Path : call[t].inode \in {file[q], temporary[q]} => q = call[t].path

\* Two saves of one path are known to be.
SharedIsKnown ==
    \A t, u \in SaveThreads :
        Saving(t) /\ Saving(u) /\ call[t].path = call[u].path => t = u \/ call[t].path \in shared

\* A save is of a text, to a path in the folder; a load is of a file.
InFolder(p) == p \in Below /\ Last(p) \in AllowedLeaves
CallsAreMeant ==
    \A t \in SaveThreads :
        /\ Saving(t) => call[t].path \in Path /\ InFolder(call[t].path) /\ call[t].text \in Texts
        /\ call[t].pc = "checked" => call[t].at = 0
        /\ Opened(t) => call[t].inode \in Inodes
        /\ call[t].pc = "sized" => call[t].path \in Path /\ call[t].inode \in Inodes

\* A save that nobody shares has its temporary to itself; while nothing failed
\* it holds what was written so far, and all of it, synced, once flushed.
Prefix(text, n) == [k \in 1..n |-> text]
SaveGoesOn ==
    \A t \in SaveThreads : Opened(t) /\ call[t].path \notin shared =>
        /\ call[t].inode = temporary[call[t].path]
        /\ call[t].ok => call[t].at <= Size(call[t].text) /\ bytes[call[t].inode] = Prefix(call[t].text, call[t].at)
        /\ call[t].pc = "flushed" /\ call[t].ok => call[t].at = Size(call[t].text) /\ call[t].inode \notin unsynced

\* A file that was never shared holds what was last saved to it, synced.
FileIsKept(p) ==
    /\ saved[p] = NoText => file[p] = NoInode
    /\ saved[p] # NoText => file[p] \in Inodes /\ bytes[file[p]] = Whole(saved[p]) /\ file[p] \notin unsynced
FilesAreKept == \A p \in Path : p \notin shared => FileIsKept(p)

\* What a load has sized nobody writes anew, and the load knows its size while
\* it is that path's.
SizeIsKnown ==
    \A t \in SaveThreads : call[t].pc = "sized" =>
        /\ \A q \in Path : temporary[q] # call[t].inode
        /\ call[t].path \notin shared /\ file[call[t].path] = call[t].inode =>
               call[t].at = Len(bytes[call[t].inode])

SavesInv ==
    /\ SaveFilesTypeOK
    /\ NamesDiffer /\ OpenByOwnName /\ SharedIsKnown /\ CallsAreMeant
    /\ SaveGoesOn /\ FilesAreKept /\ SizeIsKnown
    /\ FilesAreInTheFolder

\* Only thread t's call changes, to c.
CallMoves(t, c) ==
    /\ call' \in [SaveThreads -> Call] /\ call'[t] = c
    /\ \A u \in SaveThreads : u # t => call'[u] = call[u]

LEMMA CallMoved ==
    ASSUME call \in [SaveThreads -> Call], NEW t \in SaveThreads, NEW c \in Call, call' = [call EXCEPT ![t] = c]
    PROVE  CallMoves(t, c)
  BY DEF CallMoves

LEMMA IdleType == Idle \in Call /\ Idle.pc = "idle" /\ Idle.ok = TRUE /\ Idle.inode = NoInode /\ Idle.at = 0
  BY DEF Idle, Call

LEMMA BoundedCount == \A n \in 0..MaxCalls : n < MaxCalls => n + 1 \in 0..MaxCalls
  <1>1. MaxCalls \in Nat
    BY SaveFilesAssumption
  <1>2. QED
    BY <1>1

LEMMA SizeType == \A text : Size(text) \in 1..2
  BY DEF Size

\* A save of a text to path p begins.
Begins(t, text, c, p) ==
    /\ c.pc = "checked" /\ c.path = p /\ c.text = text /\ c.at = 0 /\ InFolder(p) /\ CallMoves(t, c)
    /\ call[t].pc = "idle"
    /\ shared' = shared \cup {q \in {p} : \E u \in SaveThreads : Saving(u) /\ call[u].path = q}

LEMMA SaveFileFacts ==
    ASSUME SavesInv, NEW t \in SaveThreads, NEW r \in Requests, NEW text \in Texts, SaveFile(t, r, text)
    PROVE  \E c \in Call, p \in Path : p = Resolve(Folder \o r) /\ Begins(t, text, c, p)
  <1>1. Resolve(Folder \o r) \in Path
    BY DEF Path
  <1>2. InFolder(Resolve(Folder \o r))
    BY SafePathsStayInside DEF SaveFile, InFolder, SaveExtensionAllowed
  <1>3. PICK p \in Path : p = Resolve(Folder \o r) /\ InFolder(p)
    BY <1>1, <1>2
  <1>11. PICK b \in Call : b = Idle /\ b.at = 0
    BY IdleType
  <1>4. PICK c : c = [b EXCEPT !.pc = "checked", !.path = p, !.text = text]
    OBVIOUS
  <1>5. c \in Call /\ c.pc = "checked" /\ c.path = p /\ c.text = text /\ c.at = 0
    BY <1>4, <1>11 DEF Call
  <1>6. call' = [call EXCEPT ![t] = c]
    BY <1>3, <1>4, <1>11, Zenon DEF SaveFile
  <1>7. shared' = shared \cup {q \in {p} : \E u \in SaveThreads : Saving(u) /\ call[u].path = q}
    BY <1>3 DEF SaveFile
  <1>8. call[t].pc = "idle"
    BY IdleType DEF SaveFile, Calls
  <1>9. CallMoves(t, c)
    BY <1>5, <1>6, CallMoved DEF SavesInv, SaveFilesTypeOK
  <1>10. QED
    BY <1>3, <1>5, <1>7, <1>8, <1>9 DEF Begins

LEMMA SaveFileKeeps ==
    ASSUME SavesInv, NEW t \in SaveThreads, NEW r \in Requests, NEW text \in Texts, SaveFile(t, r, text)
    PROVE  SavesInv'
  <1>0. PICK c \in Call, p \in Path : Begins(t, text, c, p)
    BY SaveFileFacts
  <1>1. /\ c.pc = "checked" /\ c.path = p /\ c.text = text /\ c.at = 0 /\ InFolder(p) /\ CallMoves(t, c)
        /\ call[t].pc = "idle"
        /\ shared' = shared \cup {q \in {p} : \E u \in SaveThreads : Saving(u) /\ call[u].path = q}
    BY <1>0 DEF Begins
  <1>2. UNCHANGED <<file, temporary, bytes, unsynced, saved>>
    BY DEF SaveFile
  <1>3. shared \subseteq shared' /\ shared' \subseteq Path /\ overlapped' \in BOOLEAN /\ calls' \in 0..MaxCalls
    <2>1. overlapped \in BOOLEAN /\ shared \subseteq Path /\ calls \in 0..MaxCalls
      BY DEF SavesInv, SaveFilesTypeOK
    <2>2. shared \subseteq shared' /\ shared' \subseteq Path
      BY <1>1, <2>1
    <2>3. overlapped' \in BOOLEAN
      BY DEF SaveFile
    <2>4. calls' \in 0..MaxCalls
      <3>1. calls < MaxCalls /\ calls' = calls + 1
        BY DEF SaveFile, Calls
      <3>2. QED
        BY <2>1, <3>1, BoundedCount
    <2>5. QED
      BY <2>2, <2>3, <2>4
  <1>4. \A u \in SaveThreads : u # t => call'[u] = call[u]
    BY <1>1 DEF CallMoves
  <1>5. call'[t] = c
    BY <1>1 DEF CallMoves
  <1>6. SaveFilesTypeOK'
    BY <1>1, <1>2, <1>3 DEF SavesInv, SaveFilesTypeOK, CallMoves
  <1>7. NamesDiffer' /\ FilesAreInTheFolder'
    BY <1>2 DEF SavesInv, NamesDiffer, FilesAreInTheFolder
  <1>8. OpenByOwnName'
    BY <1>1, <1>2, <1>4, <1>5 DEF SavesInv, OpenByOwnName, Opened
  <1>9. SharedIsKnown'
    <2>1. ASSUME NEW u \in SaveThreads, u # t, Saving(u)', call'[u].path = p
          PROVE  p \in shared'
      <3>1. Saving(u) /\ call[u].path = p
        BY <1>4, <2>1 DEF Saving
      <3>2. QED
        BY <1>1, <3>1
    <2>2. ASSUME NEW u \in SaveThreads, NEW v \in SaveThreads, Saving(u)', Saving(v)', call'[u].path = call'[v].path
          PROVE  u = v \/ call'[u].path \in shared'
      <3>1. CASE u = t
        BY <1>1, <1>5, <2>1, <2>2, <3>1
      <3>2. CASE v = t
        BY <1>1, <1>5, <2>1, <2>2, <3>2
      <3>3. CASE u # t /\ v # t
        BY <1>3, <1>4, <2>2, <3>3 DEF SavesInv, SharedIsKnown, Saving
      <3>4. QED
        BY <3>1, <3>2, <3>3
    <2>3. QED
      BY <2>2 DEF SharedIsKnown
  <1>10. CallsAreMeant'
    BY <1>1, <1>4, <1>5 DEF SavesInv, CallsAreMeant, Opened, Saving, InFolder
  <1>11. SaveGoesOn'
    BY <1>1, <1>2, <1>3, <1>4, <1>5 DEF SavesInv, SaveGoesOn, Opened
  <1>12. FilesAreKept'
    BY <1>2, <1>3 DEF SavesInv, FilesAreKept, FileIsKept
  <1>13. SizeIsKnown'
    BY <1>1, <1>2, <1>3, <1>4, <1>5 DEF SavesInv, SizeIsKnown
  <1>14. QED
    BY <1>6, <1>7, <1>8, <1>9, <1>10, <1>11, <1>12, <1>13 DEF SavesInv

\* A call that ends without a trace.
LEMMA CallEnds ==
    ASSUME SavesInv, NEW t \in SaveThreads, call' = [call EXCEPT ![t] = Idle],
           UNCHANGED <<file, temporary, bytes, unsynced, saved, shared, overlapped, calls>>
    PROVE  SavesInv'
  <1>1. CallMoves(t, Idle)
    BY CallMoved, IdleType DEF SavesInv, SaveFilesTypeOK
  <1>2. \A u \in SaveThreads : u # t => call'[u] = call[u]
    BY <1>1 DEF CallMoves
  <1>3. call'[t].pc = "idle"
    BY <1>1, IdleType DEF CallMoves
  <1>4. SaveFilesTypeOK'
    BY <1>1 DEF SavesInv, SaveFilesTypeOK, CallMoves
  <1>5. NamesDiffer' /\ FilesAreInTheFolder' /\ FilesAreKept'
    BY DEF SavesInv, NamesDiffer, FilesAreInTheFolder, FilesAreKept, FileIsKept
  <1>6. OpenByOwnName' /\ SharedIsKnown' /\ CallsAreMeant'
    BY <1>2, <1>3 DEF SavesInv, OpenByOwnName, SharedIsKnown, CallsAreMeant, Opened, Saving
  <1>7. SaveGoesOn' /\ SizeIsKnown'
    BY <1>2, <1>3 DEF SavesInv, SaveGoesOn, SizeIsKnown, Opened
  <1>8. QED
    BY <1>4, <1>5, <1>6, <1>7 DEF SavesInv

\* What a save opens belongs to its path, unless that is shared.
LEMMA OpensItsOwn ==
    ASSUME SavesInv, NEW t \in SaveThreads, call[t].pc = "checked", NEW i \in Inodes,
           i = temporary[call[t].path] \/ i \in Unused
    PROVE  /\ \A q \in Path : file[q] # i
           /\ \A q \in Path : q # call[t].path => temporary[q] # i
           /\ \A u \in SaveThreads : Opened(u) /\ call[u].inode = i => call[u].path = call[t].path
           /\ \A u \in SaveThreads : u # t /\ Saving(u) /\ call[u].path = call[t].path => call[t].path \in shared
           /\ \A u \in SaveThreads : call[u].pc = "sized" => call[u].inode # i
  <1> DEFINE p == call[t].path
  <1>1. p \in Path /\ i # NoInode
    BY SaveFilesAssumption DEF SavesInv, CallsAreMeant, Saving, NoInode
  <1>2. CASE i = temporary[p]
    <2>1. \A q \in Path : file[q] # i /\ (q # p => temporary[q] # i)
      BY <1>1, <1>2 DEF SavesInv, NamesDiffer
    <2>2. \A u \in SaveThreads : Opened(u) /\ call[u].inode = i => call[u].path = p
      BY <1>1, <1>2 DEF SavesInv, OpenByOwnName
    <2>3. \A u \in SaveThreads : u # t /\ Saving(u) /\ call[u].path = p => p \in shared
      BY DEF SavesInv, SharedIsKnown, Saving
    <2>4. \A u \in SaveThreads : call[u].pc = "sized" => call[u].inode # i
      BY <1>1, <1>2 DEF SavesInv, SizeIsKnown
    <2>5. QED
      BY <2>1, <2>2, <2>3, <2>4
  <1>3. CASE i \in Unused
    <2>1. \A q \in Path : file[q] # i /\ temporary[q] # i
      BY <1>3 DEF Unused, Named
    <2>2. \A u \in SaveThreads : call[u].inode # i
      BY <1>3 DEF Unused
    <2>3. \A u \in SaveThreads : u # t /\ Saving(u) /\ call[u].path = p => p \in shared
      BY DEF SavesInv, SharedIsKnown, Saving
    <2>4. QED
      BY <2>1, <2>2, <2>3
  <1>4. QED
    BY <1>2, <1>3

LEMMA OpenTemporaryKeeps ==
    ASSUME SavesInv, NEW t \in SaveThreads, OpenTemporary(t)
    PROVE  SavesInv'
  <1> DEFINE p == call[t].path
  <1>1. call[t].pc = "checked" /\ UNCHANGED <<file, calls, saved, shared, overlapped>>
    BY DEF OpenTemporary
  <1>2. p \in Path /\ InFolder(p) /\ call[t].text \in Texts /\ call[t].at = 0 /\ call[t] \in Call
    BY <1>1 DEF SavesInv, CallsAreMeant, Saving, SaveFilesTypeOK
  <1>3. CASE call' = [call EXCEPT ![t] = Idle] /\ UNCHANGED <<temporary, bytes, unsynced>>
    BY <1>1, <1>3, CallEnds
  <1>4. CASE \E i \in IF temporary[p] # NoInode THEN {temporary[p]} ELSE Unused :
               /\ temporary' = [temporary EXCEPT ![p] = i]
               /\ bytes' = [bytes EXCEPT ![i] = <<>>]
               /\ unsynced' = unsynced \cup {i}
               /\ call' = [call EXCEPT ![t].pc = "writing", ![t].inode = i]
    <2>1. PICK i \in IF temporary[p] # NoInode THEN {temporary[p]} ELSE Unused :
               /\ temporary' = [temporary EXCEPT ![p] = i]
               /\ bytes' = [bytes EXCEPT ![i] = <<>>]
               /\ unsynced' = unsynced \cup {i}
               /\ call' = [call EXCEPT ![t].pc = "writing", ![t].inode = i]
      BY <1>4
    <2>2. i \in Inodes /\ (i = temporary[p] \/ i \in Unused)
      BY <1>2, <2>1 DEF SavesInv, SaveFilesTypeOK, Unused
    <2>3. /\ \A q \in Path : file[q] # i
          /\ \A q \in Path : q # p => temporary[q] # i
          /\ \A u \in SaveThreads : Opened(u) /\ call[u].inode = i => call[u].path = p
          /\ \A u \in SaveThreads : u # t /\ Saving(u) /\ call[u].path = p => p \in shared
          /\ \A u \in SaveThreads : call[u].pc = "sized" => call[u].inode # i
      BY <1>1, <2>2, OpensItsOwn
    <2>4. PICK c : c = [call[t] EXCEPT !.pc = "writing", !.inode = i]
      OBVIOUS
    <2>5. c \in Call /\ c.pc = "writing" /\ c.path = p /\ c.text = call[t].text /\ c.inode = i /\ c.at = 0
      BY <1>2, <2>2, <2>4 DEF Call
    <2>6. call' = [call EXCEPT ![t] = c]
      BY <2>1, <2>4 DEF SavesInv, SaveFilesTypeOK
    <2>7. CallMoves(t, c)
      BY <2>5, <2>6, CallMoved DEF SavesInv, SaveFilesTypeOK
    <2>8. (\A u \in SaveThreads : u # t => call'[u] = call[u]) /\ call'[t] = c
      BY <2>7 DEF CallMoves
    <2>9. /\ temporary' \in [Path -> Inodes \cup {NoInode}] /\ bytes' \in [Inodes -> Seq(Texts \cup {NoText})]
          /\ temporary'[p] = i /\ \A q \in Path : q # p => temporary'[q] = temporary[q]
          /\ bytes'[i] = <<>> /\ \A j \in Inodes : j # i => bytes'[j] = bytes[j]
      BY <1>2, <2>1, <2>2 DEF SavesInv, SaveFilesTypeOK
    <2>10. unsynced' = unsynced \cup {i}
      BY <2>1
    <2> HIDE DEF p
    <2>11. SaveFilesTypeOK'
      <3>1. \A j \in Inodes : Len(bytes'[j]) <= 2
        BY <2>9 DEF SavesInv, SaveFilesTypeOK
      <3>2. QED
        BY <1>1, <2>2, <2>7, <2>9, <2>10, <3>1 DEF SavesInv, SaveFilesTypeOK, CallMoves
    <2>12. NamesDiffer' /\ FilesAreInTheFolder'
      BY <1>1, <1>2, <2>3, <2>9 DEF SavesInv, NamesDiffer, FilesAreInTheFolder, InFolder
    <2>13. OpenByOwnName'
      BY <1>1, <2>3, <2>5, <2>8, <2>9 DEF SavesInv, OpenByOwnName, Opened
    <2>14. SharedIsKnown' /\ CallsAreMeant'
      <3>1. \A u \in SaveThreads : (Saving(u)' <=> Saving(u)) /\ call'[u].path = call[u].path
        BY <1>1, <2>5, <2>8 DEF Saving, p
      <3>2. SharedIsKnown'
        BY <1>1, <3>1 DEF SavesInv, SharedIsKnown
      <3>3. CallsAreMeant'
        BY <1>2, <2>2, <2>5, <2>8, <3>1 DEF SavesInv, CallsAreMeant, Opened, InFolder
      <3>4. QED
        BY <3>2, <3>3
    <2>15. SaveGoesOn'
      <3>1. ASSUME NEW u \in SaveThreads, Opened(u)', call'[u].path \notin shared', u # t
            PROVE  /\ call'[u].inode = temporary'[call'[u].path]
                   /\ call'[u].ok => /\ call'[u].at <= Size(call'[u].text)
                                     /\ bytes'[call'[u].inode] = Prefix(call'[u].text, call'[u].at)
                   /\ call'[u].pc = "flushed" /\ call'[u].ok =>
                          call'[u].at = Size(call'[u].text) /\ call'[u].inode \notin unsynced'
        <4>1. call'[u] = call[u] /\ Opened(u) /\ call[u].path \notin shared /\ Saving(u)
          BY <1>1, <2>8, <3>1 DEF Opened, Saving
        <4>2. call[u].path \in Path /\ call[u].path # p /\ call[u].inode \in Inodes
          BY <1>1, <2>3, <3>1, <4>1 DEF SavesInv, CallsAreMeant
        <4>3. call[u].inode = temporary[call[u].path]
          BY <4>1 DEF SavesInv, SaveGoesOn
        <4>4. call[u].inode # i /\ temporary'[call[u].path] = temporary[call[u].path]
          BY <2>3, <2>9, <4>2, <4>3
        <4>5. bytes'[call[u].inode] = bytes[call[u].inode] /\ (call[u].inode \in unsynced' <=> call[u].inode \in unsynced)
          BY <2>9, <2>10, <4>2, <4>4
        <4>6. QED
          BY <4>1, <4>3, <4>4, <4>5 DEF SavesInv, SaveGoesOn
      <3>2. /\ call'[t].inode = temporary'[call'[t].path] /\ call'[t].pc = "writing"
            /\ call'[t].at <= Size(call'[t].text) /\ bytes'[call'[t].inode] = Prefix(call'[t].text, call'[t].at)
        <4>1. Prefix(c.text, 0) = <<>>
          BY DEF Prefix
        <4>2. c.at <= Size(c.text)
          BY <2>5, SizeType
        <4>3. QED
          BY <2>5, <2>8, <2>9, <4>1, <4>2
      <3>3. QED
        BY <3>1, <3>2 DEF SaveGoesOn
    <2>16. FilesAreKept'
      BY <1>1, <2>3, <2>9, <2>10 DEF SavesInv, FilesAreKept, FileIsKept
    <2>17. SizeIsKnown'
      <3>1. ASSUME NEW u \in SaveThreads, call'[u].pc = "sized"
            PROVE  /\ \A q \in Path : temporary'[q] # call'[u].inode
                   /\ call'[u].path \notin shared' /\ file'[call'[u].path] = call'[u].inode =>
                          call'[u].at = Len(bytes'[call'[u].inode])
        <4>1. call'[u] = call[u] /\ call[u].pc = "sized" /\ call[u].inode # i
          BY <2>3, <2>5, <2>8, <3>1
        <4>2. call[u].inode \in Inodes
          BY <4>1 DEF SavesInv, CallsAreMeant
        <4>3. QED
          BY <1>1, <2>9, <4>1, <4>2 DEF SavesInv, SizeIsKnown
      <3>2. QED
        BY <3>1 DEF SizeIsKnown
    <2>18. QED
      BY <2>11, <2>12, <2>13, <2>14, <2>15, <2>16, <2>17 DEF SavesInv
  <1>5. QED
    BY <1>3, <1>4 DEF OpenTemporary

LEMMA UpToTwo == \A n \in Nat : n <= 2 => n \in 0..2
  OBVIOUS

LEMMA PutFacts ==
    ASSUME NEW blocks \in Seq(Texts \cup {NoText}), Len(blocks) <= 2, NEW n \in 0..1, NEW text \in Texts
    PROVE  /\ Put(blocks, n + 1, text) \in Seq(Texts \cup {NoText}) /\ Len(Put(blocks, n + 1, text)) <= 2
           /\ blocks = Prefix(text, n) => Put(blocks, n + 1, text) = Prefix(text, n + 1)
  <1> DEFINE m == IF n + 1 > Len(blocks) THEN n + 1 ELSE Len(blocks)
             BlockAt(k) == IF k = n + 1 THEN text ELSE IF k > Len(blocks) THEN NoText ELSE blocks[k]
  <1>1. Len(blocks) \in Nat
    OBVIOUS
  <1>2. m \in 0..2
    <2>1. Len(blocks) \in 0..2
      BY <1>1, UpToTwo
    <2>3. n + 1 \in 0..2
      OBVIOUS
    <2>2. QED
      BY <2>1, <2>3
  <1>3. \A k \in 1..m : BlockAt(k) \in Texts \cup {NoText}
    <2>1. ASSUME NEW k \in 1..m, k # n + 1, ~(k > Len(blocks))
          PROVE  blocks[k] \in Texts \cup {NoText}
      <3>1. k \in 1..Len(blocks)
        BY <1>1, <1>2, <2>1
      <3>2. QED
        BY <3>1, ElementOfSeq
    <2>2. QED
      BY <2>1
  <1>4. Put(blocks, n + 1, text) = [k \in 1..m |-> BlockAt(k)]
    BY DEF Put
  <1>5. Put(blocks, n + 1, text) \in Seq(Texts \cup {NoText}) /\ Len(Put(blocks, n + 1, text)) <= 2
    <2> HIDE DEF m, BlockAt
    <2>1. m \in Nat
      BY <1>2
    <2>2. [k \in 1..m |-> BlockAt(k)] \in Seq(Texts \cup {NoText})
      BY <1>3, <2>1, IsASeq
    <2>3. Len([k \in 1..m |-> BlockAt(k)]) = m
      BY <2>1
    <2>4. QED
      BY <1>2, <1>4, <2>2, <2>3
  <1>6. ASSUME blocks = Prefix(text, n)
        PROVE  Put(blocks, n + 1, text) = Prefix(text, n + 1)
    <2>1. Len(blocks) = n /\ \A k \in 1..n : blocks[k] = text
      BY <1>6 DEF Prefix
    <2>2. m = n + 1
      BY <2>1
    <2>3. \A k \in 1..(n + 1) : BlockAt(k) = text
      <3>1. ASSUME NEW k \in 1..(n + 1), k # n + 1
            PROVE  k \in 1..n /\ ~(k > n)
        BY <3>1
      <3>2. QED
        BY <2>1, <3>1
    <2> HIDE DEF m, BlockAt
    <2>4. [k \in 1..m |-> BlockAt(k)] = [k \in 1..(n + 1) |-> text]
      BY <2>2, <2>3
    <2>5. QED
      BY <1>4, <2>4 DEF Prefix
  <1>7. QED
    BY <1>5, <1>6

\* What a save writes to is no file that is kept, nor another's own.
LEMMA WritesItsOwn ==
    ASSUME SavesInv, NEW t \in SaveThreads, Opened(t)
    PROVE  /\ \A q \in Path : q \notin shared => file[q] # call[t].inode
           /\ \A u \in SaveThreads : u # t /\ Opened(u) /\ call[u].path \notin shared => call[u].inode # call[t].inode
  <1> DEFINE i == call[t].inode
             p == call[t].path
  <1>1. i \in Inodes /\ p \in Path /\ Saving(t) /\ i # NoInode
    BY SaveFilesAssumption DEF SavesInv, CallsAreMeant, Opened, Saving, NoInode
  <1>2. ASSUME NEW q \in Path, q \notin shared, file[q] = i
        PROVE  FALSE
    <2>1. q = p
      BY <1>2 DEF SavesInv, OpenByOwnName
    <2>2. i = temporary[p]
      BY <1>2, <2>1 DEF SavesInv, SaveGoesOn
    <2>3. QED
      BY <1>1, <1>2, <2>2 DEF SavesInv, NamesDiffer
  <1>3. ASSUME NEW u \in SaveThreads, u # t, Opened(u), call[u].path \notin shared, call[u].inode = i
        PROVE  FALSE
    <2>1. Saving(u) /\ call[u].path \in Path
      BY <1>3 DEF SavesInv, CallsAreMeant, Opened, Saving
    <2>2. i = temporary[call[u].path]
      BY <1>3 DEF SavesInv, SaveGoesOn
    <2>3. call[u].path = p
      BY <2>1, <2>2 DEF SavesInv, OpenByOwnName
    <2>4. QED
      BY <1>1, <1>3, <2>1, <2>3 DEF SavesInv, SharedIsKnown
  <1>4. QED
    BY <1>2, <1>3

\* A step of an open save that writes at most to what it has open.
LEMMA OpenSaveSteps ==
    ASSUME SavesInv, NEW t \in SaveThreads, Opened(t), NEW c \in Call, CallMoves(t, c),
           UNCHANGED <<file, temporary, calls, saved, shared, overlapped>>,
           c.pc \in {"writing", "flushed"}, c.path = call[t].path, c.text = call[t].text, c.inode = call[t].inode,
           bytes' \in [Inodes -> Seq(Texts \cup {NoText})], unsynced' \subseteq Inodes,
           \A j \in Inodes : Len(bytes'[j]) <= 2,
           \A j \in Inodes : j # c.inode => bytes'[j] = bytes[j] /\ (j \in unsynced' => j \in unsynced),
           c.path \notin shared =>
               /\ c.ok => c.at <= Size(c.text) /\ bytes'[c.inode] = Prefix(c.text, c.at)
               /\ c.pc = "flushed" /\ c.ok => c.at = Size(c.text) /\ c.inode \notin unsynced'
    PROVE  SavesInv'
  <1>1. (\A u \in SaveThreads : u # t => call'[u] = call[u]) /\ call'[t] = c
    BY DEF CallMoves
  <1>2. /\ \A q \in Path : q \notin shared => file[q] # c.inode
        /\ \A u \in SaveThreads : u # t /\ Opened(u) /\ call[u].path \notin shared => call[u].inode # c.inode
    BY WritesItsOwn
  <1>3. SaveFilesTypeOK'
    BY DEF SavesInv, SaveFilesTypeOK, CallMoves
  <1>4. NamesDiffer' /\ FilesAreInTheFolder'
    BY DEF SavesInv, NamesDiffer, FilesAreInTheFolder
  <1>5. \A u \in SaveThreads : /\ Opened(u)' <=> Opened(u)
                               /\ Saving(u)' <=> Saving(u)
                               /\ call'[u].pc = "checked" <=> call[u].pc = "checked"
                               /\ call'[u].pc = "sized" <=> call[u].pc = "sized"
                               /\ call'[u].path = call[u].path /\ call'[u].inode = call[u].inode
                               /\ call'[u].text = call[u].text
    BY <1>1 DEF Opened, Saving
  <1>6. OpenByOwnName' /\ SharedIsKnown'
    BY <1>5 DEF SavesInv, OpenByOwnName, SharedIsKnown
  <1>7. CallsAreMeant'
    <2>1. ASSUME NEW u \in SaveThreads, call'[u].pc = "checked"
          PROVE  call'[u].at = 0
      <3>1. u # t
        BY <1>1, <2>1
      <3>2. QED
        BY <1>1, <2>1, <3>1 DEF SavesInv, CallsAreMeant
    <2>2. QED
      BY <1>5, <2>1 DEF SavesInv, CallsAreMeant, InFolder
  <1>8. SaveGoesOn'
    <2>1. ASSUME NEW u \in SaveThreads, Opened(u)', call'[u].path \notin shared', u # t
          PROVE  /\ call'[u].ok => /\ call'[u].at <= Size(call'[u].text)
                                   /\ bytes'[call'[u].inode] = Prefix(call'[u].text, call'[u].at)
                 /\ call'[u].pc = "flushed" /\ call'[u].ok =>
                        call'[u].at = Size(call'[u].text) /\ call'[u].inode \notin unsynced'
      <3>1. call'[u] = call[u] /\ Opened(u) /\ call[u].path \notin shared
        BY <1>1, <1>5, <2>1
      <3>2. call[u].inode \in Inodes /\ call[u].inode # c.inode
        BY <1>2, <2>1, <3>1 DEF SavesInv, CallsAreMeant
      <3>3. bytes'[call[u].inode] = bytes[call[u].inode] /\ (call[u].inode \in unsynced' => call[u].inode \in unsynced)
        BY <3>2
      <3>4. QED
        BY <3>1, <3>3 DEF SavesInv, SaveGoesOn
    <2>2. ASSUME NEW u \in SaveThreads, Opened(u)', call'[u].path \notin shared'
          PROVE  call'[u].inode = temporary'[call'[u].path]
      BY <1>5, <2>2 DEF SavesInv, SaveGoesOn
    <2>3. QED
      BY <1>1, <2>1, <2>2 DEF SaveGoesOn
  <1>9. FilesAreKept'
    BY <1>2 DEF SavesInv, FilesAreKept, FileIsKept
  <1>10. SizeIsKnown'
    <2>1. ASSUME NEW u \in SaveThreads, call'[u].pc = "sized"
          PROVE  /\ \A q \in Path : temporary'[q] # call'[u].inode
                 /\ call'[u].path \notin shared' /\ file'[call'[u].path] = call'[u].inode =>
                        call'[u].at = Len(bytes'[call'[u].inode])
      <3>1. call'[u] = call[u] /\ call[u].pc = "sized"
        BY <1>1, <2>1
      <3>2. call[u].inode \in Inodes /\ call[u].path \in Path
        BY <3>1 DEF SavesInv, CallsAreMeant
      <3>3. call[u].path \notin shared /\ file[call[u].path] = call[u].inode =>
                bytes'[call[u].inode] = bytes[call[u].inode]
        BY <1>2, <3>2
      <3>4. QED
        BY <3>1, <3>3 DEF SavesInv, SizeIsKnown
    <2>2. QED
      BY <2>1 DEF SizeIsKnown
  <1>11. QED
    BY <1>3, <1>4, <1>6, <1>7, <1>8, <1>9, <1>10 DEF SavesInv

LEMMA WriteBlockKeeps ==
    ASSUME SavesInv, NEW t \in SaveThreads, WriteBlock(t)
    PROVE  SavesInv'
  <1> DEFINE i == call[t].inode
             n == call[t].at
             text == call[t].text
  <1>1. /\ call[t].pc = "writing" /\ n < Size(text) /\ Opened(t)
        /\ UNCHANGED <<file, temporary, calls, saved, shared, overlapped>>
    BY DEF WriteBlock, Opened
  <1>2. call[t] \in Call /\ i \in Inodes /\ text \in Texts /\ n \in 0..1 /\ n + 1 \in 0..2 /\ n + 1 <= Size(text)
    <2>1. call[t] \in Call /\ i \in Inodes /\ text \in Texts
      BY <1>1 DEF SavesInv, CallsAreMeant, Opened, Saving, SaveFilesTypeOK
    <2>2. n \in 0..2
      BY <2>1 DEF Call
    <2>3. QED
      BY <1>1, <2>1, <2>2, SizeType
  <1>3. call[t].path \notin shared /\ call[t].ok => bytes[i] = Prefix(text, n)
    BY <1>1 DEF SavesInv, SaveGoesOn
  <1>4. bytes \in [Inodes -> Seq(Texts \cup {NoText})] /\ unsynced \subseteq Inodes /\ \A j \in Inodes : Len(bytes[j]) <= 2
    BY DEF SavesInv, SaveFilesTypeOK
  <1>5. CASE /\ bytes' = [bytes EXCEPT ![i] = Put(@, n + 1, text)]
             /\ unsynced' = unsynced \cup {i}
             /\ call' = [call EXCEPT ![t].at = @ + 1]
    <2>1. PICK c : c = [call[t] EXCEPT !.at = @ + 1]
      OBVIOUS
    <2>2. c \in Call /\ c.pc = "writing" /\ c.path = call[t].path /\ c.text = text /\ c.inode = i /\ c.at = n + 1
          /\ c.ok = call[t].ok
      BY <1>1, <1>2, <2>1 DEF Call
    <2>3. call' = [call EXCEPT ![t] = c]
      BY <1>5, <2>1 DEF SavesInv, SaveFilesTypeOK
    <2>4. CallMoves(t, c)
      BY <2>2, <2>3, CallMoved DEF SavesInv, SaveFilesTypeOK
    <2>5. /\ Put(bytes[i], n + 1, text) \in Seq(Texts \cup {NoText}) /\ Len(Put(bytes[i], n + 1, text)) <= 2
          /\ bytes[i] = Prefix(text, n) => Put(bytes[i], n + 1, text) = Prefix(text, n + 1)
      BY <1>2, <1>4, PutFacts
    <2>6. /\ bytes'[i] = Put(bytes[i], n + 1, text)
          /\ \A j \in Inodes : j # i => bytes'[j] = bytes[j]
          /\ bytes' \in [Inodes -> Seq(Texts \cup {NoText})]
      BY <1>2, <1>4, <1>5, <2>5
    <2> HIDE DEF i, n, text
    <2>7. \A j \in Inodes : Len(bytes'[j]) <= 2
      BY <1>4, <2>5, <2>6
    <2>8. unsynced' \subseteq Inodes /\ \A j \in Inodes : j # i => (j \in unsynced' => j \in unsynced)
      BY <1>2, <1>4, <1>5
    <2>9. c.path \notin shared =>
               /\ c.ok => c.at <= Size(c.text) /\ bytes'[c.inode] = Prefix(c.text, c.at)
               /\ c.pc = "flushed" /\ c.ok => c.at = Size(c.text) /\ c.inode \notin unsynced'
      BY <1>2, <1>3, <2>2, <2>5, <2>6
    <2>10. QED
      BY <1>1, <2>2, <2>4, <2>6, <2>7, <2>8, <2>9, OpenSaveSteps DEF i, text
  <1>6. CASE /\ call' = [call EXCEPT ![t].at = Size(text), ![t].ok = FALSE]
             /\ UNCHANGED <<bytes, unsynced>>
    <2>1. PICK c : c = [call[t] EXCEPT !.at = Size(text), !.ok = FALSE]
      OBVIOUS
    <2>2. Size(text) \in 0..2
      BY SizeType
    <2>3. c \in Call /\ c.pc = "writing" /\ c.path = call[t].path /\ c.text = text /\ c.inode = i /\ c.ok = FALSE
      BY <1>1, <1>2, <2>1, <2>2 DEF Call
    <2>4. call' = [call EXCEPT ![t] = c]
      BY <1>6, <2>1 DEF SavesInv, SaveFilesTypeOK
    <2>5. CallMoves(t, c)
      BY <2>3, <2>4, CallMoved DEF SavesInv, SaveFilesTypeOK
    <2>6. QED
      BY <1>1, <1>4, <1>6, <2>3, <2>5, OpenSaveSteps
  <1>7. QED
    BY <1>5, <1>6 DEF WriteBlock

LEMMA FlushKeeps ==
    ASSUME SavesInv, NEW t \in SaveThreads, Flush(t)
    PROVE  SavesInv'
  <1>1. /\ call[t].pc = "writing" /\ call[t].at = Size(call[t].text) /\ Opened(t)
        /\ UNCHANGED <<file, temporary, bytes, calls, saved, shared, overlapped>>
    BY DEF Flush, Opened
  <1>2. PICK ok \in {call[t].ok, FALSE} :
            /\ call' = [call EXCEPT ![t].pc = "flushed", ![t].ok = ok]
            /\ unsynced' = IF ok THEN unsynced \ {call[t].inode} ELSE unsynced
    BY DEF Flush
  <1>3. call[t] \in Call /\ call[t].inode \in Inodes
    BY <1>1 DEF SavesInv, CallsAreMeant, Opened, SaveFilesTypeOK
  <1>4. ok \in BOOLEAN
    BY <1>3 DEF Call
  <1>5. PICK c : c = [call[t] EXCEPT !.pc = "flushed", !.ok = ok]
    OBVIOUS
  <1>6. /\ c \in Call /\ c.pc = "flushed" /\ c.path = call[t].path /\ c.text = call[t].text
        /\ c.inode = call[t].inode /\ c.at = call[t].at /\ c.ok = ok
    BY <1>3, <1>4, <1>5 DEF Call
  <1>7. call' = [call EXCEPT ![t] = c]
    BY <1>2, <1>5 DEF SavesInv, SaveFilesTypeOK
  <1>8. CallMoves(t, c)
    BY <1>6, <1>7, CallMoved DEF SavesInv, SaveFilesTypeOK
  <1>9. bytes \in [Inodes -> Seq(Texts \cup {NoText})] /\ unsynced \subseteq Inodes /\ \A j \in Inodes : Len(bytes[j]) <= 2
    BY DEF SavesInv, SaveFilesTypeOK
  <1>10. unsynced' \subseteq unsynced /\ (ok = TRUE => c.inode \notin unsynced')
    BY <1>2, <1>6
  <1>11. c.path \notin shared =>
             /\ c.ok = TRUE => c.at <= Size(c.text) /\ bytes[c.inode] = Prefix(c.text, c.at)
             /\ c.pc = "flushed" /\ c.ok = TRUE => c.at = Size(c.text) /\ c.inode \notin unsynced'
    <2>1. ok = TRUE => call[t].ok = TRUE
      BY <1>2
    <2>2. call[t].path \notin shared /\ call[t].ok = TRUE =>
              call[t].at <= Size(call[t].text) /\ bytes[call[t].inode] = Prefix(call[t].text, call[t].at)
      BY <1>1 DEF SavesInv, SaveGoesOn
    <2>3. QED
      BY <1>1, <1>6, <1>10, <2>1, <2>2
  <1>12. QED
    BY <1>1, <1>4, <1>6, <1>8, <1>9, <1>10, <1>11, OpenSaveSteps

LEMMA RenameKeeps ==
    ASSUME SavesInv, NEW t \in SaveThreads, Rename(t)
    PROVE  SavesInv'
  <1>1. call[t].pc = "flushed" /\ Opened(t) /\ Saving(t) /\ UNCHANGED <<bytes, unsynced, calls, shared, overlapped>>
    BY DEF Rename, Opened, Saving
  <1>2. call[t].path \in Path /\ call[t].text \in Texts /\ InFolder(call[t].path)
    BY <1>1 DEF SavesInv, CallsAreMeant
  <1>0. PICK p \in Path : p = call[t].path
    BY <1>2
  <1>3. call' = [call EXCEPT ![t] = Idle]
    BY DEF Rename
  <1>4. CallMoves(t, Idle)
    BY <1>3, IdleType, CallMoved DEF SavesInv, SaveFilesTypeOK
  <1>5. (\A u \in SaveThreads : u # t => call'[u] = call[u]) /\ call'[t].pc = "idle"
    BY <1>4, IdleType DEF CallMoves
  <1>6. /\ temporary' \in [Path -> Inodes \cup {NoInode}] /\ temporary'[p] = NoInode
        /\ \A q \in Path : q # p => temporary'[q] = temporary[q]
    BY <1>0 DEF SavesInv, SaveFilesTypeOK, Rename
  \* Either the temporary takes the name, or nothing does.
  <1>7. \/ /\ call[t].ok = TRUE /\ temporary[p] # NoInode
           /\ file'[p] = temporary[p] /\ saved'[p] = call[t].text
        \/ file'[p] = file[p] /\ saved'[p] = saved[p]
    <2>1. \/ /\ call[t].ok /\ temporary[p] # NoInode
             /\ file' = [file EXCEPT ![p] = temporary[p]] /\ saved' = [saved EXCEPT ![p] = call[t].text]
          \/ UNCHANGED <<file, saved>>
      BY <1>0 DEF Rename, Commits
    <2>2. call[t].ok \in BOOLEAN
      <3>1. call[t] \in Call
        BY DEF SavesInv, SaveFilesTypeOK
      <3>2. QED
        BY <3>1 DEF Call
    <2>3. QED
      BY <1>2, <2>1, <2>2 DEF SavesInv, SaveFilesTypeOK
  <1>8. /\ file' \in [Path -> Inodes \cup {NoInode}] /\ saved' \in [Path -> Texts \cup {NoText}]
        /\ \A q \in Path : q # p => file'[q] = file[q] /\ saved'[q] = saved[q]
    <2>1. \/ /\ file' = [file EXCEPT ![p] = temporary[p]] /\ saved' = [saved EXCEPT ![p] = call[t].text]
          \/ UNCHANGED <<file, saved>>
      BY <1>0 DEF Rename
    <2>2. file \in [Path -> Inodes \cup {NoInode}] /\ saved \in [Path -> Texts \cup {NoText}]
          /\ temporary[p] \in Inodes \cup {NoInode}
      BY <1>2 DEF SavesInv, SaveFilesTypeOK
    <2>3. QED
      BY <1>2, <2>1, <2>2
  <1>9. SaveFilesTypeOK'
    BY <1>1, <1>4, <1>6, <1>8 DEF SavesInv, SaveFilesTypeOK, CallMoves
  <1>10. \A q \in Path : /\ temporary'[q] # NoInode => temporary'[q] = temporary[q]
                         /\ file'[q] # NoInode => file'[q] = file[q] \/ (q = p /\ file'[q] = temporary[q])
    BY <1>6, <1>7, <1>8
  <1>11. NamesDiffer'
    BY <1>2, <1>6, <1>10 DEF SavesInv, NamesDiffer
  <1>12. FilesAreInTheFolder'
    BY <1>0, <1>2, <1>10 DEF SavesInv, FilesAreInTheFolder, InFolder
  <1>13. OpenByOwnName'
    <2>1. ASSUME NEW u \in SaveThreads, Opened(u)', NEW q \in Path, call'[u].inode \in {file'[q], temporary'[q]}
          PROVE  q = call'[u].path
      <3>1. call'[u] = call[u] /\ Opened(u)
        BY <1>5, <2>1 DEF Opened
      <3>2. call[u].inode \in Inodes /\ call[u].inode # NoInode
        BY <3>1, SaveFilesAssumption DEF SavesInv, CallsAreMeant, NoInode
      <3>3. call[u].inode \in {file[q], temporary[q]}
        BY <1>10, <2>1, <3>1, <3>2
      <3>4. QED
        BY <3>1, <3>3 DEF SavesInv, OpenByOwnName
    <2>2. QED
      BY <2>1 DEF OpenByOwnName
  <1>14. SharedIsKnown' /\ CallsAreMeant'
    BY <1>1, <1>5 DEF SavesInv, SharedIsKnown, CallsAreMeant, Saving, Opened, InFolder
  <1>15. SaveGoesOn'
    <2>1. ASSUME NEW u \in SaveThreads, Opened(u)', call'[u].path \notin shared'
          PROVE  /\ call'[u] = call[u] /\ Opened(u) /\ call[u].path \notin shared
                 /\ temporary'[call[u].path] = temporary[call[u].path]
      <3>1. u # t
        BY <1>5, <2>1 DEF Opened
      <3>2. call'[u] = call[u] /\ Opened(u) /\ Saving(u) /\ call[u].path \notin shared
        BY <1>1, <1>5, <2>1, <3>1 DEF Opened, Saving
      <3>3. call[u].path \in Path
        BY <3>2 DEF SavesInv, CallsAreMeant
      <3>4. call[u].path # p
        BY <1>0, <1>1, <3>1, <3>2 DEF SavesInv, SharedIsKnown
      <3>5. QED
        BY <1>6, <3>2, <3>3, <3>4
    <2>2. QED
      BY <1>1, <2>1 DEF SavesInv, SaveGoesOn
  <1>16. FilesAreKept'
    <2>1. ASSUME NEW q \in Path, q \notin shared', q # p
          PROVE  FileIsKept(q)'
      BY <1>1, <1>8, <2>1 DEF SavesInv, FilesAreKept, FileIsKept
    <2>2. ASSUME p \notin shared'
          PROVE  FileIsKept(p)'
      <3>1. CASE file'[p] = file[p] /\ saved'[p] = saved[p]
        BY <1>1, <1>2, <2>2, <3>1 DEF SavesInv, FilesAreKept, FileIsKept
      <3>2. CASE call[t].ok = TRUE /\ temporary[p] # NoInode /\ file'[p] = temporary[p] /\ saved'[p] = call[t].text
        <4>1. /\ call[t].inode = temporary[p] /\ bytes[call[t].inode] = Prefix(call[t].text, Size(call[t].text))
              /\ call[t].inode \notin unsynced
          BY <1>0, <1>1, <2>2, <3>2 DEF SavesInv, SaveGoesOn
        <4>2. Prefix(call[t].text, Size(call[t].text)) = Whole(call[t].text)
          BY DEF Prefix, Whole
        <4>3. saved'[p] # NoText
          BY <1>2, <3>2, SaveFilesAssumption
        <4>4. temporary[p] \in Inodes
          BY <1>1, <4>1 DEF SavesInv, CallsAreMeant
        <4>5. QED
          BY <1>1, <3>2, <4>1, <4>2, <4>3, <4>4 DEF FileIsKept
      <3>3. QED
        BY <1>7, <3>1, <3>2
    <2>3. QED
      BY <2>1, <2>2 DEF FilesAreKept
  <1>17. SizeIsKnown'
    <2>1. ASSUME NEW u \in SaveThreads, call'[u].pc = "sized"
          PROVE  /\ \A q \in Path : temporary'[q] # call'[u].inode
                 /\ call'[u].path \notin shared' /\ file'[call'[u].path] = call'[u].inode =>
                        call'[u].at = Len(bytes'[call'[u].inode])
      <3>1. call'[u] = call[u] /\ call[u].pc = "sized"
        BY <1>5, <2>1
      <3>2. call[u].inode \in Inodes /\ call[u].inode # NoInode /\ call[u].path \in Path
        BY <3>1, SaveFilesAssumption DEF SavesInv, CallsAreMeant, NoInode
      <3>3. \A q \in Path : temporary[q] # call[u].inode
        BY <3>1 DEF SavesInv, SizeIsKnown
      <3>4. \A q \in Path : temporary'[q] # call[u].inode
        BY <1>10, <3>2, <3>3
      <3>5. file'[call[u].path] = call[u].inode => file[call[u].path] = call[u].inode
        BY <1>10, <3>2, <3>3
      <3>6. QED
        BY <1>1, <3>1, <3>4, <3>5 DEF SavesInv, SizeIsKnown
    <2>2. QED
      BY <2>1 DEF SizeIsKnown
  <1>18. QED
    BY <1>9, <1>11, <1>12, <1>13, <1>14, <1>15, <1>16, <1>17 DEF SavesInv

LEMMA DeleteSaveFileKeeps ==
    ASSUME SavesInv, NEW t \in SaveThreads, NEW r \in Requests, DeleteSaveFile(t, r)
    PROVE  SavesInv'
  <1>1. UNCHANGED <<temporary, bytes, unsynced, call, shared, overlapped>> /\ calls' \in 0..MaxCalls
    <2>1. calls \in 0..MaxCalls /\ calls < MaxCalls /\ calls' = calls + 1
      BY DEF DeleteSaveFile, Calls, SavesInv, SaveFilesTypeOK
    <2>2. QED
      BY <2>1, BoundedCount DEF DeleteSaveFile
  <1>2. PICK p \in Path : p = Resolve(Folder \o r)
    BY DEF Path
  <1>3. file' = [file EXCEPT ![p] = NoInode] /\ saved' = [saved EXCEPT ![p] = NoText]
    BY <1>2 DEF DeleteSaveFile
  <1>4. /\ file' \in [Path -> Inodes \cup {NoInode}] /\ saved' \in [Path -> Texts \cup {NoText}]
        /\ file'[p] = NoInode /\ saved'[p] = NoText
        /\ \A q \in Path : q # p => file'[q] = file[q] /\ saved'[q] = saved[q]
    BY <1>2, <1>3 DEF SavesInv, SaveFilesTypeOK
  <1>5. SaveFilesTypeOK'
    BY <1>1, <1>4 DEF SavesInv, SaveFilesTypeOK
  <1>6. \A q \in Path : file'[q] # NoInode => file'[q] = file[q]
    BY <1>4
  <1>7. NamesDiffer' /\ FilesAreInTheFolder'
    BY <1>1, <1>4, <1>6 DEF SavesInv, NamesDiffer, FilesAreInTheFolder
  <1>8. \A i \in Inodes : i # NoInode
    BY SaveFilesAssumption DEF NoInode
  <1>9. SharedIsKnown' /\ CallsAreMeant' /\ SaveGoesOn'
    BY <1>1 DEF SavesInv, SharedIsKnown, CallsAreMeant, SaveGoesOn, Saving, Opened, InFolder
  <1>10. OpenByOwnName'
    <2>1. ASSUME NEW u \in SaveThreads, Opened(u)', NEW q \in Path, call'[u].inode \in {file'[q], temporary'[q]}
          PROVE  q = call'[u].path
      <3>1. call'[u] = call[u] /\ Opened(u) /\ call[u].inode \in Inodes
        BY <1>1, <2>1 DEF SavesInv, CallsAreMeant, Opened
      <3>2. call[u].inode \in {file[q], temporary[q]}
        BY <1>1, <1>6, <1>8, <2>1, <3>1
      <3>3. QED
        BY <3>1, <3>2 DEF SavesInv, OpenByOwnName
    <2>2. QED
      BY <2>1 DEF OpenByOwnName
  <1>11. FilesAreKept'
    BY <1>1, <1>4 DEF SavesInv, FilesAreKept, FileIsKept
  <1>12. SizeIsKnown'
    <2>1. ASSUME NEW u \in SaveThreads, call[u].pc = "sized", file'[call[u].path] = call[u].inode
          PROVE  file[call[u].path] = call[u].inode
      <3>1. call[u].inode \in Inodes /\ call[u].path \in Path
        BY <2>1 DEF SavesInv, CallsAreMeant
      <3>2. QED
        BY <1>6, <1>8, <2>1, <3>1
    <2>2. QED
      BY <1>1, <2>1 DEF SavesInv, SizeIsKnown
  <1>13. QED
    BY <1>5, <1>7, <1>9, <1>10, <1>11, <1>12 DEF SavesInv

LEMMA SizeFileKeeps ==
    ASSUME SavesInv, NEW t \in SaveThreads, NEW r \in Requests, SizeFile(t, r)
    PROVE  SavesInv'
  <1>1. UNCHANGED <<file, temporary, bytes, unsynced, saved, shared, overlapped>> /\ calls' \in 0..MaxCalls
        /\ call[t].pc = "idle"
    <2>1. calls \in 0..MaxCalls /\ calls < MaxCalls /\ calls' = calls + 1 /\ call[t] = Idle
      BY DEF SizeFile, Calls, SavesInv, SaveFilesTypeOK
    <2>2. QED
      BY <2>1, BoundedCount, IdleType DEF SizeFile, NoUse
  <1>2. PICK p \in Path : p = Resolve(Folder \o r)
    BY DEF Path
  <1>3. PICK i \in Inodes : i = file[p] /\ i # NoInode
    BY <1>2 DEF SizeFile, SavesInv, SaveFilesTypeOK
  <1>4. PICK n \in 0..2 : n = Len(bytes[i])
    <2>1. bytes[i] \in Seq(Texts \cup {NoText}) /\ Len(bytes[i]) <= 2
      BY DEF SavesInv, SaveFilesTypeOK
    <2>2. Len(bytes[i]) \in Nat
      BY <2>1
    <2>3. Len(bytes[i]) \in 0..2
      BY <2>1, <2>2, UpToTwo
    <2>4. QED
      BY <2>3
  <1>5. SizeOf(file[p]) = n
    BY <1>3, <1>4 DEF SizeOf
  <1>6. PICK b \in Call : b = Idle
    BY IdleType
  <1>7. PICK c : c = [b EXCEPT !.pc = "sized", !.path = p, !.inode = i, !.at = n]
    OBVIOUS
  <1>8. c \in Call /\ c.pc = "sized" /\ c.path = p /\ c.inode = i /\ c.at = n
    BY <1>7 DEF Call
  <1>9. call' = [call EXCEPT ![t] = c]
    BY <1>2, <1>3, <1>5, <1>6, <1>7, Zenon DEF SizeFile
  <1>10. CallMoves(t, c)
    BY <1>8, <1>9, CallMoved DEF SavesInv, SaveFilesTypeOK
  <1>11. (\A u \in SaveThreads : u # t => call'[u] = call[u]) /\ call'[t] = c
    BY <1>10 DEF CallMoves
  <1>12. SaveFilesTypeOK'
    BY <1>1, <1>10 DEF SavesInv, SaveFilesTypeOK, CallMoves
  <1>13. NamesDiffer' /\ FilesAreInTheFolder' /\ FilesAreKept'
    BY <1>1 DEF SavesInv, NamesDiffer, FilesAreInTheFolder, FilesAreKept, FileIsKept
  <1>14. OpenByOwnName' /\ SharedIsKnown' /\ CallsAreMeant'
    BY <1>1, <1>8, <1>11 DEF SavesInv, OpenByOwnName, SharedIsKnown, CallsAreMeant, Opened, Saving, InFolder
  <1>15. SaveGoesOn'
    BY <1>1, <1>8, <1>11 DEF SavesInv, SaveGoesOn, Opened
  <1>16. SizeIsKnown'
    <2>1. \A q \in Path : temporary[q] # i
      BY <1>2, <1>3 DEF SavesInv, NamesDiffer
    <2>2. QED
      BY <1>1, <1>4, <1>8, <1>11, <2>1 DEF SavesInv, SizeIsKnown
  <1>17. QED
    BY <1>12, <1>13, <1>14, <1>15, <1>16 DEF SavesInv

LEMMA StopKeeps ==
    ASSUME SavesInv, Stop
    PROVE  SavesInv'
  <1>1. PICK lost \in SUBSET unsynced : bytes' = [i \in Inodes |-> IF i \in lost THEN <<>> ELSE bytes[i]]
    BY DEF Stop
  <1>2. /\ unsynced' = {} /\ call' = [t \in SaveThreads |-> Idle]
        /\ UNCHANGED <<file, temporary, calls, saved, shared, overlapped>>
    BY DEF Stop
  <1>3. bytes' \in [Inodes -> Seq(Texts \cup {NoText})] /\ \A i \in Inodes : Len(bytes'[i]) <= 2
    <2>1. bytes \in [Inodes -> Seq(Texts \cup {NoText})] /\ \A i \in Inodes : Len(bytes[i]) <= 2
      BY DEF SavesInv, SaveFilesTypeOK
    <2>2. <<>> \in Seq(Texts \cup {NoText}) /\ Len(<<>>) <= 2
      OBVIOUS
    <2>3. QED
      BY <1>1, <2>1, <2>2
  <1>4. call' \in [SaveThreads -> Call] /\ \A t \in SaveThreads : call'[t].pc = "idle"
    BY <1>2, IdleType
  <1>5. SaveFilesTypeOK'
    BY <1>2, <1>3, <1>4 DEF SavesInv, SaveFilesTypeOK
  <1>6. NamesDiffer' /\ FilesAreInTheFolder'
    BY <1>2 DEF SavesInv, NamesDiffer, FilesAreInTheFolder
  <1>7. OpenByOwnName' /\ SharedIsKnown' /\ CallsAreMeant' /\ SaveGoesOn' /\ SizeIsKnown'
    BY <1>4 DEF OpenByOwnName, SharedIsKnown, CallsAreMeant, SaveGoesOn, SizeIsKnown, Opened, Saving
  <1>8. FilesAreKept'
    BY <1>1, <1>2 DEF SavesInv, FilesAreKept, FileIsKept
  <1>9. QED
    BY <1>5, <1>6, <1>7, <1>8 DEF SavesInv

LEMMA SavesInvStep ==
    ASSUME SavesInv, SaveFilesNext
    PROVE  SavesInv'
  <1>1. ASSUME NEW t \in SaveThreads, ReadFile(t)
        PROVE  SavesInv'
    <2>1. UNCHANGED <<file, temporary, bytes, unsynced, saved, shared, overlapped, calls>>
      BY <1>1 DEF ReadFile, NoUse
    <2>2. call' = [call EXCEPT ![t] = Idle]
      BY <1>1 DEF ReadFile
    <2>3. QED
      BY <2>1, <2>2, CallEnds
  <1>2. QED
    BY <1>1, SaveFileKeeps, DeleteSaveFileKeeps, SizeFileKeeps, OpenTemporaryKeeps, WriteBlockKeeps, FlushKeeps,
       RenameKeeps, StopKeeps DEF SaveFilesNext

LEMMA SavesInvFrame ==
    ASSUME SavesInv, UNCHANGED saveVars
    PROVE  SavesInv'
  <1>1. UNCHANGED <<file, temporary, bytes, unsynced, call, calls, saved, shared, overlapped>>
    BY DEF saveVars
  <1>2. SaveFilesTypeOK'
    BY <1>1 DEF SavesInv, SaveFilesTypeOK
  <1>3. NamesDiffer' /\ FilesAreInTheFolder' /\ FilesAreKept'
    BY <1>1 DEF SavesInv, NamesDiffer, FilesAreInTheFolder, FilesAreKept, FileIsKept
  <1>4. OpenByOwnName' /\ SharedIsKnown' /\ CallsAreMeant' /\ SaveGoesOn' /\ SizeIsKnown'
    BY <1>1 DEF SavesInv, OpenByOwnName, SharedIsKnown, CallsAreMeant, SaveGoesOn, SizeIsKnown, Opened, Saving, InFolder
  <1>5. QED
    BY <1>2, <1>3, <1>4 DEF SavesInv

LEMMA SavesInvInit ==
    ASSUME SaveFilesInit
    PROVE  SavesInv
  <1>1. /\ file = [p \in Path |-> NoInode] /\ temporary = [p \in Path |-> NoInode]
        /\ bytes = [i \in Inodes |-> <<>>] /\ unsynced = {}
        /\ call = [t \in SaveThreads |-> Idle] /\ calls = 0
        /\ saved = [p \in Path |-> NoText] /\ shared = {} /\ overlapped = FALSE
    BY DEF SaveFilesInit
  <1>2. call \in [SaveThreads -> Call] /\ \A t \in SaveThreads : call[t].pc = "idle"
    BY <1>1, IdleType
  <1>3. SaveFilesTypeOK
    <2>1. bytes \in [Inodes -> Seq(Texts \cup {NoText})] /\ \A i \in Inodes : Len(bytes[i]) <= 2
      BY <1>1
    <2>2. calls \in 0..MaxCalls
      <3>1. MaxCalls \in Nat
        BY SaveFilesAssumption
      <3>2. QED
        BY <1>1, <3>1
    <2>3. QED
      BY <1>1, <1>2, <2>1, <2>2 DEF SaveFilesTypeOK
  <1>4. NamesDiffer /\ FilesAreInTheFolder /\ FilesAreKept
    BY <1>1 DEF NamesDiffer, FilesAreInTheFolder, FilesAreKept, FileIsKept
  <1>5. OpenByOwnName /\ SharedIsKnown /\ CallsAreMeant /\ SaveGoesOn /\ SizeIsKnown
    BY <1>2 DEF OpenByOwnName, SharedIsKnown, CallsAreMeant, SaveGoesOn, SizeIsKnown, Opened, Saving
  <1>6. QED
    BY <1>3, <1>4, <1>5 DEF SavesInv

LEMMA SavesPart ==
    /\ FilesInit => SavesInv
    /\ SavesInv /\ [FilesNext]_filesVars => SavesInv'
  <1>1. FilesInit => SavesInv
    BY SavesInvInit DEF FilesInit
  <1>2. ASSUME SavesInv, [FilesNext]_filesVars
        PROVE  SavesInv'
    <2>1. SaveFilesNext \/ UNCHANGED saveVars
      BY <1>2 DEF FilesNext, filesVars
    <2>2. QED
      BY <1>2, <2>1, SavesInvStep, SavesInvFrame
  <1>3. QED
    BY <1>1, <1>2

\* A load that succeeds is the text last saved, unless the file was replaced
\* between its two opens (LoadFile).
THEOREM LoadsAreWholeAlways == FilesSpec => LoadsAreWhole
  <1>1. SavesInv => \A t \in SaveThreads :
            ReadFile(t) /\ Loads(t) /\ call[t].path \notin shared /\ file[call[t].path] = call[t].inode
                => Contents(t) = Whole(saved[call[t].path])
    <2>1. SUFFICES ASSUME SavesInv, NEW t \in SaveThreads, ReadFile(t), call[t].path \notin shared,
                          file[call[t].path] = call[t].inode
                   PROVE  Contents(t) = Whole(saved[call[t].path])
      OBVIOUS
    <2> DEFINE p == call[t].path
    <2>2. call[t].pc = "sized" /\ p \in Path /\ call[t].inode \in Inodes /\ call[t].inode # NoInode
      BY <2>1, SaveFilesAssumption DEF SavesInv, CallsAreMeant, ReadFile, NoInode
    <2>3. call[t].at = Len(bytes[file[p]])
      BY <2>1, <2>2 DEF SavesInv, SizeIsKnown
    <2>4. bytes[file[p]] = Whole(saved[p])
      BY <2>1, <2>2 DEF SavesInv, FilesAreKept, FileIsKept
    <2>5. bytes[file[p]] \in Seq(Texts \cup {NoText})
      BY <2>1, <2>2 DEF SavesInv, SaveFilesTypeOK
    <2>6. SubSeq(bytes[file[p]], 1, Len(bytes[file[p]])) = bytes[file[p]]
      BY <2>5, SubSeqFull
    <2>7. QED
      BY <2>3, <2>4, <2>6 DEF Contents, Now
  <1>2. SavesInv /\ [FilesNext]_filesVars =>
            [\A t \in SaveThreads :
                ReadFile(t) /\ Loads(t) /\ call[t].path \notin shared /\ file[call[t].path] = call[t].inode
                    => Contents(t) = Whole(saved[call[t].path])]_saveVars
    BY <1>1
  <1>3. QED
    BY <1>2, SavesPart, PTL DEF FilesSpec, LoadsAreWhole

-----------------------------------------------------------------------------
(* How much a folder holds, in blocks.                                      *)
AllBlocks(size) == {b \in Below \X (1..2) : b[2] <= size[b[1]]}
KeptBlocks(size, skip) == {b \in AllBlocks(size) : ~Skips(b[1], skip)}
OtherBlocks(size, p) == {b \in AllBlocks(size) : b[1] # p}

\* A text to be saved to p has room beside all files but the one p replaces.
Room(sizes, spare, p, text) ==
    Cardinality(KeptBlocks(sizes, Last(p))) + Cardinality(OtherBlocks(spare, p)) + Size(text) <= MaxSaveFolderSize
Bounded(sizes, spare) ==
    /\ Cardinality(AllBlocks(sizes)) + Cardinality(AllBlocks(spare)) <= 2 * MaxSaveFolderSize
    /\ \A p \in Below : Len(p) = 2 => sizes[p] <= MaxSaveFolderSize

LEMMA PathType == Path \subseteq Seq(STRING \cup {"mod"})
  <1>1. ASSUME NEW r \in Requests
        PROVE  Resolve(Folder \o r) \in Seq(STRING \cup {"mod"})
    <2>1. r \in Seq(STRING \cup {"mod"})
      <3>1. r \in Seq(STRING)
        BY SaveFilesAssumption
      <3>2. QED
        BY <3>1
    <2>2. Folder \in Seq(STRING \cup {"mod"})
      BY DEF Folder
    <2>3. Folder \o r \in Seq(STRING \cup {"mod"})
      BY <2>1, <2>2
    <2>4. PICK walk \in [0..Len(Folder \o r) -> Seq(STRING \cup {"mod"})] : Resolve(Folder \o r) = walk[Len(Folder \o r)]
      BY <2>3, ResolveIsAWalk
    <2>5. Len(Folder \o r) \in 0..Len(Folder \o r)
      BY <2>3
    <2>6. QED
      BY <2>4, <2>5
  <1>2. QED
    BY <1>1 DEF Path

LEMMA SmallIntervals == \A n \in 0..2 : IsFiniteSet(1..n) /\ Cardinality(1..n) = n
  <1>1. ASSUME NEW n \in 0..2
        PROVE  IsFiniteSet(1..n) /\ Cardinality(1..n) = n
    <2>1. n \in Int /\ 1 \in Int /\ (1 > n => n = 0)
      OBVIOUS
    <2>2. IsFiniteSet(1..n) /\ Cardinality(1..n) = IF 1 > n THEN 0 ELSE n - 1 + 1
      BY <2>1, FS_Interval
    <2>3. QED
      BY <2>1, <2>2
  <1>2. QED
    BY <1>1

LEMMA BelowIsFinite == IsFiniteSet(Below) /\ IsFiniteSet(Below \X (1..2))
  <1> DEFINE f == [r \in Requests |-> Resolve(Folder \o r)]
  <1>1. f \in Surjection(Requests, Path)
    BY DEF Surjection, Path
  <1>2. IsFiniteSet(Requests)
    BY SaveFilesAssumption
  <1>3. IsFiniteSet(Path)
    BY <1>1, <1>2, FS_Surjection
  <1>4. Below \in SUBSET Path
    BY DEF Below
  <1>5. IsFiniteSet(Below)
    BY <1>3, <1>4, FS_Subset
  <1>6. IsFiniteSet(1..2)
    BY SmallIntervals
  <1>7. QED
    BY <1>5, <1>6, FS_Product

\* A part of the blocks counts no more than the whole.
LEMMA Fewer ==
    ASSUME NEW A, NEW B, A \subseteq B, B \subseteq Below \X (1..2)
    PROVE  /\ IsFiniteSet(A) /\ IsFiniteSet(B)
           /\ Cardinality(A) \in Nat /\ Cardinality(B) \in Nat /\ Cardinality(A) <= Cardinality(B)
  <1>1. B \in SUBSET (Below \X (1..2)) /\ A \in SUBSET B
    OBVIOUS
  <1>2. IsFiniteSet(B)
    BY <1>1, BelowIsFinite, FS_Subset
  <1>3. IsFiniteSet(A) /\ Cardinality(A) <= Cardinality(B)
    BY <1>1, <1>2, FS_Subset
  <1>4. QED
    BY <1>2, <1>3, FS_CardinalityType

\* The blocks of one path.
BlocksOf(p, n) == {p} \X (1..n)
LEMMA OnePath ==
    ASSUME NEW p \in Below, NEW n \in 0..2
    PROVE  /\ BlocksOf(p, n) \subseteq Below \X (1..2) /\ IsFiniteSet(BlocksOf(p, n))
           /\ Cardinality(BlocksOf(p, n)) = n
  <1>1. IsFiniteSet({p}) /\ Cardinality({p}) = 1
    BY FS_Singleton
  <1>2. IsFiniteSet(1..n) /\ Cardinality(1..n) = n
    BY SmallIntervals
  <1>3. IsFiniteSet(BlocksOf(p, n)) /\ Cardinality(BlocksOf(p, n)) = 1 * n
    BY <1>1, <1>2, FS_Product DEF BlocksOf
  <1>4. BlocksOf(p, n) \subseteq Below \X (1..2)
    <2>1. \A k \in 1..n : k \in 1..2
      OBVIOUS
    <2>2. QED
      BY <2>1 DEF BlocksOf
  <1>5. QED
    BY <1>3, <1>4

\* Blocks and one path's more are no more than the sum.
LEMMA AtMostTheSum ==
    ASSUME NEW A, NEW B, B \subseteq Below \X (1..2), NEW p \in Below, NEW n \in 0..2, A \subseteq B \cup BlocksOf(p, n)
    PROVE  Cardinality(A) \in Nat /\ Cardinality(B) \in Nat /\ Cardinality(A) <= Cardinality(B) + n
  <1>1. IsFiniteSet(B) /\ Cardinality(B) \in Nat
    BY Fewer
  <1>2. IsFiniteSet(BlocksOf(p, n)) /\ Cardinality(BlocksOf(p, n)) = n /\ BlocksOf(p, n) \subseteq Below \X (1..2)
    BY OnePath
  <1>3. Cardinality(B \cup BlocksOf(p, n)) = Cardinality(B) + n - Cardinality(B \cap BlocksOf(p, n))
    BY <1>1, <1>2, FS_Union
  <1>4. Cardinality(B \cap BlocksOf(p, n)) \in Nat
    <2>1. B \cap BlocksOf(p, n) \subseteq B
      OBVIOUS
    <2>2. QED
      BY <2>1, Fewer
  <1>5. Cardinality(A) \in Nat /\ Cardinality(A) <= Cardinality(B \cup BlocksOf(p, n))
    <2>1. B \cup BlocksOf(p, n) \subseteq Below \X (1..2)
      BY <1>2
    <2>2. QED
      BY <2>1, Fewer
  <1>6. QED
    BY <1>1, <1>3, <1>4, <1>5

\* All blocks are those of the other paths and one path's own.
LEMMA OneAndTheOthers ==
    ASSUME NEW size \in [Below -> 0..2], NEW p \in Below
    PROVE  /\ Cardinality(AllBlocks(size)) \in Nat /\ Cardinality(OtherBlocks(size, p)) \in Nat
           /\ Cardinality(AllBlocks(size)) = Cardinality(OtherBlocks(size, p)) + size[p]
  <1> DEFINE own == BlocksOf(p, size[p])
             others == OtherBlocks(size, p)
  <1>1. own \subseteq Below \X (1..2) /\ IsFiniteSet(own) /\ Cardinality(own) = size[p] /\ size[p] \in 0..2
    BY OnePath
  <1>2. others \subseteq Below \X (1..2)
    BY DEF OtherBlocks, AllBlocks
  <1>3. AllBlocks(size) = others \cup own
    <2>1. ASSUME NEW b \in Below \X (1..2)
          PROVE  b \in AllBlocks(size) <=> b \in others \cup own
      <3>1. b = <<b[1], b[2]>> /\ b[1] \in Below /\ b[2] \in 1..2
        OBVIOUS
      <3>2. b \in AllBlocks(size) <=> b[2] <= size[b[1]]
        BY DEF AllBlocks
      <3>3. b \in others <=> b[2] <= size[b[1]] /\ b[1] # p
        BY DEF AllBlocks, OtherBlocks
      <3>4. b \in own <=> b[1] = p /\ b[2] <= size[p]
        BY <1>1, <3>1 DEF BlocksOf
      <3>5. QED
        BY <3>2, <3>3, <3>4
    <2>2. AllBlocks(size) \subseteq Below \X (1..2)
      BY DEF AllBlocks
    <2>3. others \cup own \subseteq Below \X (1..2)
      BY <1>1, <1>2
    <2> HIDE DEF others, own
    <2>4. QED
      BY <2>1, <2>2, <2>3
  <1>4. others \cap own = {}
    BY DEF OtherBlocks, BlocksOf
  <1>5. IsFiniteSet(others) /\ Cardinality(others) \in Nat
    <2> HIDE DEF others
    <2>1. QED
      BY <1>2, Fewer
  <1>6. Cardinality(others \cup own) = Cardinality(others) + Cardinality(own) - Cardinality(others \cap own)
    <2> HIDE DEF others, own
    <2>1. QED
      BY <1>1, <1>5, FS_Union
  <1>7. Cardinality(others \cap own) = 0
    BY <1>4, FS_EmptySet
  <1> HIDE DEF others, own
  <1>8. QED
    BY <1>1, <1>3, <1>5, <1>6, <1>7 DEF others

Sizes == [Below -> 0..2]
Smaller(size, than) == \A p \in Below : size[p] <= than[p]

\* What holds less is bounded if what holds more is.
LEMMA LessIsBounded ==
    ASSUME NEW f \in Sizes, NEW g \in Sizes, NEW f1 \in Sizes, NEW g1 \in Sizes, Smaller(f1, f), Smaller(g1, g)
    PROVE  /\ Bounded(f, g) => Bounded(f1, g1)
           /\ \A p \in Below, text \in Texts : Room(f, g, p, text) => Room(f1, g1, p, text)
  <1>0. MaxSaveFolderSize \in Nat
    BY SaveFilesAssumption
  <1>1. ASSUME NEW a \in Sizes, NEW b \in Sizes, Smaller(a, b)
        PROVE  AllBlocks(a) \subseteq AllBlocks(b)
    <2>1. ASSUME NEW k \in Below \X (1..2), k[2] <= a[k[1]]
          PROVE  k[2] <= b[k[1]]
      <3>1. k[1] \in Below /\ k[2] \in 1..2
        OBVIOUS
      <3>2. a[k[1]] \in 0..2 /\ b[k[1]] \in 0..2 /\ a[k[1]] <= b[k[1]]
        BY <1>1, <3>1 DEF Sizes, Smaller
      <3>3. QED
        BY <2>1, <3>1, <3>2
    <2>2. QED
      BY <2>1 DEF AllBlocks
  <1>2. AllBlocks(f1) \subseteq AllBlocks(f) /\ AllBlocks(g1) \subseteq AllBlocks(g)
    BY <1>1
  <1>3. AllBlocks(f) \subseteq Below \X (1..2) /\ AllBlocks(g) \subseteq Below \X (1..2)
    BY DEF AllBlocks
  <1>4. ASSUME Bounded(f, g)
        PROVE  Bounded(f1, g1)
    <2>1. /\ Cardinality(AllBlocks(f1)) \in Nat /\ Cardinality(AllBlocks(f1)) <= Cardinality(AllBlocks(f))
          /\ Cardinality(AllBlocks(g1)) \in Nat /\ Cardinality(AllBlocks(g1)) <= Cardinality(AllBlocks(g))
          /\ Cardinality(AllBlocks(f)) \in Nat /\ Cardinality(AllBlocks(g)) \in Nat
      BY <1>2, <1>3, Fewer
    <2>2. Cardinality(AllBlocks(f1)) + Cardinality(AllBlocks(g1)) <= 2 * MaxSaveFolderSize
      BY <1>0, <1>4, <2>1 DEF Bounded
    <2>3. \A p \in Below : Len(p) = 2 => f1[p] <= MaxSaveFolderSize
      <3>1. ASSUME NEW p \in Below, Len(p) = 2
            PROVE  f1[p] <= MaxSaveFolderSize
        <4>1. f1[p] \in 0..2 /\ f[p] \in 0..2 /\ f1[p] <= f[p]
          BY DEF Sizes, Smaller
        <4>2. f[p] <= MaxSaveFolderSize
          BY <1>4, <3>1 DEF Bounded
        <4>3. QED
          BY <1>0, <4>1, <4>2
      <3>2. QED
        BY <3>1
    <2>4. QED
      BY <2>2, <2>3 DEF Bounded
  <1>5. ASSUME NEW p \in Below, NEW text \in Texts, Room(f, g, p, text)
        PROVE  Room(f1, g1, p, text)
    <2>1. KeptBlocks(f1, Last(p)) \subseteq KeptBlocks(f, Last(p)) /\ OtherBlocks(g1, p) \subseteq OtherBlocks(g, p)
      BY <1>2 DEF KeptBlocks, OtherBlocks
    <2>2. KeptBlocks(f, Last(p)) \subseteq Below \X (1..2) /\ OtherBlocks(g, p) \subseteq Below \X (1..2)
      BY <1>3 DEF KeptBlocks, OtherBlocks
    <2>3. /\ Cardinality(KeptBlocks(f1, Last(p))) \in Nat
          /\ Cardinality(KeptBlocks(f1, Last(p))) <= Cardinality(KeptBlocks(f, Last(p)))
          /\ Cardinality(OtherBlocks(g1, p)) \in Nat /\ Cardinality(OtherBlocks(g1, p)) <= Cardinality(OtherBlocks(g, p))
          /\ Cardinality(KeptBlocks(f, Last(p))) \in Nat /\ Cardinality(OtherBlocks(g, p)) \in Nat
      BY <2>1, <2>2, Fewer
    <2>4. Size(text) \in 1..2
      BY SizeType
    <2>5. QED
      BY <1>0, <1>5, <2>3, <2>4 DEF Room
  <1>6. QED
    BY <1>4, <1>5

\* The files that the check leaves out are one, in the folder itself.
LEMMA OneIsSkipped ==
    ASSUME FilesAlone, NEW p \in Below, Last(p) \in AllowedLeaves, NEW f \in Sizes
    PROVE  \/ AllBlocks(f) \subseteq KeptBlocks(f, Last(p))
           \/ \E q \in Below : Len(q) = 2 /\ AllBlocks(f) \subseteq KeptBlocks(f, Last(p)) \cup BlocksOf(q, f[q])
  <1> DEFINE Top == {q \in Below : Len(q) = 2 /\ q[2] = Last(p)}
  <1>1. \A q \in Below : q[2] = Last(p) => q \in Top
    <2>1. ASSUME NEW q \in Below, q[2] = Last(p)
          PROVE  Len(q) = 2
      <3>1. ~(Len(q) > 2)
        BY <2>1 DEF FilesAlone
      <3>2. Len(q) \in Nat /\ Len(q) > 1
        <4>1. q \in Seq(STRING \cup {"mod"})
          BY PathType DEF Below
        <4>2. QED
          BY <4>1 DEF Below
      <3>3. \A n \in Nat : n > 1 /\ ~(n > 2) => n = 2
        OBVIOUS
      <3>4. QED
        BY <3>1, <3>2, <3>3, Zenon
    <2>2. QED
      BY <2>1
  <1>2. \A q, s \in Top : q = s
    <2>1. ASSUME NEW q \in Top, NEW s \in Top
          PROVE  q = s
      <3>1. q \in Seq(STRING \cup {"mod"}) /\ s \in Seq(STRING \cup {"mod"})
        BY PathType DEF Below
      <3>2. Len(q) = 2 /\ Len(s) = 2 /\ q[1] = s[1] /\ q[2] = s[2]
        BY DEF Below
      <3>3. \A i \in 1..Len(q) : q[i] = s[i]
        <4>1. \A i \in 1..2 : i = 1 \/ i = 2
          OBVIOUS
        <4>2. QED
          BY <3>2, <4>1
      <3> HIDE DEF Top
      <3>4. QED
        BY <3>1, <3>2, <3>3, SeqEqual
    <2>2. QED
      BY <2>1
  <1>3. CASE Top = {}
    <2>1. AllBlocks(f) \subseteq KeptBlocks(f, Last(p))
      BY <1>1, <1>3 DEF AllBlocks, KeptBlocks, Skips
    <2>2. QED
      BY <2>1
  <1>4. CASE Top # {}
    <2>1. PICK q \in Top : TRUE
      BY <1>4
    <2>2. q \in Below /\ Len(q) = 2
      BY <2>1
    <2>3. ASSUME NEW b \in AllBlocks(f), b \notin KeptBlocks(f, Last(p))
          PROVE  b \in BlocksOf(q, f[q])
      <3>1. b = <<b[1], b[2]>> /\ b[1] \in Below /\ b[2] \in 1..2 /\ b[2] <= f[b[1]]
        BY <2>3 DEF AllBlocks
      <3>2. b[1][2] = Last(p)
        BY <2>3 DEF KeptBlocks, Skips
      <3>3. b[1] = q
        <4>1. b[1] \in Top
          BY <1>1, <3>1, <3>2
        <4> HIDE DEF Top
        <4>2. QED
          BY <1>2, <2>1, <4>1
      <3>4. f[q] \in 0..2
        BY <2>2 DEF Sizes
      <3>5. QED
        BY <3>1, <3>3, <3>4 DEF BlocksOf
    <2>4. QED
      BY <2>2, <2>3
  <1>5. QED
    BY <1>3, <1>4

\* Where there is room for a text, a temporary no longer than it is bounded.
LEMMA RoomIsBound ==
    ASSUME FilesAlone, NEW p \in Below, Last(p) \in AllowedLeaves, NEW text \in Texts,
           NEW f \in Sizes, NEW g \in Sizes, NEW g1 \in Sizes,
           \A q \in Below : q # p => g1[q] = g[q], g1[p] <= Size(text),
           Room(f, g, p, text), \A q \in Below : Len(q) = 2 => f[q] <= MaxSaveFolderSize
    PROVE  Bounded(f, g1) /\ Room(f, g1, p, text)
  <1>0. MaxSaveFolderSize \in Nat /\ Size(text) \in 1..2
    BY SaveFilesAssumption, SizeType
  <1> DEFINE kept == KeptBlocks(f, Last(p))
             others == OtherBlocks(g, p)
  <1>1. OtherBlocks(g1, p) = others
    <2>1. ASSUME NEW b \in Below \X (1..2), b[1] # p
          PROVE  b[2] <= g1[b[1]] <=> b[2] <= g[b[1]]
      <3>1. b[1] \in Below
        OBVIOUS
      <3>2. QED
        BY <2>1, <3>1
    <2>2. QED
      BY <2>1 DEF OtherBlocks, AllBlocks
  <1>2. kept \subseteq Below \X (1..2) /\ others \subseteq Below \X (1..2)
    BY DEF KeptBlocks, OtherBlocks, AllBlocks
  <1>3. Cardinality(kept) \in Nat /\ Cardinality(others) \in Nat
    <2> HIDE DEF kept, others
    <2>1. QED
      BY <1>2, Fewer
  <1>4. Room(f, g1, p, text)
    BY <1>1 DEF Room
  <1>5. Cardinality(AllBlocks(f)) \in Nat /\ Cardinality(AllBlocks(f)) <= Cardinality(kept) + MaxSaveFolderSize
    <2>1. CASE AllBlocks(f) \subseteq kept
      <3> HIDE DEF kept
      <3>1. Cardinality(AllBlocks(f)) \in Nat /\ Cardinality(AllBlocks(f)) <= Cardinality(kept)
        BY <1>2, <2>1, Fewer
      <3>2. QED
        BY <1>0, <1>3, <3>1
    <2>2. CASE \E q \in Below : Len(q) = 2 /\ AllBlocks(f) \subseteq kept \cup BlocksOf(q, f[q])
      <3>1. PICK q \in Below : Len(q) = 2 /\ AllBlocks(f) \subseteq kept \cup BlocksOf(q, f[q])
        BY <2>2
      <3>2. f[q] \in 0..2 /\ f[q] <= MaxSaveFolderSize
        BY <3>1 DEF Sizes
      <3> HIDE DEF kept
      <3>3. Cardinality(AllBlocks(f)) \in Nat /\ Cardinality(AllBlocks(f)) <= Cardinality(kept) + f[q]
        BY <1>2, <3>1, <3>2, AtMostTheSum
      <3>4. QED
        BY <1>0, <1>3, <3>2, <3>3
    <2>3. QED
      BY <2>1, <2>2, OneIsSkipped
  <1>6. Cardinality(AllBlocks(g1)) \in Nat /\ Cardinality(AllBlocks(g1)) <= Cardinality(others) + Size(text)
    <2>1. Cardinality(AllBlocks(g1)) \in Nat /\ Cardinality(AllBlocks(g1)) = Cardinality(OtherBlocks(g1, p)) + g1[p]
      BY OneAndTheOthers DEF Sizes
    <2>2. g1[p] \in 0..2
      BY DEF Sizes
    <2> HIDE DEF others
    <2>3. QED
      BY <1>0, <1>1, <1>3, <2>1, <2>2
  <1>7. Cardinality(kept) + Cardinality(others) + Size(text) <= MaxSaveFolderSize
    BY DEF Room
  <1>8. Cardinality(AllBlocks(f)) + Cardinality(AllBlocks(g1)) <= 2 * MaxSaveFolderSize
    <2> HIDE DEF kept, others
    <2>1. QED
      BY <1>0, <1>3, <1>5, <1>6, <1>7
  <1>9. QED
    BY <1>4, <1>8 DEF Bounded

\* A temporary that takes its file's name leaves no more than there was.
LEMMA RenameIsBounded ==
    ASSUME NEW p \in Below, NEW f \in Sizes, NEW g \in Sizes, NEW f1 \in Sizes, NEW g1 \in Sizes,
           \A q \in Below : q # p => f1[q] = f[q] /\ g1[q] = g[q], f1[p] = g[p], g1[p] = 0,
           Bounded(f, g), g[p] <= MaxSaveFolderSize
    PROVE  Bounded(f1, g1)
  <1>0. MaxSaveFolderSize \in Nat
    BY SaveFilesAssumption
  <1>1. OtherBlocks(f1, p) = OtherBlocks(f, p) /\ OtherBlocks(g1, p) = OtherBlocks(g, p)
    <2>1. ASSUME NEW b \in Below \X (1..2), b[1] # p
          PROVE  (b[2] <= f1[b[1]] <=> b[2] <= f[b[1]]) /\ (b[2] <= g1[b[1]] <=> b[2] <= g[b[1]])
      <3>1. b[1] \in Below
        OBVIOUS
      <3>2. QED
        BY <2>1, <3>1
    <2>2. QED
      BY <2>1 DEF OtherBlocks, AllBlocks
  <1>2. /\ Cardinality(AllBlocks(f)) = Cardinality(OtherBlocks(f, p)) + f[p]
        /\ Cardinality(AllBlocks(g)) = Cardinality(OtherBlocks(g, p)) + g[p]
        /\ Cardinality(AllBlocks(f1)) = Cardinality(OtherBlocks(f1, p)) + f1[p]
        /\ Cardinality(AllBlocks(g1)) = Cardinality(OtherBlocks(g1, p)) + g1[p]
        /\ Cardinality(OtherBlocks(f, p)) \in Nat /\ Cardinality(OtherBlocks(g, p)) \in Nat
    BY OneAndTheOthers DEF Sizes
  <1>3. f[p] \in 0..2 /\ g[p] \in 0..2
    BY DEF Sizes
  <1>4. Cardinality(AllBlocks(f1)) + Cardinality(AllBlocks(g1)) <= 2 * MaxSaveFolderSize
    BY <1>0, <1>1, <1>2, <1>3 DEF Bounded
  <1>5. \A q \in Below : Len(q) = 2 => f1[q] <= MaxSaveFolderSize
    BY DEF Bounded
  <1>6. QED
    BY <1>4, <1>5 DEF Bounded

\* The sizes of the files that names refer to.
SizesOf(names, b) == [p \in Below |-> IF names[p] = NoInode THEN 0 ELSE Len(b[names[p]])]
FileSizes == SizesOf(file, bytes)
TemporarySizes == SizesOf(temporary, bytes)

\* While no two saves overlap, the one under way has room for its text, and
\* its temporary holds no more than that.
FolderInv ==
    FilesAlone /\ overlapped = FALSE =>
        /\ shared = {} /\ \A t, u \in SaveThreads : Saving(t) /\ Saving(u) => t = u
        /\ Bounded(FileSizes, TemporarySizes)
        /\ \A t \in SaveThreads : Saving(t) => Room(FileSizes, TemporarySizes, call[t].path, call[t].text)
        /\ \A t \in SaveThreads : Opened(t) => TemporarySizes[call[t].path] <= Size(call[t].text)

NameTables == [Path -> Inodes \cup {NoInode}]
Blocks == {b \in [Inodes -> Seq(Texts \cup {NoText})] : \A i \in Inodes : Len(b[i]) <= 2}

LEMMA SizesType ==
    ASSUME NEW names \in NameTables, NEW b \in Blocks
    PROVE  SizesOf(names, b) \in Sizes
  <1>1. ASSUME NEW i \in Inodes
        PROVE  Len(b[i]) \in 0..2
    <2>1. b[i] \in Seq(Texts \cup {NoText}) /\ Len(b[i]) <= 2
      BY DEF Blocks
    <2>2. Len(b[i]) \in Nat
      BY <2>1
    <2>3. QED
      BY <2>1, <2>2, UpToTwo
  <1>2. \A p \in Below : names[p] # NoInode => names[p] \in Inodes
    BY DEF NameTables, Below
  <1>3. QED
    BY <1>1, <1>2 DEF SizesOf, Sizes

\* NameTables that are dropped, or whose inode is emptied, hold less.
LEMMA DroppedOrEmptied ==
    ASSUME NEW names \in NameTables, NEW b \in Blocks, NEW names1 \in NameTables, NEW b1 \in Blocks,
           \A p \in Path : \/ names1[p] = NoInode \/ b1[names1[p]] = <<>>
                           \/ names1[p] = names[p] /\ b1[names[p]] = b[names[p]]
    PROVE  Smaller(SizesOf(names1, b1), SizesOf(names, b))
  <1>1. ASSUME NEW p \in Below
        PROVE  SizesOf(names1, b1)[p] <= SizesOf(names, b)[p]
    <2>1. p \in Path
      BY DEF Below
    <2>2. SizesOf(names1, b1)[p] \in 0..2 /\ SizesOf(names, b)[p] \in 0..2
      BY SizesType DEF Sizes
    <2>3. SizesOf(names1, b1)[p] = 0 \/ SizesOf(names1, b1)[p] = SizesOf(names, b)[p]
      BY <2>1 DEF SizesOf
    <2>4. QED
      BY <2>2, <2>3
  <1>2. QED
    BY <1>1 DEF Smaller

LEMMA SavesAreTyped == SavesInv => file \in NameTables /\ temporary \in NameTables /\ bytes \in Blocks
  BY DEF SavesInv, SaveFilesTypeOK, NameTables, Blocks

\* A step that begins no save and after which files hold no more.
LEMMA FolderShrinks ==
    ASSUME SavesInv, SavesInv', FolderInv, UNCHANGED <<shared, overlapped>>,
           \A p \in Path : \/ file'[p] = NoInode \/ bytes'[file'[p]] = <<>>
                           \/ file'[p] = file[p] /\ bytes'[file[p]] = bytes[file[p]],
           \A p \in Path : \/ temporary'[p] = NoInode \/ bytes'[temporary'[p]] = <<>>
                           \/ temporary'[p] = temporary[p] /\ bytes'[temporary[p]] = bytes[temporary[p]],
           \A u \in SaveThreads : Saving(u)' =>
               /\ Saving(u) /\ call'[u].path = call[u].path /\ call'[u].text = call[u].text
               /\ Opened(u)' => Opened(u) \/ bytes'[temporary'[call[u].path]] = <<>>
    PROVE  FolderInv'
  <1>1. /\ file \in NameTables /\ temporary \in NameTables /\ bytes \in Blocks
        /\ file' \in NameTables /\ temporary' \in NameTables /\ bytes' \in Blocks
    BY SavesAreTyped DEF SavesInv, SaveFilesTypeOK, NameTables, Blocks
  <1>2. PICK f \in Sizes, g \in Sizes, f1 \in Sizes, g1 \in Sizes :
            f = FileSizes /\ g = TemporarySizes /\ f1 = FileSizes' /\ g1 = TemporarySizes'
    BY <1>1, SizesType DEF FileSizes, TemporarySizes
  <1>3. Smaller(f1, f) /\ Smaller(g1, g)
    BY <1>1, <1>2, DroppedOrEmptied DEF FileSizes, TemporarySizes
  <1>4. SUFFICES ASSUME FilesAlone, overlapped = FALSE
                 PROVE  /\ shared' = {} /\ \A t, u \in SaveThreads : Saving(t)' /\ Saving(u)' => t = u
                        /\ Bounded(f1, g1)
                        /\ \A t \in SaveThreads : Saving(t)' => Room(f1, g1, call'[t].path, call'[t].text)
                        /\ \A t \in SaveThreads : Opened(t)' => g1[call'[t].path] <= Size(call'[t].text)
    BY <1>2 DEF FolderInv, Room, Bounded, AllBlocks, KeptBlocks, OtherBlocks
  <1>5. /\ shared = {} /\ \A t, u \in SaveThreads : Saving(t) /\ Saving(u) => t = u
        /\ Bounded(f, g)
        /\ \A t \in SaveThreads : Saving(t) => Room(f, g, call[t].path, call[t].text)
        /\ \A t \in SaveThreads : Opened(t) => g[call[t].path] <= Size(call[t].text)
    BY <1>2, <1>4 DEF FolderInv
  <1>6. \A t \in SaveThreads : Saving(t) => call[t].path \in Below /\ call[t].text \in Texts
    BY DEF SavesInv, CallsAreMeant, InFolder
  <1>7. Bounded(f1, g1) /\ \A t \in SaveThreads : Saving(t)' => Room(f1, g1, call'[t].path, call'[t].text)
    BY <1>3, <1>5, <1>6, LessIsBounded
  <1>8. ASSUME NEW t \in SaveThreads, Opened(t)'
        PROVE  g1[call'[t].path] <= Size(call'[t].text)
    <2>1. Saving(t)' /\ Saving(t) /\ call'[t].path = call[t].path /\ call'[t].text = call[t].text
      BY <1>8 DEF Opened, Saving
    <2>2. call[t].path \in Below /\ Size(call[t].text) \in 1..2
      BY <1>6, <2>1, SizeType
    <2>3. g[call[t].path] \in 0..2 /\ g1[call[t].path] \in 0..2 /\ g1[call[t].path] <= g[call[t].path]
      BY <1>3, <2>2 DEF Sizes, Smaller
    <2>4. CASE Opened(t)
      BY <1>5, <2>1, <2>2, <2>3, <2>4
    <2>5. CASE bytes'[temporary'[call[t].path]] = <<>>
      <3>1. g1[call[t].path] = 0
        BY <1>2, <2>2, <2>5 DEF TemporarySizes, SizesOf
      <3>2. QED
        BY <2>1, <2>2, <3>1
    <2>6. QED
      BY <1>8, <2>1, <2>4, <2>5
  <1>9. QED
    BY <1>5, <1>7, <1>8

\* A save begins only when what it leaves is within the cap.
LEMMA SaveFileHasRoom ==
    ASSUME SavesInv, SavesInv', FolderInv, NEW t \in SaveThreads, NEW r \in Requests, NEW text \in Texts,
           SaveFile(t, r, text)
    PROVE  FolderInv'
  <1>1. PICK c \in Call, p \in Path : Begins(t, text, c, p) /\ p = Resolve(Folder \o r)
    BY SaveFileFacts
  <1>2. /\ c.pc = "checked" /\ c.path = p /\ c.text = text /\ InFolder(p)
        /\ call'[t] = c /\ (\A u \in SaveThreads : u # t => call'[u] = call[u]) /\ call[t].pc = "idle"
    BY <1>1 DEF Begins, CallMoves
  <1>3. UNCHANGED <<file, temporary, bytes>> /\ (overlapped' = (overlapped \/ \E u \in SaveThreads : Saving(u)))
    BY DEF SaveFile
  <1>4. Last(p) = Last(r) /\ Last(p) \in AllowedLeaves /\ p \in Below
    BY <1>1, <1>2, SafePathsStayInside DEF SaveFile, SaveExtensionAllowed, InFolder
  <1>5. PICK f \in Sizes, g \in Sizes : f = FileSizes /\ g = TemporarySizes /\ f = FileSizes' /\ g = TemporarySizes'
    BY <1>3, SizesType, SavesAreTyped DEF FileSizes, TemporarySizes
  <1>6. SUFFICES ASSUME FilesAlone, overlapped' = FALSE
                 PROVE  /\ shared' = {} /\ \A u, v \in SaveThreads : Saving(u)' /\ Saving(v)' => u = v
                        /\ Bounded(f, g)
                        /\ \A u \in SaveThreads : Saving(u)' => Room(f, g, call'[u].path, call'[u].text)
                        /\ \A u \in SaveThreads : Opened(u)' => g[call'[u].path] <= Size(call'[u].text)
    BY <1>5 DEF FolderInv, Room, Bounded, AllBlocks, KeptBlocks, OtherBlocks
  <1>7. overlapped = FALSE /\ \A u \in SaveThreads : ~Saving(u)
    BY <1>3, <1>6 DEF SavesInv, SaveFilesTypeOK
  <1>8. \A u \in SaveThreads : (Saving(u)' => u = t) /\ ~Opened(u)'
    BY <1>2, <1>7 DEF Saving, Opened
  <1>9. shared' = {} /\ Bounded(f, g)
    BY <1>1, <1>5, <1>6, <1>7 DEF FolderInv, Begins
  <1>10. Room(f, g, p, text)
    <2>1. FileBlocks(Last(p)) = KeptBlocks(f, Last(p))
      BY <1>5 DEF FileBlocks, KeptBlocks, AllBlocks, FileSizes, SizesOf, SizeOf
    <2>2. OtherBlocks(g, p) \subseteq TemporaryBlocks(Last(p))
      <3>1. ASSUME NEW q \in Below, Skips(q, Last(p))
            PROVE  Len(q) = 2
        <4>1. ~(Len(q) > 2)
          BY <1>4, <1>6, <3>1 DEF FilesAlone, Skips
        <4>2. Len(q) \in Nat /\ Len(q) > 1
          <5>1. q \in Seq(STRING \cup {"mod"})
            BY PathType DEF Below
          <5>2. QED
            BY <5>1 DEF Below
        <4>3. \A n \in Nat : n > 1 /\ ~(n > 2) => n = 2
          OBVIOUS
        <4>4. QED
          BY <4>1, <4>2, <4>3, Zenon
      <3>2. QED
        BY <1>5, <3>1 DEF TemporaryBlocks, OtherBlocks, AllBlocks, TemporarySizes, SizesOf, SizeOf
    <2>3. TemporaryBlocks(Last(p)) \subseteq Below \X (1..2) /\ KeptBlocks(f, Last(p)) \subseteq Below \X (1..2)
      BY DEF TemporaryBlocks, KeptBlocks, AllBlocks
    <2>4. /\ Cardinality(OtherBlocks(g, p)) \in Nat /\ Cardinality(TemporaryBlocks(Last(p))) \in Nat
          /\ Cardinality(OtherBlocks(g, p)) <= Cardinality(TemporaryBlocks(Last(p)))
      BY <2>2, <2>3, Fewer
    <2>5. Cardinality(KeptBlocks(f, Last(p))) \in Nat
      BY <2>3, Fewer
    <2>6. FolderSize(Last(p)) + Size(text) <= MaxSaveFolderSize
      BY <1>4 DEF SaveFile
    <2>7. MaxSaveFolderSize \in Nat /\ Size(text) \in 1..2
      BY SaveFilesAssumption, SizeType
    <2>8. QED
      BY <2>1, <2>4, <2>5, <2>6, <2>7 DEF Room, FolderSize
  <1>11. QED
    BY <1>2, <1>8, <1>9, <1>10

LEMMA PutLength ==
    ASSUME NEW blocks, Len(blocks) \in Nat, NEW n \in Nat, NEW text
    PROVE  Len(Put(blocks, n, text)) = IF n > Len(blocks) THEN n ELSE Len(blocks)
  <1> DEFINE m == IF n > Len(blocks) THEN n ELSE Len(blocks)
  <1>1. m \in Nat
    OBVIOUS
  <1>2. Put(blocks, n, text) = [k \in 1..m |-> IF k = n THEN text ELSE IF k > Len(blocks) THEN NoText ELSE blocks[k]]
    BY DEF Put
  <1> HIDE DEF m
  <1>3. Len(Put(blocks, n, text)) = m
    BY <1>1, <1>2
  <1>4. QED
    BY <1>3 DEF m

\* Only the temporary of the save under way is written, and not beyond its text.
LEMMA WritesWithinItsRoom ==
    ASSUME SavesInv, SavesInv', FolderInv, NEW t \in SaveThreads, WriteBlock(t)
    PROVE  FolderInv'
  <1>1. /\ call[t].pc = "writing" /\ call[t].at < Size(call[t].text) /\ Opened(t) /\ Saving(t)
        /\ UNCHANGED <<file, temporary, calls, saved, shared, overlapped>>
    BY DEF WriteBlock, Opened, Saving
  <1>2. PICK i \in Inodes, n \in 0..1, text \in Texts, p \in Path :
            i = call[t].inode /\ n = call[t].at /\ text = call[t].text /\ p = call[t].path
    <2>1. call[t] \in Call /\ call[t].inode \in Inodes /\ call[t].text \in Texts /\ call[t].path \in Path
      BY <1>1 DEF SavesInv, CallsAreMeant, Opened, Saving, SaveFilesTypeOK
    <2>2. call[t].at \in 0..2 /\ Size(call[t].text) \in 1..2
      BY <2>1, SizeType DEF Call
    <2>3. call[t].at \in 0..1
      BY <1>1, <2>2
    <2>4. QED
      BY <2>1, <2>3
  <1>3. call \in [SaveThreads -> Call] /\ bytes \in Blocks /\ file \in NameTables /\ temporary \in NameTables
    BY SavesAreTyped DEF SavesInv, SaveFilesTypeOK
  <1>4. /\ \A u \in SaveThreads : u # t => call'[u] = call[u]
        /\ call'[t].pc = "writing" /\ call'[t].path = p /\ call'[t].text = text
    BY <1>1, <1>2, <1>3 DEF WriteBlock, Call
  <1>5. \A u \in SaveThreads : /\ Saving(u)' <=> Saving(u)
                               /\ Opened(u)' <=> Opened(u)
                               /\ call'[u].path = call[u].path /\ call'[u].text = call[u].text
    BY <1>1, <1>2, <1>4 DEF Saving, Opened
  <1>6. CASE UNCHANGED bytes
    BY <1>1, <1>5, <1>6, FolderShrinks
  <1>7. CASE bytes' = [bytes EXCEPT ![i] = Put(@, n + 1, text)]
    <2>1. bytes' \in Blocks
      BY DEF SavesInv, SaveFilesTypeOK, Blocks
    <2>2. PICK f \in Sizes, g \in Sizes, f1 \in Sizes, g1 \in Sizes :
              f = FileSizes /\ g = TemporarySizes /\ f1 = FileSizes' /\ g1 = TemporarySizes'
      BY <1>1, <1>3, <2>1, SizesType DEF FileSizes, TemporarySizes
    <2>3. SUFFICES ASSUME FilesAlone, overlapped = FALSE
                   PROVE  /\ shared' = {} /\ \A u, v \in SaveThreads : Saving(u)' /\ Saving(v)' => u = v
                          /\ Bounded(f1, g1)
                          /\ \A u \in SaveThreads : Saving(u)' => Room(f1, g1, call'[u].path, call'[u].text)
                          /\ \A u \in SaveThreads : Opened(u)' => g1[call'[u].path] <= Size(call'[u].text)
      BY <1>1, <2>2 DEF FolderInv, Room, Bounded, AllBlocks, KeptBlocks, OtherBlocks
    <2>4. /\ shared = {} /\ \A u, v \in SaveThreads : Saving(u) /\ Saving(v) => u = v
          /\ Bounded(f, g) /\ Room(f, g, p, text) /\ g[p] <= Size(text)
      BY <1>1, <1>2, <2>2, <2>3 DEF FolderInv
    <2>5. p \in Below /\ Last(p) \in AllowedLeaves
      BY <1>1, <1>2 DEF SavesInv, CallsAreMeant, InFolder
    <2>6. i = temporary[p] /\ i # NoInode
      BY <1>1, <1>2, <2>4, SaveFilesAssumption DEF SavesInv, SaveGoesOn, NoInode
    <2>7. \A q \in Path : file[q] # i /\ (q # p => temporary[q] # i)
      BY <2>6 DEF SavesInv, NamesDiffer
    <2>8. \A j \in Inodes : j # i => bytes'[j] = bytes[j]
      BY <1>7, <1>3 DEF Blocks
    <2>9. f1 = f /\ \A q \in Below : q # p => g1[q] = g[q]
      <3>1. \A q \in Below : q \in Path /\ (file[q] = NoInode \/ file[q] \in Inodes)
                                       /\ (temporary[q] = NoInode \/ temporary[q] \in Inodes)
        BY <1>3 DEF NameTables, Below
      <3>2. \A q \in Below : file[q] # NoInode => bytes'[file[q]] = bytes[file[q]]
        BY <2>7, <2>8, <3>1
      <3>3. \A q \in Below : q # p /\ temporary[q] # NoInode => bytes'[temporary[q]] = bytes[temporary[q]]
        BY <2>7, <2>8, <3>1
      <3>4. f1 = f
        BY <1>1, <2>2, <3>2 DEF FileSizes, SizesOf
      <3>5. \A q \in Below : q # p => g1[q] = g[q]
        BY <1>1, <2>2, <3>3 DEF TemporarySizes, SizesOf
      <3>6. QED
        BY <3>4, <3>5
    <2>10. g1[p] <= Size(text)
      <3>1. g[p] = Len(bytes[i]) /\ g1[p] = Len(bytes'[i]) /\ g[p] \in 0..2
        BY <1>1, <2>2, <2>5, <2>6 DEF TemporarySizes, SizesOf, Sizes
      <3>2. bytes'[i] = Put(bytes[i], n + 1, text)
        BY <1>3, <1>7 DEF Blocks
      <3>3. Len(bytes[i]) \in Nat /\ n + 1 \in Nat
        BY <3>1
      <3>4. Len(bytes'[i]) = IF n + 1 > Len(bytes[i]) THEN n + 1 ELSE Len(bytes[i])
        BY <3>2, <3>3, PutLength
      <3>5. Size(text) \in 1..2 /\ n < Size(text)
        BY <1>1, <1>2, SizeType
      <3>6. QED
        BY <2>4, <3>1, <3>3, <3>4, <3>5
    <2>11. Bounded(f1, g1) /\ Room(f1, g1, p, text)
      BY <2>3, <2>4, <2>5, <2>9, <2>10, RoomIsBound DEF Bounded
    <2>12. \A u \in SaveThreads : Saving(u)' => u = t
      BY <1>1, <1>5, <2>4
    <2>13. \A u \in SaveThreads : Opened(u)' => u = t
      BY <2>12 DEF Saving, Opened
    <2>14. QED
      BY <1>1, <1>4, <2>4, <2>10, <2>11, <2>12, <2>13
  <1>8. QED
    BY <1>2, <1>6, <1>7 DEF WriteBlock

LEMMA RenamesWithinTheCap ==
    ASSUME SavesInv, SavesInv', FolderInv, NEW t \in SaveThreads, Rename(t)
    PROVE  FolderInv'
  <1>1. call[t].pc = "flushed" /\ Opened(t) /\ Saving(t) /\ UNCHANGED <<bytes, shared, overlapped>>
    BY DEF Rename, Opened, Saving
  <1>2. PICK text \in Texts, p \in Path : text = call[t].text /\ p = call[t].path /\ p \in Below
    BY <1>1 DEF SavesInv, CallsAreMeant, InFolder
  <1>3. /\ bytes \in Blocks /\ file \in NameTables /\ temporary \in NameTables
        /\ bytes' \in Blocks /\ file' \in NameTables /\ temporary' \in NameTables
    BY SavesAreTyped DEF SavesInv, SaveFilesTypeOK, NameTables, Blocks
  <1>4. /\ \A u \in SaveThreads : u # t => call'[u] = call[u]
        /\ call'[t].pc = "idle"
    BY IdleType DEF Rename, SavesInv, SaveFilesTypeOK
  <1>5. \A u \in SaveThreads : Saving(u)' => u # t /\ Saving(u) /\ call'[u] = call[u] /\ (Opened(u)' <=> Opened(u))
    BY <1>4 DEF Saving, Opened
  <1>6. temporary'[p] = NoInode /\ \A q \in Path : q # p => temporary'[q] = temporary[q]
    BY <1>2, <1>3 DEF Rename, NameTables
  <1>7. CASE UNCHANGED file
    BY <1>1, <1>5, <1>6, <1>7, FolderShrinks
  <1>8. CASE temporary[p] # NoInode /\ file' = [file EXCEPT ![p] = temporary[p]]
    <2>1. PICK f \in Sizes, g \in Sizes, f1 \in Sizes, g1 \in Sizes :
              f = FileSizes /\ g = TemporarySizes /\ f1 = FileSizes' /\ g1 = TemporarySizes'
      BY <1>3, SizesType DEF FileSizes, TemporarySizes
    <2>2. SUFFICES ASSUME FilesAlone, overlapped = FALSE
                   PROVE  /\ shared' = {} /\ \A u \in SaveThreads : ~Saving(u)'
                          /\ Bounded(f1, g1)
      BY <1>1, <2>1 DEF FolderInv, Bounded, AllBlocks, Saving, Opened
    <2>3. /\ shared = {} /\ \A u, v \in SaveThreads : Saving(u) /\ Saving(v) => u = v
          /\ Bounded(f, g) /\ Room(f, g, p, text) /\ g[p] <= Size(text)
      BY <1>1, <1>2, <2>1, <2>2 DEF FolderInv
    <2>4. \A u \in SaveThreads : ~Saving(u)'
      BY <1>1, <1>5, <2>3
    <2>5. /\ \A q \in Below : q # p => f1[q] = f[q] /\ g1[q] = g[q]
          /\ f1[p] = g[p] /\ g1[p] = 0
      <3>1. \A q \in Below : q \in Path
        BY DEF Below
      <3>2. file'[p] = temporary[p] /\ \A q \in Path : q # p => file'[q] = file[q]
        BY <1>2, <1>3, <1>8 DEF NameTables
      <3>3. \A q \in Below : q # p => f1[q] = f[q] /\ g1[q] = g[q]
        BY <1>1, <1>6, <2>1, <3>1, <3>2 DEF FileSizes, TemporarySizes, SizesOf
      <3>4. f1[p] = g[p] /\ g1[p] = 0
        BY <1>1, <1>2, <1>6, <2>1, <3>2 DEF FileSizes, TemporarySizes, SizesOf
      <3>5. QED
        BY <3>3, <3>4
    <2>6. g[p] <= MaxSaveFolderSize
      <3>1. KeptBlocks(f, Last(p)) \subseteq Below \X (1..2) /\ OtherBlocks(g, p) \subseteq Below \X (1..2)
        BY DEF OtherBlocks, KeptBlocks, AllBlocks
      <3>2. Cardinality(KeptBlocks(f, Last(p))) \in Nat /\ Cardinality(OtherBlocks(g, p)) \in Nat
        BY <3>1, Fewer
      <3>3. MaxSaveFolderSize \in Nat /\ Size(text) \in 1..2 /\ g[p] \in 0..2
        BY <1>2, SaveFilesAssumption, SizeType DEF Sizes
      <3>4. QED
        BY <2>3, <3>2, <3>3 DEF Room
    <2>7. Bounded(f1, g1)
      BY <1>2, <2>3, <2>5, <2>6, RenameIsBounded
    <2>8. QED
      BY <1>1, <2>3, <2>4, <2>7
  <1>9. QED
    BY <1>2, <1>7, <1>8 DEF Rename

LEMMA FolderInvStep ==
    ASSUME SavesInv, SavesInv', FolderInv, SaveFilesNext
    PROVE  FolderInv'
  <1>1. file \in NameTables /\ temporary \in NameTables /\ bytes \in Blocks /\ call \in [SaveThreads -> Call]
    BY SavesAreTyped DEF SavesInv, SaveFilesTypeOK
  <1>2. ASSUME NEW t \in SaveThreads, NEW r \in Requests, DeleteSaveFile(t, r)
        PROVE  FolderInv'
    <2>1. UNCHANGED <<temporary, bytes, call, shared, overlapped>>
      BY <1>2 DEF DeleteSaveFile
    <2>2. \A p \in Path : file'[p] = NoInode \/ file'[p] = file[p]
      BY <1>1, <1>2 DEF DeleteSaveFile, NameTables
    <2>3. \A u \in SaveThreads : (Saving(u)' <=> Saving(u)) /\ (Opened(u)' <=> Opened(u))
      BY <2>1 DEF Saving, Opened
    <2>4. QED
      BY <2>1, <2>2, <2>3, FolderShrinks
  <1>3. ASSUME NEW t \in SaveThreads, call'[t].pc \in {"idle", "sized", "flushed"},
               \A u \in SaveThreads : u # t => call'[u] = call[u],
               call'[t].pc = "flushed" => Opened(t) /\ call'[t].path = call[t].path /\ call'[t].text = call[t].text,
               UNCHANGED <<file, temporary, bytes, shared, overlapped>>
        PROVE  FolderInv'
    <2>1. \A u \in SaveThreads : Saving(u)' =>
               /\ Saving(u) /\ call'[u].path = call[u].path /\ call'[u].text = call[u].text
               /\ Opened(u)' => Opened(u)
      BY <1>3 DEF Saving, Opened
    <2>2. QED
      BY <1>3, <2>1, FolderShrinks
  <1>4. ASSUME NEW t \in SaveThreads, NEW r \in Requests, SizeFile(t, r)
        PROVE  FolderInv'
    <2>1. PICK c : call' = [call EXCEPT ![t] = c] /\ c.pc = "sized"
      <3>1. PICK b \in Call : b = Idle
        BY IdleType
      <3>2. PICK c : c = [b EXCEPT !.pc = "sized", !.path = Resolve(Folder \o r), !.inode = file[Resolve(Folder \o r)],
                                   !.at = SizeOf(file[Resolve(Folder \o r)])]
        OBVIOUS
      <3>3. c.pc = "sized"
        BY <3>1, <3>2 DEF Call
      <3>4. call' = [call EXCEPT ![t] = c]
        BY <1>4, <3>1, <3>2, Zenon DEF SizeFile
      <3>5. QED
        BY <3>3, <3>4
    <2>2. QED
      BY <1>1, <1>3, <1>4, <2>1 DEF SizeFile, NoUse
  <1>5. ASSUME NEW t \in SaveThreads, ReadFile(t)
        PROVE  FolderInv'
    BY <1>1, <1>3, <1>5, IdleType DEF ReadFile, NoUse
  <1>6. ASSUME NEW t \in SaveThreads, Flush(t)
        PROVE  FolderInv'
    <2>1. /\ call'[t].pc = "flushed" /\ Opened(t) /\ call'[t].path = call[t].path /\ call'[t].text = call[t].text
          /\ \A u \in SaveThreads : u # t => call'[u] = call[u]
      BY <1>1, <1>6 DEF Flush, Opened, Call
    <2>2. QED
      BY <1>3, <1>6, <2>1 DEF Flush
  <1>7. ASSUME NEW t \in SaveThreads, OpenTemporary(t)
        PROVE  FolderInv'
    <2>1. call[t].pc = "checked" /\ call[t].path \in Path /\ UNCHANGED <<file, shared, overlapped>>
      BY <1>7 DEF OpenTemporary, SavesInv, CallsAreMeant, Saving
    <2>2. CASE call' = [call EXCEPT ![t] = Idle] /\ UNCHANGED <<temporary, bytes, unsynced>>
      BY <1>1, <1>3, <2>1, <2>2, IdleType
    <2>3. CASE \E i \in IF temporary[call[t].path] # NoInode THEN {temporary[call[t].path]} ELSE Unused :
                 /\ temporary' = [temporary EXCEPT ![call[t].path] = i]
                 /\ bytes' = [bytes EXCEPT ![i] = <<>>]
                 /\ call' = [call EXCEPT ![t].pc = "writing", ![t].inode = i]
      <3>1. PICK i \in Inodes :
                 /\ temporary' = [temporary EXCEPT ![call[t].path] = i]
                 /\ bytes' = [bytes EXCEPT ![i] = <<>>]
                 /\ call' = [call EXCEPT ![t].pc = "writing", ![t].inode = i]
        BY <1>1, <2>1, <2>3 DEF Unused, NameTables
      <3>2. bytes'[i] = <<>> /\ \A j \in Inodes : bytes'[j] = <<>> \/ bytes'[j] = bytes[j]
        BY <1>1, <3>1 DEF Blocks
      <3>3. temporary'[call[t].path] = i /\ \A q \in Path : q # call[t].path => temporary'[q] = temporary[q]
        BY <1>1, <2>1, <3>1 DEF NameTables
      <3>4. /\ call'[t].pc = "writing" /\ call'[t].path = call[t].path /\ call'[t].text = call[t].text
            /\ \A u \in SaveThreads : u # t => call'[u] = call[u]
        BY <1>1, <3>1 DEF Call
      <3>5. \A u \in SaveThreads : Saving(u)' =>
               /\ Saving(u) /\ call'[u].path = call[u].path /\ call'[u].text = call[u].text
               /\ Opened(u)' => Opened(u) \/ bytes'[temporary'[call[u].path]] = <<>>
        BY <2>1, <3>2, <3>3, <3>4 DEF Saving, Opened
      <3>6. \A p \in Path : \/ file'[p] = NoInode \/ bytes'[file'[p]] = <<>>
                            \/ file'[p] = file[p] /\ bytes'[file[p]] = bytes[file[p]]
        BY <1>1, <2>1, <3>2 DEF NameTables
      <3>7. \A p \in Path : \/ temporary'[p] = NoInode \/ bytes'[temporary'[p]] = <<>>
                            \/ temporary'[p] = temporary[p] /\ bytes'[temporary[p]] = bytes[temporary[p]]
        BY <1>1, <3>2, <3>3 DEF NameTables
      <3>8. QED
        BY <2>1, <3>5, <3>6, <3>7, FolderShrinks
    <2>4. QED
      BY <1>7, <2>2, <2>3 DEF OpenTemporary
  <1>8. ASSUME Stop
        PROVE  FolderInv'
    <2>1. /\ call' = [t \in SaveThreads |-> Idle] /\ UNCHANGED <<file, temporary, shared, overlapped>>
          /\ \A j \in Inodes : bytes'[j] = <<>> \/ bytes'[j] = bytes[j]
      BY <1>8 DEF Stop
    <2>2. \A u \in SaveThreads : ~Saving(u)'
      BY <2>1, IdleType DEF Saving
    <2>3. \A p \in Path : \/ file'[p] = NoInode \/ bytes'[file'[p]] = <<>>
                          \/ file'[p] = file[p] /\ bytes'[file[p]] = bytes[file[p]]
      BY <1>1, <2>1 DEF NameTables
    <2>4. \A p \in Path : \/ temporary'[p] = NoInode \/ bytes'[temporary'[p]] = <<>>
                          \/ temporary'[p] = temporary[p] /\ bytes'[temporary[p]] = bytes[temporary[p]]
      BY <1>1, <2>1 DEF NameTables
    <2>5. QED
      BY <2>1, <2>2, <2>3, <2>4, FolderShrinks
  <1>9. QED
    BY <1>2, <1>4, <1>5, <1>6, <1>7, <1>8, SaveFileHasRoom, WritesWithinItsRoom, RenamesWithinTheCap DEF SaveFilesNext

LEMMA FolderInvInit ==
    ASSUME SaveFilesInit
    PROVE  FolderInv
  <1>1. MaxSaveFolderSize \in Nat
    BY SaveFilesAssumption
  <1>2. \A t \in SaveThreads : call[t].pc = "idle"
    BY IdleType DEF SaveFilesInit
  <1>3. \A p \in Below : FileSizes[p] = 0 /\ TemporarySizes[p] = 0
    BY DEF SaveFilesInit, FileSizes, TemporarySizes, SizesOf, Below
  <1>4. AllBlocks(FileSizes) = {} /\ AllBlocks(TemporarySizes) = {}
    <2>1. ASSUME NEW b \in Below \X (1..2)
          PROVE  ~(b[2] <= FileSizes[b[1]]) /\ ~(b[2] <= TemporarySizes[b[1]])
      <3>1. b[1] \in Below /\ b[2] \in 1..2
        OBVIOUS
      <3>2. QED
        BY <1>3, <3>1
    <2>2. QED
      BY <2>1 DEF AllBlocks
  <1>5. Bounded(FileSizes, TemporarySizes)
    <2>1. Cardinality(AllBlocks(FileSizes)) = 0 /\ Cardinality(AllBlocks(TemporarySizes)) = 0
      BY <1>4, FS_EmptySet
    <2>2. QED
      BY <1>1, <1>3, <2>1 DEF Bounded
  <1>6. QED
    BY <1>2, <1>5 DEF FolderInv, Saving, Opened, SaveFilesInit

LEMMA BoundedIsTheFolder ==
    ASSUME SavesInv, FolderInv
    PROVE  FolderBounded
  <1>1. FileBlocks("") \subseteq AllBlocks(FileSizes) /\ TemporaryBlocks("") \subseteq AllBlocks(TemporarySizes)
    BY DEF FileBlocks, TemporaryBlocks, AllBlocks, FileSizes, TemporarySizes, SizesOf, SizeOf
  <1>2. AllBlocks(FileSizes) \subseteq Below \X (1..2) /\ AllBlocks(TemporarySizes) \subseteq Below \X (1..2)
    BY DEF AllBlocks
  <1>3. /\ Cardinality(FileBlocks("")) \in Nat /\ Cardinality(AllBlocks(FileSizes)) \in Nat
        /\ Cardinality(FileBlocks("")) <= Cardinality(AllBlocks(FileSizes))
    BY <1>1, <1>2, Fewer
  <1>4. /\ Cardinality(TemporaryBlocks("")) \in Nat /\ Cardinality(AllBlocks(TemporarySizes)) \in Nat
        /\ Cardinality(TemporaryBlocks("")) <= Cardinality(AllBlocks(TemporarySizes))
    BY <1>1, <1>2, Fewer
  <1>5. MaxSaveFolderSize \in Nat
    BY SaveFilesAssumption
  <1>6. overlapped \in BOOLEAN
    BY DEF SavesInv, SaveFilesTypeOK
  <1>7. ASSUME ~overlapped, FilesAlone
        PROVE  FolderSize("") <= 2 * MaxSaveFolderSize
    <2>1. Cardinality(AllBlocks(FileSizes)) + Cardinality(AllBlocks(TemporarySizes)) <= 2 * MaxSaveFolderSize
      BY <1>6, <1>7 DEF FolderInv, Bounded
    <2>2. \A a, b, c, d, m \in Nat : a <= c /\ b <= d /\ c + d <= 2 * m => a + b <= 2 * m
      OBVIOUS
    <2>3. QED
      BY <1>3, <1>4, <1>5, <2>1, <2>2, Zenon DEF FolderSize
  <1>8. QED
    BY <1>7 DEF FolderBounded

LEMMA FolderPart ==
    /\ FilesInit => SavesInv /\ FolderInv
    /\ SavesInv /\ FolderInv /\ [FilesNext]_filesVars => (SavesInv /\ FolderInv)'
  <1>1. FilesInit => SavesInv /\ FolderInv
    BY SavesPart, FolderInvInit DEF FilesInit
  <1>2. ASSUME SavesInv, FolderInv, [FilesNext]_filesVars
        PROVE  SavesInv' /\ FolderInv'
    <2>1. SavesInv'
      BY <1>2, SavesPart
    <2>2. CASE SaveFilesNext
      BY <1>2, <2>1, <2>2, FolderInvStep
    <2>3. CASE UNCHANGED saveVars
      <3>1. UNCHANGED <<file, temporary, bytes, call, shared, overlapped>>
        BY <2>3 DEF saveVars
      <3>2. \A t \in SaveThreads : (Saving(t)' <=> Saving(t)) /\ (Opened(t)' <=> Opened(t))
        BY <3>1 DEF Saving, Opened
      <3>3. QED
        BY <1>2, <2>1, <3>1, <3>2, FolderShrinks
    <2>4. SaveFilesNext \/ UNCHANGED saveVars
      BY <1>2 DEF FilesNext, filesVars
    <2>5. QED
      BY <2>1, <2>2, <2>3, <2>4
  <1>3. QED
    BY <1>1, <1>2

\* What scripts may rely on of their files: each is whole, so it holds exactly
\* the text last saved to it, whatever failed and wherever the console stopped,
\* unless two threads saved it at once; nothing is written outside the mod's
\* folder or under a name that is not allowed, however the path is spelled; the
\* cap bounds the folder to twice itself; and a load that succeeds is the text
\* last saved (WriteSaveFile, SavePathSafe, FolderSize, LoadFile).
THEOREM ScriptFilesAreKept == FilesSpec => ScriptFilesKept
  <1>1. SavesInv /\ FolderInv => SavesInvariant
    <2>1. \A i \in Inodes : i # NoInode
      BY SaveFilesAssumption DEF NoInode
    <2>2. QED
      BY <2>1, BoundedIsTheFolder DEF SavesInv, FilesAreKept, FileIsKept, FilesAreWhole, SavesInvariant
  <1>2. FilesSpec => [](part = "saves" => SavesInvariant)
    BY <1>1, FolderPart, PTL DEF FilesSpec
  <1>3. QED
    BY <1>2, LoadsAreWholeAlways, PTL DEF ScriptFilesKept

-----------------------------------------------------------------------------
(* What is made from the mods (ModSet).                                     *)

LEMMA ModPartStep ==
    ASSUME [FilesNext]_filesVars
    PROVE  ModSetNext \/ UNCHANGED modVars
  BY DEF FilesNext, filesVars

LEMMA MadePart ==
    /\ FilesInit => MadeInv
    /\ MadeInv /\ [FilesNext]_filesVars => MadeInv'
  <1>1. FilesInit => MadeInv
    BY MadeInvInit DEF FilesInit
  <1>2. ASSUME MadeInv, [FilesNext]_filesVars
        PROVE  MadeInv'
    BY <1>2, ModPartStep, MadeInvStep, MadeStays
  <1>3. QED
    BY <1>1, <1>2

LEMMA ListsPart ==
    /\ FilesInit => SetInv
    /\ SetInv /\ [FilesNext]_filesVars => SetInv'
  <1>1. FilesInit => SetInv
    BY SetInvInit DEF FilesInit
  <1>2. ASSUME SetInv, [FilesNext]_filesVars
        PROVE  SetInv'
    BY <1>2, ModPartStep, SetInvStep, SetStays
  <1>3. QED
    BY <1>1, <1>2

LEMMA TogglesPart ==
    /\ FilesInit => ToggleInv
    /\ ToggleInv /\ [FilesNext]_filesVars => ToggleInv'
    /\ ToggleInv /\ [FilesNext]_filesVars => [ui = "idle" /\ ui' = "saved" => TogglesKept]_modVars
  <1>1. FilesInit => ToggleInv
    <2>1. ModSetInit => ToggleInv
      BY ToggleInvInit
    <2>. QED
      BY <2>1 DEF FilesInit
  <1>2. ASSUME ToggleInv, [FilesNext]_filesVars
        PROVE  ToggleInv'
    BY <1>2, ModPartStep, ToggleInvStep, TogglesStay
  <1>3. ASSUME ToggleInv, [FilesNext]_filesVars
        PROVE  [ui = "idle" /\ ui' = "saved" => TogglesKept]_modVars
    BY <1>3, ModPartStep, ReloadKeeps
  <1>4. QED
    BY <1>1, <1>2, <1>3

\* When no reload is under way, the file overlay, the script manifest and the
\* list of archives are made from the same, current set of enabled mods,
\* whenever the engine's thread asked for them meanwhile, except for a manifest
\* whose building a reload passed; and archives are mounted from a whole list
\* (ReloadModState, BuildRuntimeManifest, MountModVpks).
THEOREM ModsMadeTheSame == FilesSpec => [](part = "mods" => MadeFromTheSameMods /\ MountsAWholeList)
  <1>1. MadeInv => MadeFromTheSameMods /\ MountsAWholeList
    BY DEF MadeInv, MadeFromTheSameMods, MountsAWholeList
  <1>2. QED
    BY <1>1, MadePart, PTL DEF FilesSpec

\* The overlay lists each name once; the manifest lists a script for the mod
\* whose file the overlay serves, with every entry of that mod and of no other;
\* what is made from the mods is made from the same mods; and a reload that
\* commits gives each mod the state the menus asked for and leaves the others
\* as they were, for any mods, versions and settings (RebuildModOverlay,
\* BuildRuntimeManifest, ReloadMods, SaveModStates).
THEOREM ModsAgreeAlways == FilesSpec => ModsAgree
  <1>1. MadeInv /\ SetInv => (part = "mods" => ModsInvariant)
    <2>1. MadeInv => MadeFromTheSameMods /\ MountsAWholeList
      BY DEF MadeInv, MadeFromTheSameMods, MountsAWholeList
    <2>. QED
      BY <2>1, ListsAgree DEF ModsInvariant
  <1>2. [ui = "idle" /\ ui' = "saved" => TogglesKept]_modVars =>
        [ui = "idle" /\ ui' = "saved" =>
           \A m \in Mods : (\A n \in Mods : SameMod(m, n) => m = n) =>
             IsModEnabled(settings', m) =
                 (IF asked[m] = "no" THEN ModEnabledNow(m) ELSE asked[m] = "on")]_modVars
    BY DEF TogglesKept, Alone
  <1>3. QED
    BY <1>1, <1>2, MadePart, ListsPart, TogglesPart, PTL DEF FilesSpec, ModsAgree, TogglesAreKept

-----------------------------------------------------------------------------
(****************************************************************************)
(* The paks of mods                                                          *)
(****************************************************************************)

InstallSteps == {"waiting", "skipped", "streams", "refused", "siteA", "siteB", "siteB, one",
                 "sites", "based", "done"}

\* How far the installation is, what it has found and what it has set.
HookInv ==
    /\ install \in InstallSteps /\ patched \subseteq Sites
    /\ {streamHook, original, base, hookReady, loading} \subseteq BOOLEAN
    /\ found.paks \subseteq Paks /\ StreamsExist
    /\ install = "waiting" => found.paks = {}
    /\ hookReady = TRUE => install = "done"
    /\ install \in {"streams", "siteA", "siteB", "siteB, one", "sites", "based", "done"} => original = TRUE
    /\ unrestored \subseteq patched
    /\ patched \ unrestored # {} => install \in {"siteB, one", "sites", "based", "done"}

IsSeq(s) == \E S : s \in Seq(S)
Asked(n) == n \in requested.names \/ \E i \in DOMAIN table : table[i].request.name = n

\* The parent of a pak with a handle was asked for before.
ParentsAsked ==
    \A k \in DOMAIN handle : handle[k] # Unset =>
        \/ After(k) \in requested.names
        \/ \E i \in 1..handle[k] - 1 : table[i].request.name = After(k)

\* What the loader was given: an entry of a mod's pak that a pass loaded is that
\* of its handle.
TableInv ==
    /\ IsSeq(table)
    /\ \A i \in DOMAIN table :
         /\ table[i] = [request |-> table[i].request, state |-> table[i].state, by |-> table[i].by]
         /\ table[i].state \in {1, 7, 11}
         /\ table[i].by = "mod" =>
              \E k \in DOMAIN handle : handle[k] = i /\ table[i].request = Request(k)
    /\ handle \in [found.paks -> {Unset} \cup DOMAIN table]
    /\ refusals \in Nat
    /\ requested = [count |-> requested.count, names |-> requested.names, hooked |-> requested.hooked]
    /\ ParentsAsked /\ PreloadFirst

Doing(t) ==
    /\ thread[t] = [at |-> thread[t].at, request |-> thread[t].request, due |-> thread[t].due,
                    entry |-> thread[t].entry, overdue |-> thread[t].overdue,
                    turnedAway |-> thread[t].turnedAway]
    /\ thread[t].at \in {"idle", "direct", "asked", "behind", "pass", "pending", "scan"}
    /\ thread[t].entry \in Nat /\ thread[t].turnedAway \in BOOLEAN
    /\ thread[t].at = "behind" => Asked(thread[t].request.name)

\* What a pass is still to load: paks without a handle, behind one parent,
\* and behind common.rpak no Preload pak is missing from it.
InPass(t) ==
    thread[t].at = "pass" =>
        /\ loading = TRUE /\ hookReady = TRUE
        /\ \A k \in thread[t].due :
             /\ k \in DOMAIN handle /\ handle[k] = Unset /\ Asked(After(k))
             /\ refusals = 0 /\ After(k) = Commons =>
                  \A j \in DOMAIN handle : Preload(j) /\ handle[j] = Unset => j \in thread[t].due

\* A pak a scan set out to load is still ahead of it.
InScan(t) ==
    /\ thread[t].overdue \subseteq DOMAIN handle
    /\ thread[t].overdue # {} => hookReady = TRUE
    /\ \/ thread[t].at = "scan"
       \/ thread[t].at = "pass" /\ thread[t].entry # 0
       => \/ refusals > 0 \/ thread[t].turnedAway = TRUE
          \/ \A k \in thread[t].overdue :
               \/ handle[k] # Unset
               \/ thread[t].at = "pass" /\ k \in thread[t].due
               \/ \E i \in DOMAIN table :
                    i >= thread[t].entry /\ table[i].state = 7 /\ table[i].request.name = After(k)

ThreadsInv ==
    /\ thread = [t \in PakThreads |-> thread[t]]
    /\ \A t \in PakThreads : Doing(t) /\ InPass(t) /\ InScan(t)
    /\ \A t, u \in PakThreads : thread[t].at = "pass" /\ thread[u].at = "pass" => t = u

RpaksInv == HookInv /\ TableInv /\ ThreadsInv

LEMMA RequestsDiffer ==
    ASSUME NEW j \in Paks, NEW k \in Paks, Request(j) = Request(k)
    PROVE  j = k
  <1>1. PICK a \in DOMAIN RpakMods : j \in {a} \X DOMAIN RpakMods[a].paks
    BY DEF Paks
  <1>2. PICK b \in DOMAIN RpakMods : k \in {b} \X DOMAIN RpakMods[b].paks
    BY DEF Paks
  <1>3. j = <<a, j[2]>> /\ k = <<b, k[2]>> /\ j[2] \in DOMAIN RpakMods[a].paks /\ k[2] \in DOMAIN RpakMods[b].paks
    BY <1>1, <1>2
  <1>4. a = b /\ RpakMods[a].paks[j[2]].name = RpakMods[b].paks[k[2]].name
    BY <1>3 DEF Request, Pak
  <1>. QED
    BY <1>3, <1>4, RpakModsAssumption

\* Of a sequence, whatever its elements are.
LEMMA AppendedSeq ==
    ASSUME NEW s, IsSeq(s), NEW e
    PROVE  /\ Len(s) \in Nat /\ DOMAIN s = 1..Len(s)
           /\ IsSeq(Append(s, e)) /\ DOMAIN Append(s, e) = 1..Len(s) + 1
           /\ Append(s, e)[Len(s) + 1] = e
           /\ \A i \in DOMAIN s : Append(s, e)[i] = s[i]
  <1>1. PICK S : s \in Seq(S)
    BY DEF IsSeq
  <1>2. s \in Seq(S \cup {e}) /\ e \in S \cup {e}
    BY <1>1
  <1>3. Append(s, e) \in Seq(S \cup {e})
    BY <1>2
  <1>. QED
    BY <1>2, <1>3 DEF IsSeq

LEMMA ReplacedSeq ==
    ASSUME NEW s, IsSeq(s), NEW i \in DOMAIN s, NEW e
    PROVE  IsSeq([s EXCEPT ![i] = e])
  <1>1. PICK S : s \in Seq(S)
    BY DEF IsSeq
  <1>2. s \in Seq(S \cup {e}) /\ e \in S \cup {e}
    BY <1>1
  <1>3. [s EXCEPT ![i] = e] \in Seq(S \cup {e})
    BY <1>2
  <1>. QED
    BY <1>3 DEF IsSeq

\* What every step does to what a thread at rest or elsewhere relies on.
Grown ==
    /\ DOMAIN table \subseteq DOMAIN table'
    /\ \A i \in DOMAIN table :
         /\ table'[i].request = table[i].request
         /\ table[i].state = 7 => table'[i].state = 7
    /\ requested.names \subseteq requested'.names
    /\ DOMAIN handle \subseteq DOMAIN handle'
    /\ \A k \in DOMAIN handle : handle[k] # Unset => handle'[k] # Unset
    /\ refusals \in Nat /\ refusals' \in Nat /\ refusals <= refusals'
    /\ hookReady = TRUE => hookReady' = TRUE

LEMMA StillAsked ==
    ASSUME Grown, NEW n, Asked(n)
    PROVE  Asked(n)'
  <1>1. CASE n \in requested.names
    BY <1>1 DEF Grown, Asked
  <1>2. CASE \E i \in DOMAIN table : table[i].request.name = n
    BY <1>2 DEF Grown, Asked
  <1>. QED
    BY <1>1, <1>2 DEF Asked

LEMMA Rules == \A k : After(k)' = After(k) /\ Preload(k)' = Preload(k) /\ Request(k)' = Request(k)
  BY DEF After, Preload, Pak, Request

LEMMA Elsewhere ==
    ASSUME Grown, NEW t \in PakThreads, Doing(t), InPass(t), InScan(t), thread'[t] = thread[t],
           thread[t].at = "pass" => handle' = handle /\ loading' = TRUE
    PROVE  Doing(t)' /\ InPass(t)' /\ InScan(t)'
  <1>1. Doing(t)'
    BY StillAsked DEF Doing
  <1>2. InPass(t)'
    <2>1. SUFFICES ASSUME thread[t].at = "pass"
                   PROVE  InPass(t)'
      BY DEF InPass
    <2>2. loading' = TRUE /\ hookReady' = TRUE /\ handle' = handle
      BY <2>1 DEF InPass, Grown
    <2>3. refusals' = 0 => refusals = 0
      BY DEF Grown
    <2>4. \A k \in thread[t].due :
             /\ k \in DOMAIN handle /\ handle[k] = Unset /\ Asked(After(k))'
             /\ refusals = 0 /\ After(k) = Commons =>
                  \A j \in DOMAIN handle : Preload(j) /\ handle[j] = Unset => j \in thread[t].due
      BY <2>1, Rules, StillAsked DEF InPass
    <2>. QED
      BY <2>2, <2>3, <2>4, Rules DEF InPass
  <1>3. InScan(t)'
    <2>1. refusals > 0 => refusals' > 0
      BY DEF Grown
    <2>2. thread[t].overdue \subseteq DOMAIN handle' /\ (thread[t].overdue # {} => hookReady' = TRUE)
      BY DEF Grown, InScan
    <2>3. ASSUME NEW k \in thread[t].overdue, thread[t].at = "scan" \/ thread[t].at = "pass",
                 \/ handle[k] # Unset
                 \/ thread[t].at = "pass" /\ k \in thread[t].due
                 \/ \E i \in DOMAIN table :
                      i >= thread[t].entry /\ table[i].state = 7 /\ table[i].request.name = After(k)
          PROVE  \/ handle'[k] # Unset
                 \/ thread[t].at = "pass" /\ k \in thread[t].due
                 \/ \E i \in DOMAIN table' :
                      i >= thread[t].entry /\ table'[i].state = 7 /\ table'[i].request.name = After(k)
      <3>1. CASE handle[k] # Unset
        BY <3>1, <2>3 DEF Grown, InScan
      <3>2. CASE thread[t].at = "pass" /\ k \in thread[t].due
        BY <3>2
      <3>3. CASE \E i \in DOMAIN table :
                   i >= thread[t].entry /\ table[i].state = 7 /\ table[i].request.name = After(k)
        BY <3>3 DEF Grown
      <3>. QED
        BY <2>3, <3>1, <3>2, <3>3
    <2>. QED
      BY <2>1, <2>2, <2>3, Rules DEF InScan
  <1>. QED
    BY <1>1, <1>2, <1>3

LEMMA ThreadMoved ==
    ASSUME ThreadsInv, NEW t \in PakThreads, NEW x, thread' = [thread EXCEPT ![t] = x]
    PROVE  /\ thread'[t] = x /\ thread' = [u \in PakThreads |-> thread'[u]]
           /\ \A u \in PakThreads : u # t => thread'[u] = thread[u]
  BY DEF ThreadsInv

\* The threads' part of the invariant, from what a step does with one of them.
LEMMA OneMoves ==
    ASSUME ThreadsInv, Grown, NEW t \in PakThreads, NEW x, thread' = [thread EXCEPT ![t] = x],
           Doing(t)', InPass(t)', InScan(t)',
           \A u \in PakThreads : u # t /\ thread[u].at = "pass" =>
               handle' = handle /\ loading' = TRUE /\ x.at # "pass"
    PROVE  ThreadsInv'
  <1>1. /\ thread'[t] = x /\ thread' = [u \in PakThreads |-> thread'[u]]
        /\ \A u \in PakThreads : u # t => thread'[u] = thread[u]
    BY ThreadMoved
  <1>2. \A u \in PakThreads : Doing(u)' /\ InPass(u)' /\ InScan(u)'
    <2>1. ASSUME NEW u \in PakThreads, u # t
          PROVE  Doing(u)' /\ InPass(u)' /\ InScan(u)'
      BY <1>1, <2>1, Elsewhere DEF ThreadsInv
    <2>. QED
      BY <2>1
  <1>. QED
    BY <1>1, <1>2 DEF ThreadsInv

LEMMA NobodyMoves ==
    ASSUME ThreadsInv, Grown, UNCHANGED thread,
           \A u \in PakThreads : thread[u].at = "pass" => handle' = handle /\ loading' = TRUE
    PROVE  ThreadsInv'
  <1>1. \A u \in PakThreads : Doing(u)' /\ InPass(u)' /\ InScan(u)'
    BY Elsewhere DEF ThreadsInv
  <1>. QED
    BY <1>1 DEF ThreadsInv

LEMMA NothingLost ==
    ASSUME UNCHANGED <<table, handle, refusals>>, refusals \in Nat, requested'.names = requested.names,
           hookReady = TRUE => hookReady' = TRUE
    PROVE  Grown
  BY DEF Grown

LEMMA SameTable ==
    ASSUME TableInv, HookInv, UNCHANGED <<found, table, handle, refusals>>,
           UNCHANGED requested \/ \E c, h : requested' = [requested EXCEPT !.count = c, !.hooked = h],
           hookReady = TRUE => hookReady' = TRUE
    PROVE  TableInv' /\ Grown
  <1>1. requested' = [count |-> requested'.count, names |-> requested'.names, hooked |-> requested'.hooked]
        /\ requested'.names = requested.names
    BY DEF TableInv
  <1>2. ParentsAsked' /\ PreloadFirst'
    <2>1. ParentsAsked'
      BY <1>1, Rules DEF TableInv, ParentsAsked
    <2>2. PreloadFirst'
      BY Rules DEF TableInv, PreloadFirst
    <2>. QED
      BY <2>1, <2>2
  <1>3. TableInv'
    <2>1. \A i \in DOMAIN table' :
            /\ table'[i] = [request |-> table'[i].request, state |-> table'[i].state, by |-> table'[i].by]
            /\ table'[i].state \in {1, 7, 11}
            /\ table'[i].by = "mod" =>
                 \E k \in DOMAIN handle' : handle'[k] = i /\ table'[i].request = Request(k)'
      BY Rules DEF TableInv
    <2>2. IsSeq(table') /\ handle' \in [found'.paks -> {Unset} \cup DOMAIN table'] /\ refusals' \in Nat
      BY DEF TableInv
    <2>. QED
      BY <1>1, <1>2, <2>1, <2>2 DEF TableInv
  <1>4. refusals \in Nat
    BY DEF TableInv
  <1>5. Grown
    BY <1>1, <1>4, NothingLost
  <1>. QED
    BY <1>3, <1>5

-----------------------------------------------------------------------------
\* The installation and the worker.

\* A thread's record has its fields, after each kind of change.
IsCall(x) ==
    x = [at |-> x.at, request |-> x.request, due |-> x.due, entry |-> x.entry,
         overdue |-> x.overdue, turnedAway |-> x.turnedAway]

LEMMA HookCallIs ==
    ASSUME NEW at, NEW r
    PROVE  /\ IsCall(HookCall(at, r))
           /\ HookCall(at, r).at = at /\ HookCall(at, r).request = r
           /\ HookCall(at, r).due = {} /\ HookCall(at, r).overdue = {}
           /\ HookCall(at, r).entry = 0 /\ HookCall(at, r).turnedAway \in BOOLEAN
  <1>1. HookCall(at, r).turnedAway = FALSE
    BY DEF HookCall
  <1>. QED
    BY <1>1 DEF HookCall, IsCall

LEMMA DiscoveredPaks ==
    /\ Discovered.paks \subseteq Paks
    /\ \A s \in Discovered.streams : s.name \in RpakMods[s.dir].files
  BY DEF Discovered, StreamsOf

LEMMA RpaksInvInit ==
    ASSUME RpaksInit
    PROVE  RpaksInv
  <1>1. HookInv
    BY DEF HookInv, RpaksInit, NothingFound, InstallSteps, StreamsExist
  <1>2. TableInv
    <2>1. table \in Seq({}) /\ DOMAIN table = {}
      BY DEF RpaksInit
    <2>2. handle \in [found.paks -> {Unset} \cup DOMAIN table] /\ DOMAIN handle = {}
      BY DEF RpaksInit, NothingFound
    <2>3. ParentsAsked /\ PreloadFirst
      BY <2>2 DEF ParentsAsked, PreloadFirst
    <2>. QED
      BY <2>1, <2>2, <2>3 DEF TableInv, RpaksInit, IsSeq
  <1>3. ThreadsInv
    <2>1. ASSUME NEW t \in PakThreads
          PROVE  thread[t] = HookCall("idle", Bare(Commons))
      BY DEF RpaksInit, AtRest
    <2>2. ASSUME NEW t \in PakThreads
          PROVE  Doing(t) /\ InPass(t) /\ InScan(t) /\ thread[t].at # "pass"
      <3>1. Doing(t) /\ thread[t].at # "pass"
        BY <2>1, HookCallIs DEF Doing, IsCall
      <3>2. InPass(t)
        BY <2>1, HookCallIs DEF InPass
      <3>3. InScan(t)
        BY <2>1, HookCallIs DEF InScan
      <3>. QED
        BY <3>1, <3>2, <3>3
    <2>3. thread = [t \in PakThreads |-> thread[t]]
      BY DEF RpaksInit
    <2>. QED
      BY <2>2, <2>3 DEF ThreadsInv
  <1>. QED
    BY <1>1, <1>2, <1>3 DEF RpaksInv

LEMMA OutcomesAre ==
    \A o \in Outcomes : o.written \in BOOLEAN /\ o.said \in BOOLEAN
  <1>1. ASSUME NEW w \in BOOLEAN, NEW s \in BOOLEAN, NEW o, o = [written |-> w, said |-> s]
        PROVE  o.written \in BOOLEAN /\ o.said \in BOOLEAN
    BY <1>1
  <1>2. \A o \in Outcomes : \E w, s \in BOOLEAN : o = [written |-> w, said |-> s]
    BY DEF Outcomes
  <1>. QED
    BY <1>1, <1>2

LEMMA InstallKeeps ==
    ASSUME RpaksInv, PatchStreamOpen \/ PatchSites \/ PublishHook
    PROVE  RpaksInv'
  <1>1. UNCHANGED <<found, handle, table, loading, thread, requested, refusals>> /\ (hookReady = TRUE => hookReady' = TRUE)
    BY DEF PatchStreamOpen, PatchSites, PublishHook
  <1>2. HookInv'
    <2>1. CASE PatchStreamOpen
      <3>1. UNCHANGED <<found, patched, unrestored, base, hookReady, loading>> /\ install = "streams"
        BY <2>1 DEF PatchStreamOpen
      <3>2. \/ install' = "siteA" /\ UNCHANGED <<streamHook, original>>
            \/ \E o \in Outcomes : /\ install' = IF o.said THEN "siteA" ELSE "refused"
                                   /\ streamHook' = o.written /\ original' = o.said
        BY <2>1 DEF PatchStreamOpen
      <3>3. /\ \/ install' = "siteA" /\ original' = TRUE
               \/ install' = "refused" /\ original' = FALSE
            /\ streamHook' \in BOOLEAN
        <4>1. original = TRUE /\ streamHook \in BOOLEAN
          BY <3>1 DEF RpaksInv, HookInv
        <4>2. ASSUME NEW o \in Outcomes, install' = IF o.said THEN "siteA" ELSE "refused",
                     streamHook' = o.written, original' = o.said
              PROVE  /\ \/ install' = "siteA" /\ original' = TRUE
                        \/ install' = "refused" /\ original' = FALSE
                     /\ streamHook' \in BOOLEAN
          <5>1. o.said \in BOOLEAN /\ o.written \in BOOLEAN
            BY OutcomesAre
          <5>2. CASE o.said = TRUE
            BY <4>2, <5>1, <5>2
          <5>3. CASE o.said = FALSE
            BY <4>2, <5>1, <5>3
          <5>. QED
            BY <5>1, <5>2, <5>3
        <4>3. \A o \in Outcomes : o.said \in BOOLEAN
          BY OutcomesAre
        <4>4. CASE install' = "siteA" /\ UNCHANGED <<streamHook, original>>
          BY <4>1, <4>4
        <4>. QED
          BY <3>2, <4>2, <4>4
      <3>. QED
        BY <3>1, <3>3 DEF RpaksInv, HookInv, InstallSteps, StreamsExist
    <2>2. CASE PatchSites
      <3>1. PICK o \in Outcomes :
              \/ /\ install = "siteA"
                 /\ install' = IF o.said THEN "siteB, one" ELSE "siteB"
                 /\ PatchCallSite(1, o)
                 /\ UNCHANGED original
              \/ /\ install \in {"siteB", "siteB, one"}
                 /\ install' = IF o.said \/ install = "siteB, one" THEN "sites" ELSE "refused"
                 /\ PatchCallSite(2, o)
                 /\ original' = (install' = "sites")
        BY <2>2 DEF PatchSites
      <3>2. o.written \in BOOLEAN /\ o.said \in BOOLEAN
        BY OutcomesAre
      <3>3. UNCHANGED <<found, streamHook, base, hookReady, loading>>
        BY <2>2 DEF PatchSites
      <3>4. /\ patched' \subseteq Sites /\ unrestored' \subseteq patched'
            /\ install' \in {"siteB, one", "siteB", "sites", "refused"}
        BY <3>1, <3>2 DEF RpaksInv, HookInv, Sites, PatchCallSite
      <3>5. original' \in BOOLEAN /\ (install' \in {"siteB, one", "siteB", "sites"} => original' = TRUE)
        <4>1. CASE install = "siteA"
          BY <3>1, <4>1 DEF RpaksInv, HookInv
        <4>2. CASE install # "siteA"
          <5>1. original' = (install' = "sites") /\ install' \in {"sites", "refused"}
            BY <3>1, <4>2
          <5>. QED
            BY <5>1
        <4>. QED
          BY <4>1, <4>2
      <3>6. ASSUME patched' \ unrestored' # {}
            PROVE  install' \in {"siteB, one", "sites"}
        <4>1. CASE o.said = TRUE
          BY <3>1, <4>1
        <4>2. CASE o.said = FALSE
          <5>1. patched' \ unrestored' \subseteq patched \ unrestored
            BY <3>1, <3>2, <4>2 DEF PatchCallSite
          <5>2. install \in {"siteB, one", "sites", "based", "done"}
            BY <3>6, <5>1 DEF RpaksInv, HookInv
          <5>. QED
            BY <3>1, <5>2
        <4>. QED
          BY <3>2, <4>1, <4>2
      <3>7. install # "waiting" /\ hookReady = FALSE
        BY <3>1 DEF RpaksInv, HookInv
      <3>. QED
        BY <3>3, <3>4, <3>5, <3>6, <3>7 DEF RpaksInv, HookInv, InstallSteps, StreamsExist
    <2>3. CASE PublishHook
      BY <2>3 DEF PublishHook, RpaksInv, HookInv, InstallSteps, StreamsExist
    <2>. QED
      BY <2>1, <2>2, <2>3
  <1>3. TableInv' /\ Grown
    BY <1>1, SameTable DEF RpaksInv
  <1>4. ThreadsInv'
    BY <1>1, <1>3, NobodyMoves DEF RpaksInv, ThreadsInv, InPass
  <1>. QED
    BY <1>2, <1>3, <1>4 DEF RpaksInv

LEMMA DiscoveryKeeps ==
    ASSUME RpaksInv, DiscoverModRpaks
    PROVE  RpaksInv'
  <1>1. /\ UNCHANGED <<patched, unrestored, streamHook, base, hookReady, table, loading, thread, requested, refusals>>
        /\ found' = Discovered /\ handle' = [k \in Discovered.paks |-> Unset]
        /\ install = "waiting" /\ hookReady = FALSE /\ DOMAIN handle = {}
    BY DEF DiscoverModRpaks, RpaksInv, HookInv, TableInv
  <1>2. HookInv'
    BY <1>1, DiscoveredPaks DEF DiscoverModRpaks, RpaksInv, HookInv, InstallSteps, StreamsExist
  <1>3. TableInv'
    <2>1. handle' \in [found'.paks -> {Unset} \cup DOMAIN table']
      BY <1>1
    <2>2. ParentsAsked' /\ PreloadFirst'
      BY <1>1 DEF ParentsAsked, PreloadFirst
    <2>. QED
      BY <1>1, <2>1, <2>2 DEF RpaksInv, TableInv, IsSeq
  <1>4. Grown
    BY <1>1 DEF Grown, RpaksInv, TableInv
  <1>5. ThreadsInv'
    BY <1>1, <1>4, NobodyMoves DEF RpaksInv, ThreadsInv, InPass
  <1>. QED
    BY <1>2, <1>3, <1>5 DEF RpaksInv

LEMMA WorkerKeeps ==
    ASSUME RpaksInv, Worker
    PROVE  RpaksInv'
  <1>1. PICK i \in DOMAIN table : table[i].state = 1 /\ table' = [table EXCEPT ![i].state = 7]
    BY DEF Worker
  <1>2. UNCHANGED <<hookVars, handle, loading, thread, requested, refusals>>
    BY DEF Worker
  <1>3. /\ DOMAIN table' = DOMAIN table /\ IsSeq(table')
        /\ \A j \in DOMAIN table :
             /\ table'[j] = [request |-> table'[j].request, state |-> table'[j].state, by |-> table'[j].by]
             /\ table'[j].request = table[j].request /\ table'[j].by = table[j].by
             /\ table'[j].state \in {1, 7, 11}
             /\ table[j].state = 7 => table'[j].state = 7
    <2>1. table' = [table EXCEPT ![i] = [@ EXCEPT !.state = 7]]
      BY <1>1
    <2>2. IsSeq(table')
      BY <2>1, ReplacedSeq DEF RpaksInv, TableInv
    <2>. QED
      BY <2>1, <2>2 DEF RpaksInv, TableInv
  <1>4. HookInv'
    BY <1>2 DEF hookVars, RpaksInv, HookInv, StreamsExist
  <1>5. TableInv'
    <2>0. handle \in [found.paks -> {Unset} \cup DOMAIN table] /\ DOMAIN table \subseteq Nat
      <3>1. IsSeq(table)
        BY DEF RpaksInv, TableInv
      <3>. QED
        BY <3>1, AppendedSeq DEF RpaksInv, TableInv
    <2>1. ParentsAsked'
      <3>1. ASSUME NEW k \in DOMAIN handle, handle[k] # Unset, NEW j \in 1..handle[k] - 1
            PROVE  j \in DOMAIN table
        <4>1. handle[k] \in DOMAIN table
          BY <2>0, <3>1
        <4>2. Len(table) \in Nat /\ DOMAIN table = 1..Len(table)
          BY AppendedSeq DEF RpaksInv, TableInv
        <4>. QED
          BY <3>1, <4>1, <4>2
      <3>2. ParentsAsked
        BY DEF RpaksInv, TableInv
      <3>. QED
        BY <1>2, <1>3, <3>1, <3>2, Rules DEF ParentsAsked
    <2>2. PreloadFirst'
      BY <1>2, Rules DEF RpaksInv, TableInv, PreloadFirst, hookVars
    <2>. QED
      <3>1. \A j \in DOMAIN table' : table'[j].by = "mod" =>
              \E k \in DOMAIN handle' : handle'[k] = j /\ table'[j].request = Request(k)'
        BY <1>2, <1>3, Rules DEF RpaksInv, TableInv
      <3>2. handle' \in [found'.paks -> {Unset} \cup DOMAIN table']
        BY <1>2, <1>3, <2>0 DEF hookVars
      <3>3. refusals' \in Nat
            /\ requested' = [count |-> requested'.count, names |-> requested'.names, hooked |-> requested'.hooked]
        BY <1>2 DEF RpaksInv, TableInv
      <3>. QED
        BY <1>3, <2>1, <2>2, <3>1, <3>2, <3>3 DEF TableInv
  <1>6. Grown
    BY <1>2, <1>3 DEF Grown, RpaksInv, TableInv, hookVars
  <1>7. ThreadsInv'
    BY <1>2, <1>6, NobodyMoves DEF RpaksInv, ThreadsInv, InPass
  <1>. QED
    BY <1>4, <1>5, <1>7 DEF RpaksInv

-----------------------------------------------------------------------------
\* The hook.

LEMMA HookAtRest ==
    ASSUME RpaksInv, UNCHANGED hookVars, loading' \in BOOLEAN
    PROVE  HookInv'
  BY DEF hookVars, RpaksInv, HookInv, StreamsExist

\* The loader's answer to a request that is not a mod's pak.
LEMMA AskedLoader ==
    ASSUME RpaksInv, NEW t \in PakThreads, AskLoader(t), UNCHANGED <<hookVars, handle>>
    PROVE  TableInv' /\ Grown /\ thread[t].request.name \in requested'.names
  <1> DEFINE r == thread[t].request
  <1>1. /\ requested'.names = requested.names \cup {r.name}
        /\ requested' = [count |-> requested'.count, names |-> requested'.names, hooked |-> requested'.hooked]
    BY DEF AskLoader, RpaksInv, TableInv
  <1>2. refusals \in Nat /\ refusals' \in Nat /\ refusals <= refusals'
    BY DEF AskLoader, PakLoads, Refuses, RpaksInv, TableInv
  <1>3. /\ Len(table) \in Nat /\ DOMAIN table = 1..Len(table) /\ DOMAIN table \subseteq DOMAIN table'
        /\ IsSeq(table')
        /\ \A i \in DOMAIN table : table'[i] = table[i]
        /\ \A i \in DOMAIN table' :
             i \in DOMAIN table \/ table'[i] = [request |-> r, state |-> 1, by |-> "engine"]
    <2>1. CASE UNCHANGED table
      BY <2>1, AppendedSeq DEF RpaksInv, TableInv
    <2>2. CASE table' = Append(table, [request |-> r, state |-> 1, by |-> "engine"])
      BY <2>2, AppendedSeq DEF RpaksInv, TableInv
    <2>. QED
      BY <2>1, <2>2 DEF AskLoader, PakLoads, Refuses
  <1>4. UNCHANGED <<found, handle, hookReady>>
    BY DEF hookVars
  <1>5. TableInv'
    <2>1. \A i \in DOMAIN table' :
            /\ table'[i] = [request |-> table'[i].request, state |-> table'[i].state, by |-> table'[i].by]
            /\ table'[i].state \in {1, 7, 11}
            /\ table'[i].by = "mod" =>
                 \E k \in DOMAIN handle' : handle'[k] = i /\ table'[i].request = Request(k)'
      <3>1. ASSUME NEW i \in DOMAIN table
            PROVE  /\ table'[i] = [request |-> table'[i].request, state |-> table'[i].state, by |-> table'[i].by]
                   /\ table'[i].state \in {1, 7, 11}
                   /\ table'[i].by = "mod" =>
                        \E k \in DOMAIN handle' : handle'[k] = i /\ table'[i].request = Request(k)'
        BY <1>3, <1>4, Rules DEF RpaksInv, TableInv
      <3>2. ASSUME NEW i, table'[i] = [request |-> r, state |-> 1, by |-> "engine"]
            PROVE  /\ table'[i] = [request |-> table'[i].request, state |-> table'[i].state, by |-> table'[i].by]
                   /\ table'[i].state \in {1, 7, 11} /\ table'[i].by # "mod"
        BY <3>2
      <3>. QED
        BY <1>3, <3>1, <3>2
    <2>2. handle' \in [found'.paks -> {Unset} \cup DOMAIN table']
      BY <1>3, <1>4 DEF RpaksInv, TableInv
    <2>3. ParentsAsked'
      <3>1. ASSUME NEW k \in DOMAIN handle, handle[k] # Unset
            PROVE  \/ After(k) \in requested'.names
                   \/ \E i \in 1..handle[k] - 1 : table'[i].request.name = After(k)
        <4>1. \A i \in 1..handle[k] - 1 : i \in DOMAIN table
          <5>1. handle[k] \in DOMAIN table
            BY <3>1 DEF RpaksInv, TableInv
          <5>. QED
            BY <1>3, <5>1
        <4>2. ParentsAsked
          BY DEF RpaksInv, TableInv
        <4>. QED
          BY <1>1, <1>3, <3>1, <4>1, <4>2 DEF ParentsAsked
      <3>. QED
        BY <1>4, <3>1, Rules DEF ParentsAsked
    <2>4. PreloadFirst'
      BY <1>2, <1>4, Rules DEF RpaksInv, TableInv, PreloadFirst
    <2>. QED
      BY <1>1, <1>2, <1>3, <2>1, <2>2, <2>3, <2>4 DEF TableInv
  <1>6. Grown
    BY <1>1, <1>2, <1>3, <1>4 DEF Grown
  <1>. QED
    BY <1>1, <1>5, <1>6

LEMMA RequestKeeps ==
    ASSUME RpaksInv, NEW t \in PakThreads, NEW site \in Sites, NEW n \in Wanted, EngineRequest(t, site, n)
    PROVE  RpaksInv'
  <1>1. PICK at \in {"asked", "direct"} : \E r : thread' = [thread EXCEPT ![t] = HookCall(at, r)]
    <2>1. CASE site \in patched
      BY <2>1 DEF EngineRequest
    <2>2. CASE site \notin patched
      BY <2>2 DEF EngineRequest
    <2>. QED
      BY <2>1, <2>2
  <1>2. UNCHANGED <<hookVars, handle, table, loading, refusals>>
        /\ \E c, h : requested' = [requested EXCEPT !.count = c, !.hooked = h]
    BY DEF EngineRequest
  <1>3. HookInv'
    BY <1>2, HookAtRest DEF RpaksInv, HookInv
  <1>4. TableInv' /\ Grown
    BY <1>2, SameTable DEF RpaksInv, hookVars
  <1> PICK r : thread' = [thread EXCEPT ![t] = HookCall(at, r)]
    BY <1>1
  <1>5. thread'[t] = HookCall(at, r) /\ HookCall(at, r).at # "pass"
    BY <1>1, HookCallIs, ThreadMoved DEF RpaksInv
  <1>6. at # "pass" /\ at # "behind" /\ at # "scan"
    BY <1>1
  <1>7. Doing(t)' /\ InPass(t)' /\ InScan(t)'
    <2>1. Doing(t)'
      BY <1>5, <1>6, HookCallIs DEF Doing, IsCall
    <2>2. InPass(t)'
      BY <1>5, <1>6, HookCallIs DEF InPass
    <2>3. InScan(t)'
      BY <1>5, <1>6, HookCallIs DEF InScan
    <2>. QED
      BY <2>1, <2>2, <2>3
  <1>8. ThreadsInv'
    BY <1>1, <1>2, <1>4, <1>5, <1>7, OneMoves DEF RpaksInv, ThreadsInv, InPass
  <1>. QED
    BY <1>3, <1>4, <1>8 DEF RpaksInv

LEMMA AskKeeps ==
    ASSUME RpaksInv, NEW t \in PakThreads, AskDirectly(t) \/ AskOriginal(t)
    PROVE  RpaksInv'
  <1>1. AskLoader(t) /\ UNCHANGED <<hookVars, handle, loading>>
    BY DEF AskDirectly, AskOriginal
  <1>2. HookInv' /\ TableInv' /\ Grown
    BY <1>1, HookAtRest, AskedLoader DEF RpaksInv, HookInv
  <1>3. PICK x : /\ thread' = [thread EXCEPT ![t] = x]
                 /\ x = AtRest \/ x = [thread[t] EXCEPT !.at = "behind"]
    BY DEF AskDirectly, AskOriginal
  <1>4. thread'[t] = x /\ x.at # "pass"
    BY <1>3, ThreadMoved, HookCallIs DEF AtRest, RpaksInv, ThreadsInv, Doing
  <1>5. Doing(t)' /\ InPass(t)' /\ InScan(t)'
    <2>1. CASE x = AtRest
      BY <1>4, <2>1, HookCallIs DEF AtRest, Doing, InPass, InScan, IsCall
    <2>2. CASE x = [thread[t] EXCEPT !.at = "behind"]
      <3>1. /\ x = [at |-> "behind", request |-> thread[t].request, due |-> thread[t].due,
                    entry |-> thread[t].entry, overdue |-> thread[t].overdue,
                    turnedAway |-> thread[t].turnedAway]
            /\ thread[t].entry \in Nat /\ thread[t].turnedAway \in BOOLEAN
        BY <2>2 DEF RpaksInv, ThreadsInv, Doing
      <3>2. thread[t].request.name \in requested'.names
        BY <1>1, AskedLoader
      <3>3. Doing(t)' /\ InPass(t)'
        BY <1>4, <3>1, <3>2 DEF Doing, InPass, Asked
      <3>4. thread[t].overdue \subseteq DOMAIN handle' /\ (thread[t].overdue # {} => hookReady' = TRUE)
        BY <1>1 DEF hookVars, RpaksInv, ThreadsInv, InScan
      <3>. QED
        BY <1>4, <3>1, <3>3, <3>4 DEF InScan
    <2>. QED
      BY <1>3, <2>1, <2>2
  <1>6. ThreadsInv'
    BY <1>1, <1>2, <1>3, <1>4, <1>5, OneMoves DEF RpaksInv, ThreadsInv, InPass
  <1>. QED
    BY <1>2, <1>6 DEF RpaksInv

\* What a pass that begins is to load.
LEMMA DueBehind ==
    ASSUME NEW r, Asked(r.name), UNCHANGED <<handle, table, requested>>, NEW t \in PakThreads,
           thread'[t].due = Due(r), loading' = TRUE, hookReady' = TRUE
    PROVE  InPass(t)'
  <1>1. \A k \in Due(r) : k \in DOMAIN handle /\ handle[k] = Unset /\ After(k) = r.name
    BY DEF Due
  <1>2. \A k \in Due(r) : After(k) = Commons =>
          \A j \in DOMAIN handle : Preload(j) /\ handle[j] = Unset => j \in Due(r)
    BY <1>1 DEF Due, After
  <1>3. \A k \in Due(r) : Asked(After(k))'
    BY <1>1, Rules DEF Asked
  <1>. QED
    BY <1>1, <1>2, <1>3, Rules DEF InPass

\* LoadModRpaks up to its loop: it returns, or the pass begins.
Entered(t, r, next, entry) ==
    \/ \E b \in BOOLEAN :
         /\ \E y : /\ y = [thread[t] EXCEPT !.at = next, !.entry = entry, !.turnedAway = b]
                   /\ thread' = [thread EXCEPT ![t] = y]
         /\ UNCHANGED loading
         /\ b = FALSE => thread[t].turnedAway # TRUE /\ (hookReady = FALSE \/ found.paks = {})
    \/ \E y :
         /\ y = [thread[t] EXCEPT !.at = "pass", !.entry = entry, !.due = Due(r)]
         /\ thread' = [thread EXCEPT ![t] = y]
         /\ loading = FALSE /\ hookReady = TRUE /\ loading' = TRUE

LEMMA PassEntered ==
    ASSUME RpaksInv, NEW t \in PakThreads, NEW r, NEW next, NEW entry, EnterPass(t, r, next, entry)
    PROVE  Entered(t, r, next, entry)
  <1>1. hookReady \in BOOLEAN /\ loading \in BOOLEAN /\ thread[t].turnedAway \in BOOLEAN
        /\ thread = [u \in PakThreads |-> thread[u]]
    BY DEF RpaksInv, HookInv, ThreadsInv, Doing
  <1>2. CASE ~hookReady \/ found.paks = {} \/ loading
    <2>1. UNCHANGED loading
          /\ thread' = [thread EXCEPT ![t] = [thread[t] EXCEPT !.at = next, !.entry = entry,
                                                              !.turnedAway = thread[t].turnedAway \/ loading]]
      BY <1>2, Zenon DEF EnterPass
    <2>2. CASE loading = TRUE \/ thread[t].turnedAway = TRUE
      <3>1. (thread[t].turnedAway \/ loading) = TRUE
        BY <1>1, <2>2
      <3>. QED
        BY <2>1, <3>1 DEF Entered
    <2>3. CASE loading = FALSE /\ thread[t].turnedAway = FALSE
      <3>1. (thread[t].turnedAway \/ loading) = FALSE
        BY <2>3
      <3>2. hookReady = FALSE \/ found.paks = {}
        BY <1>1, <1>2, <2>3
      <3>. QED
        BY <2>1, <2>3, <3>1, <3>2 DEF Entered
    <2>. QED
      BY <1>1, <2>2, <2>3
  <1>3. CASE ~(~hookReady \/ found.paks = {} \/ loading)
    <2>1. loading' = TRUE
          /\ thread' = [thread EXCEPT ![t] = [thread[t] EXCEPT !.at = "pass", !.entry = entry, !.due = Due(r)]]
      BY <1>3, Zenon DEF EnterPass
    <2>2. loading = FALSE /\ hookReady = TRUE
      BY <1>1, <1>3
    <2>. QED
      BY <2>1, <2>2 DEF Entered
  <1>. QED
    BY <1>2, <1>3 DEF Entered

LEMMA BehindKeeps ==
    ASSUME RpaksInv, NEW t \in PakThreads, LoadBehind(t)
    PROVE  RpaksInv'
  <1>1. /\ UNCHANGED <<hookVars, handle, table, requested, refusals>> /\ thread[t].at = "behind"
        /\ EnterPass(t, thread[t].request, "pending", 0)
    BY DEF LoadBehind
  <1>2. IsCall(thread[t]) /\ thread[t].turnedAway \in BOOLEAN /\ Asked(thread[t].request.name)
    BY <1>1 DEF RpaksInv, ThreadsInv, Doing, IsCall
  <1>3. loading' \in BOOLEAN
    BY <1>1, PassEntered DEF Entered, RpaksInv, HookInv
  <1>4. HookInv' /\ TableInv' /\ Grown
    BY <1>1, <1>3, HookAtRest, SameTable DEF hookVars, RpaksInv, HookInv
  <1>5. UNCHANGED <<handle, hookReady>> /\ thread[t].overdue \subseteq DOMAIN handle
        /\ (thread[t].overdue # {} => hookReady = TRUE)
    BY <1>1 DEF hookVars, RpaksInv, ThreadsInv, InScan
  <1>6. ASSUME NEW b \in BOOLEAN, UNCHANGED loading, NEW y, thread' = [thread EXCEPT ![t] = y],
               y = [thread[t] EXCEPT !.at = "pending", !.entry = 0, !.turnedAway = b]
        PROVE  ThreadsInv'
    <2>1. IsCall(y) /\ y.at = "pending" /\ y.entry = 0 /\ y.turnedAway = b /\ y.overdue = thread[t].overdue
      BY <1>2, <1>6 DEF IsCall
    <2>2. thread'[t] = y
      BY <1>6, ThreadMoved DEF RpaksInv
    <2>3. Doing(t)'
      BY <2>1, <2>2 DEF Doing, IsCall
    <2>4. InPass(t)'
      BY <2>1, <2>2 DEF InPass
    <2>5. InScan(t)'
      BY <1>5, <2>1, <2>2 DEF InScan
    <2>6. \A u \in PakThreads : u # t /\ thread[u].at = "pass" => loading' = TRUE
      BY <1>6 DEF RpaksInv, ThreadsInv, InPass
    <2>. QED
      BY <1>4, <1>5, <1>6, <2>1, <2>3, <2>4, <2>5, <2>6, OneMoves DEF RpaksInv
  <1>7. ASSUME loading = FALSE, hookReady = TRUE, loading' = TRUE, NEW y, thread' = [thread EXCEPT ![t] = y],
               y = [thread[t] EXCEPT !.at = "pass", !.entry = 0, !.due = Due(thread[t].request)]
        PROVE  ThreadsInv'
    <2>1. IsCall(y) /\ y.at = "pass" /\ y.entry = 0 /\ y.turnedAway = thread[t].turnedAway
          /\ y.overdue = thread[t].overdue /\ y.due = Due(thread[t].request)
      BY <1>2, <1>7 DEF IsCall
    <2>2. thread'[t] = y
      BY <1>7, ThreadMoved DEF RpaksInv
    <2>3. Doing(t)'
      BY <1>2, <2>1, <2>2 DEF Doing, IsCall
    <2>4. InPass(t)'
      <3>1. thread'[t].due = Due(thread[t].request) /\ hookReady' = TRUE
        BY <1>5, <1>7, <2>1, <2>2
      <3>. QED
        BY <1>1, <1>2, <1>5, <1>7, <3>1, DueBehind
    <2>5. InScan(t)'
      BY <1>5, <2>1, <2>2 DEF InScan
    <2>6. \A u \in PakThreads : thread[u].at # "pass"
      BY <1>7 DEF RpaksInv, ThreadsInv, InPass
    <2>. QED
      BY <1>4, <1>7, <2>3, <2>4, <2>5, <2>6, OneMoves DEF RpaksInv
  <1>8. ThreadsInv'
    <2>1. Entered(t, thread[t].request, "pending", 0)
      BY <1>1, PassEntered
    <2>. QED
      BY <1>6, <1>7, <2>1, Zenon DEF Entered
  <1>. QED
    BY <1>4, <1>8 DEF RpaksInv

\* A pass loads its next pak, which gets a handle of its own.
LEMMA LoadedKeepsTable ==
    ASSUME RpaksInv, NEW t \in PakThreads, thread[t].at = "pass", NEW k \in thread[t].due,
           \A j \in thread[t].due \ {k} : PassOrder(k, j),
           PakLoads(Request(k), "mod"), handle' = [handle EXCEPT ![k] = Len(table) + 1],
           UNCHANGED <<hookVars, requested>>
    PROVE  TableInv' /\ Grown /\ handle'[k] # Unset
  <1> DEFINE e == [request |-> Request(k), state |-> 1, by |-> "mod"]
  <1>1. /\ table' = Append(table, e) /\ UNCHANGED <<found, refusals, requested, hookReady>>
        /\ Len(table) \in Nat /\ DOMAIN table = 1..Len(table)
    BY AppendedSeq DEF PakLoads, hookVars, RpaksInv, TableInv
  <1>2. /\ IsSeq(table') /\ DOMAIN table' = 1..Len(table) + 1
        /\ table'[Len(table) + 1] = e
        /\ \A i \in DOMAIN table : table'[i] = table[i]
    BY <1>1, AppendedSeq DEF RpaksInv, TableInv
  <1>3. /\ k \in DOMAIN handle /\ handle[k] = Unset /\ Asked(After(k))
        /\ refusals = 0 /\ After(k) = Commons =>
             \A j \in DOMAIN handle : Preload(j) /\ handle[j] = Unset => j \in thread[t].due
    BY DEF RpaksInv, ThreadsInv, InPass
  <1>4. /\ DOMAIN handle' = DOMAIN handle /\ handle'[k] = Len(table) + 1
        /\ \A j \in DOMAIN handle : j # k => handle'[j] = handle[j]
    BY <1>3 DEF RpaksInv, TableInv
  <1>5. \A j \in DOMAIN handle : handle[j] = Unset \/ handle[j] \in 1..Len(table)
    BY <1>1 DEF RpaksInv, TableInv
  <1>6. Len(table) + 1 # Unset /\ Len(table) + 1 \notin 1..Len(table) /\ Unset \notin 1..Len(table)
    BY <1>1 DEF Unset
  <1>7. TableInv'
    <2>1. ASSUME NEW i \in DOMAIN table
          PROVE  /\ table'[i] = [request |-> table'[i].request, state |-> table'[i].state, by |-> table'[i].by]
                 /\ table'[i].state \in {1, 7, 11}
                 /\ table'[i].by = "mod" =>
                      \E j \in DOMAIN handle' : handle'[j] = i /\ table'[i].request = Request(j)'
      <3>1. table[i].by = "mod" => \E j \in DOMAIN handle : handle[j] = i /\ table[i].request = Request(j)
        BY DEF RpaksInv, TableInv
      <3>2. i # Unset
        BY <1>1, <1>6
      <3>. QED
        BY <1>2, <1>3, <1>4, <3>1, <3>2, Rules DEF RpaksInv, TableInv
    <2>2. /\ e = [request |-> e.request, state |-> e.state, by |-> e.by] /\ e.state \in {1, 7, 11}
          /\ e.request = Request(k)
      OBVIOUS
    <2>3. \A i \in DOMAIN table' : i \in DOMAIN table \/ i = Len(table) + 1
      BY <1>1, <1>2
    <2>4. handle' \in [found'.paks -> {Unset} \cup DOMAIN table']
      <3>1. DOMAIN table' = DOMAIN table \cup {Len(table) + 1}
        BY <1>1, <1>2
      <3>. QED
        BY <1>1, <3>1 DEF RpaksInv, TableInv
    <2>5. ParentsAsked'
      <3>1. ASSUME NEW j \in DOMAIN handle, handle'[j] # Unset
            PROVE  \/ After(j) \in requested.names
                   \/ \E i \in 1..handle'[j] - 1 : table'[i].request.name = After(j)
        <4>1. CASE j = k
          <5>1. handle'[j] - 1 = Len(table)
            BY <1>1, <1>4, <4>1
          <5>. QED
            BY <1>1, <1>2, <1>3, <4>1, <5>1 DEF Asked
        <4>2. CASE j # k
          <5>1. handle'[j] = handle[j] /\ handle[j] \in 1..Len(table)
            BY <1>4, <1>5, <3>1, <4>2
          <5>2. \A i \in 1..handle[j] - 1 : i \in DOMAIN table
            BY <1>1, <5>1
          <5>3. ParentsAsked
            BY DEF RpaksInv, TableInv
          <5>. QED
            BY <1>2, <3>1, <5>1, <5>2, <5>3 DEF ParentsAsked
        <4>. QED
          BY <4>1, <4>2
      <3>. QED
        BY <1>1, <1>4, <3>1, Rules DEF ParentsAsked
    <2>6. PreloadFirst'
      <3>1. ASSUME refusals = 0, NEW p \in DOMAIN handle, handle'[p] # Unset, ~Preload(p), After(p) = Commons,
                   NEW j \in DOMAIN handle, Preload(j)
            PROVE  handle'[j] # Unset /\ handle'[j] < handle'[p]
        <4>1. CASE p = k
          <5>1. j # k
            BY <3>1, <4>1
          <5>2. handle[j] # Unset
            <6>1. SUFFICES ASSUME handle[j] = Unset PROVE FALSE
              OBVIOUS
            <6>2. j \in thread[t].due \ {k}
              BY <1>3, <3>1, <4>1, <5>1, <6>1
            <6>3. PassOrder(k, j)
              BY <6>2
            <6>. QED
              BY <3>1, <4>1, <6>3 DEF PassOrder
          <5>3. handle'[j] = handle[j] /\ handle[j] \in 1..Len(table)
            BY <1>4, <1>5, <5>1, <5>2
          <5>. QED
            BY <1>1, <1>4, <4>1, <5>2, <5>3
        <4>2. CASE p # k
          <5>1. handle'[p] = handle[p]
            BY <1>4, <4>2
          <5>2. handle[j] # Unset /\ handle[j] < handle[p]
            BY <3>1, <5>1 DEF RpaksInv, TableInv, PreloadFirst
          <5>. QED
            BY <1>3, <1>4, <5>1, <5>2
        <4>. QED
          BY <4>1, <4>2
      <3>. QED
        BY <1>1, <1>4, <3>1, Rules DEF PreloadFirst
    <2>7. \A i \in DOMAIN table' :
            /\ table'[i] = [request |-> table'[i].request, state |-> table'[i].state, by |-> table'[i].by]
            /\ table'[i].state \in {1, 7, 11}
            /\ table'[i].by = "mod" =>
                 \E j \in DOMAIN handle' : handle'[j] = i /\ table'[i].request = Request(j)'
      <3>1. ASSUME NEW i, table'[i] = e, i = Len(table) + 1
            PROVE  /\ table'[i] = [request |-> table'[i].request, state |-> table'[i].state, by |-> table'[i].by]
                   /\ table'[i].state \in {1, 7, 11}
                   /\ \E j \in DOMAIN handle' : handle'[j] = i /\ table'[i].request = Request(j)'
        <4>1. k \in DOMAIN handle' /\ handle'[k] = i /\ e.request = Request(k)'
          BY <1>3, <1>4, <2>2, <3>1, Rules
        <4>. QED
          BY <2>2, <3>1, <4>1
      <3>2. ASSUME NEW i \in DOMAIN table'
            PROVE  /\ table'[i] = [request |-> table'[i].request, state |-> table'[i].state, by |-> table'[i].by]
                   /\ table'[i].state \in {1, 7, 11}
                   /\ table'[i].by = "mod" =>
                        \E j \in DOMAIN handle' : handle'[j] = i /\ table'[i].request = Request(j)'
        <4>1. CASE i \in DOMAIN table
          BY <2>1, <4>1
        <4>2. CASE i = Len(table) + 1
          <5>1. table'[i] = e
            BY <1>2, <4>2
          <5>. QED
            BY <3>1, <4>2, <5>1
        <4>. QED
          BY <2>3, <4>1, <4>2
      <3>. QED
        BY <3>2
    <2>8. refusals' \in Nat
          /\ requested' = [count |-> requested'.count, names |-> requested'.names, hooked |-> requested'.hooked]
      BY <1>1 DEF RpaksInv, TableInv
    <2>. QED
      BY <1>2, <2>4, <2>5, <2>6, <2>7, <2>8 DEF TableInv
  <1>8. Grown
    <2>1. DOMAIN table \subseteq DOMAIN table'
      BY <1>1, <1>2
    <2>2. refusals \in Nat
      BY DEF RpaksInv, TableInv
    <2>. QED
      BY <1>1, <1>2, <1>3, <1>4, <1>6, <2>1, <2>2 DEF Grown
  <1>. QED
    BY <1>4, <1>6, <1>7, <1>8

LEMMA RefusedKeepsTable ==
    ASSUME RpaksInv, Refuses, UNCHANGED <<hookVars, handle, requested>>
    PROVE  TableInv' /\ Grown /\ refusals' > 0
  <1>1. UNCHANGED <<found, hookReady, table, handle, requested>> /\ refusals \in Nat /\ refusals' = refusals + 1
    BY DEF Refuses, hookVars, RpaksInv, TableInv
  <1>2. ParentsAsked'
    BY <1>1, Rules DEF RpaksInv, TableInv, ParentsAsked
  <1>3. PreloadFirst'
    BY <1>1 DEF PreloadFirst
  <1>4. TableInv'
    BY <1>1, <1>2, <1>3, Rules DEF RpaksInv, TableInv, IsSeq
  <1>. QED
    BY <1>1, <1>4 DEF Grown

LEMMA LoadKeeps ==
    ASSUME RpaksInv, NEW t \in PakThreads, LoadOne(t)
    PROVE  RpaksInv'
  <1>1. PICK k \in thread[t].due :
          /\ \A j \in thread[t].due \ {k} : PassOrder(k, j)
          /\ \/ PakLoads(Request(k), "mod") /\ handle' = [handle EXCEPT ![k] = Len(table) + 1]
             \/ Refuses /\ UNCHANGED handle
          /\ thread' = [thread EXCEPT ![t].due = @ \ {k}]
    BY DEF LoadOne
  <1>2. thread[t].at = "pass" /\ UNCHANGED <<hookVars, loading, requested>>
    BY DEF LoadOne
  <1>3. HookInv'
    BY <1>2, HookAtRest DEF RpaksInv, HookInv
  <1>4. TableInv' /\ Grown /\ (refusals' > 0 \/ handle'[k] # Unset)
        /\ \/ UNCHANGED handle
           \/ handle' = [handle EXCEPT ![k] = Len(table) + 1] /\ UNCHANGED refusals
    <2>1. CASE PakLoads(Request(k), "mod") /\ handle' = [handle EXCEPT ![k] = Len(table) + 1]
      <3>1. UNCHANGED refusals
        BY <2>1 DEF PakLoads
      <3>. QED
        BY <1>1, <1>2, <2>1, <3>1, LoadedKeepsTable
    <2>2. CASE Refuses /\ UNCHANGED handle
      <3>1. TableInv' /\ Grown /\ refusals' > 0
        BY <1>2, <2>2, RefusedKeepsTable
      <3>. QED
        BY <2>2, <3>1
    <2>. QED
      BY <1>1, <2>1, <2>2
  <1>5. PICK y : y = [thread[t] EXCEPT !.due = thread[t].due \ {k}] /\ thread' = [thread EXCEPT ![t] = y]
    BY <1>1
  <1>6. /\ IsCall(y) /\ y.at = "pass" /\ y.due = thread[t].due \ {k} /\ y.entry = thread[t].entry
        /\ y.turnedAway = thread[t].turnedAway /\ y.overdue = thread[t].overdue
        /\ y.entry \in Nat /\ y.turnedAway \in BOOLEAN
    BY <1>2, <1>5 DEF RpaksInv, ThreadsInv, Doing, IsCall
  <1>7. thread'[t] = y
    BY <1>5, ThreadMoved DEF RpaksInv
  <1>8. Doing(t)'
    BY <1>6, <1>7 DEF Doing, IsCall
  <1>9. k \in DOMAIN handle /\ DOMAIN handle' = DOMAIN handle /\ hookReady' = TRUE /\ loading' = TRUE
        /\ \A j \in DOMAIN handle : j # k => handle'[j] = handle[j]
    BY <1>2, <1>4 DEF RpaksInv, ThreadsInv, InPass, hookVars, TableInv
  <1>10. InPass(t)'
    <2>1. ASSUME NEW j \in thread[t].due, j # k
          PROVE  j \in DOMAIN handle' /\ handle'[j] = Unset /\ Asked(After(j))'
      BY <1>2, <1>4, <1>9, <2>1, StillAsked, Rules DEF RpaksInv, ThreadsInv, InPass
    <2>2. ASSUME NEW j \in thread[t].due, j # k, refusals' = 0, After(j) = Commons,
                 NEW p \in DOMAIN handle, Preload(p), handle'[p] = Unset
          PROVE  p \in thread[t].due \ {k}
      <3>1. refusals = 0
        BY <1>4, <2>2 DEF Grown
      <3>2. p # k
        BY <1>4, <2>2
      <3>. QED
        BY <1>2, <1>9, <2>2, <3>1, <3>2 DEF RpaksInv, ThreadsInv, InPass
    <2>. QED
      BY <1>6, <1>7, <1>9, <2>1, <2>2, Rules DEF InPass
  <1>11. InScan(t)'
    <2>1. thread[t].overdue \subseteq DOMAIN handle /\ (thread[t].overdue # {} => hookReady = TRUE)
      BY DEF RpaksInv, ThreadsInv, InScan
    <2>2. ASSUME thread[t].entry # 0, refusals' = 0, thread[t].turnedAway # TRUE, NEW q \in thread[t].overdue
          PROVE  \/ handle'[q] # Unset
                 \/ q \in thread[t].due \ {k}
                 \/ \E i \in DOMAIN table' :
                      i >= thread[t].entry /\ table'[i].state = 7 /\ table'[i].request.name = After(q)
      <3>1. refusals = 0
        BY <1>4, <2>2 DEF Grown
      <3>2. \/ handle[q] # Unset
            \/ q \in thread[t].due
            \/ \E i \in DOMAIN table :
                 i >= thread[t].entry /\ table[i].state = 7 /\ table[i].request.name = After(q)
        <4>1. InScan(t) /\ ~(refusals > 0)
          BY <3>1 DEF RpaksInv, ThreadsInv
        <4>. QED
          BY <1>2, <2>2, <4>1 DEF InScan
      <3>3. CASE handle[q] # Unset
        BY <1>4, <2>1, <2>2, <3>3 DEF Grown
      <3>4. CASE q \in thread[t].due
        BY <1>4, <2>2, <3>4
      <3>5. CASE \E i \in DOMAIN table :
                   i >= thread[t].entry /\ table[i].state = 7 /\ table[i].request.name = After(q)
        BY <1>4, <3>5 DEF Grown
      <3>. QED
        BY <3>2, <3>3, <3>4, <3>5
    <2>3. refusals' > 0 \/ refusals' = 0
      BY <1>4 DEF Grown
    <2>4. hookReady' = TRUE /\ thread[t].overdue \subseteq DOMAIN handle'
      BY <1>9, <2>1
    <2>. QED
      BY <1>6, <1>7, <2>2, <2>3, <2>4, Rules DEF InScan
  <1>12. \A u \in PakThreads : u # t => thread[u].at # "pass"
    BY <1>2 DEF RpaksInv, ThreadsInv
  <1>13. ThreadsInv'
    BY <1>4, <1>5, <1>8, <1>10, <1>11, <1>12, OneMoves DEF RpaksInv
  <1>. QED
    BY <1>3, <1>4, <1>13 DEF RpaksInv

LEMMA EndKeeps ==
    ASSUME RpaksInv, NEW t \in PakThreads, EndPass(t)
    PROVE  RpaksInv'
  <1>1. /\ UNCHANGED <<hookVars, handle, table, requested, refusals>> /\ loading' = FALSE
        /\ thread[t].at = "pass" /\ thread[t].due = {}
        /\ thread' = [thread EXCEPT ![t].at = IF thread[t].entry = 0 THEN "pending" ELSE "scan"]
    BY DEF EndPass
  <1>2. HookInv' /\ TableInv' /\ Grown
    BY <1>1, HookAtRest, SameTable DEF hookVars, RpaksInv, HookInv
  <1>3. PICK y, next : /\ y = [thread[t] EXCEPT !.at = next] /\ thread' = [thread EXCEPT ![t] = y]
                       /\ next = IF thread[t].entry = 0 THEN "pending" ELSE "scan"
    BY <1>1
  <1>4. /\ IsCall(y) /\ y.at = next /\ y.entry = thread[t].entry
        /\ y.turnedAway = thread[t].turnedAway /\ y.overdue = thread[t].overdue
        /\ y.entry \in Nat /\ y.turnedAway \in BOOLEAN
    BY <1>3 DEF RpaksInv, ThreadsInv, Doing, IsCall
  <1>5. thread'[t] = y /\ next \in {"pending", "scan"}
    BY <1>3, ThreadMoved DEF RpaksInv
  <1>6. Doing(t)' /\ InPass(t)'
    BY <1>4, <1>5 DEF Doing, InPass, IsCall
  <1>7. InScan(t)'
    <2>1. InScan(t) /\ UNCHANGED <<handle, hookReady, refusals, table>>
      BY <1>1 DEF RpaksInv, ThreadsInv, hookVars
    <2>2. next = "scan" => thread[t].entry # 0
      BY <1>3
    <2>. QED
      BY <1>1, <1>4, <1>5, <2>1, <2>2, Rules DEF InScan
  <1>8. \A u \in PakThreads : u # t => thread[u].at # "pass"
    BY <1>1 DEF RpaksInv, ThreadsInv
  <1>9. ThreadsInv'
    BY <1>2, <1>3, <1>6, <1>7, <1>8, OneMoves DEF RpaksInv
  <1>. QED
    BY <1>2, <1>9 DEF RpaksInv

\* A scan begins with what is overdue ahead of it.
LEMMA PendingKeeps ==
    ASSUME RpaksInv, NEW t \in PakThreads, ModRpaksPending(t)
    PROVE  RpaksInv'
  <1>1. UNCHANGED <<hookVars, handle, table, loading, requested, refusals>> /\ thread[t].at = "pending"
    BY DEF ModRpaksPending
  <1>2. HookInv' /\ TableInv' /\ Grown
    BY <1>1, HookAtRest, SameTable DEF hookVars, RpaksInv, HookInv
  <1>3. PICK y : /\ thread' = [thread EXCEPT ![t] = y]
                 /\ \/ y = AtRest
                    \/ y = [thread[t] EXCEPT !.at = "scan", !.entry = 1, !.turnedAway = FALSE,
                                            !.overdue = IF hookReady THEN Overdue ELSE {}]
    BY DEF ModRpaksPending
  <1>4. thread'[t] = y
    BY <1>3, ThreadMoved DEF RpaksInv
  <1>5. Doing(t)' /\ InPass(t)' /\ InScan(t)' /\ y.at # "pass"
    <2>1. CASE y = AtRest
      <3>1. Doing(t)'
        BY <1>4, <2>1, HookCallIs DEF AtRest, Doing, IsCall
      <3>2. InPass(t)' /\ y.at # "pass"
        BY <1>4, <2>1, HookCallIs DEF AtRest, InPass
      <3>3. InScan(t)'
        BY <1>4, <2>1, HookCallIs DEF AtRest, InScan
      <3>. QED
        BY <3>1, <3>2, <3>3
    <2>2. CASE y = [thread[t] EXCEPT !.at = "scan", !.entry = 1, !.turnedAway = FALSE,
                                     !.overdue = IF hookReady THEN Overdue ELSE {}]
      <3>1. /\ IsCall(y) /\ y.at = "scan" /\ y.entry = 1 /\ y.turnedAway = FALSE
            /\ y.overdue = IF hookReady THEN Overdue ELSE {}
        <4>1. PICK b \in BOOLEAN : b = FALSE
          OBVIOUS
        <4>2. PICK z : z = IF hookReady THEN Overdue ELSE {}
          OBVIOUS
        <4>3. y = [thread[t] EXCEPT !.at = "scan", !.entry = 1, !.turnedAway = b, !.overdue = z]
          BY <2>2, <4>1, <4>2
        <4>4. IsCall(thread[t])
          BY DEF RpaksInv, ThreadsInv, Doing, IsCall
        <4>5. IsCall(y) /\ y.at = "scan" /\ y.entry = 1 /\ y.turnedAway = b /\ y.overdue = z
          BY <4>3, <4>4 DEF IsCall
        <4>. QED
          BY <4>1, <4>2, <4>5
      <3>2. y.turnedAway \in BOOLEAN
        BY <3>1
      <3>3. Doing(t)' /\ InPass(t)' /\ y.at # "pass"
        BY <1>4, <3>1, <3>2 DEF Doing, InPass, IsCall
      <3>4. \A q \in Overdue : q \in DOMAIN handle /\
                \E i \in DOMAIN table : i >= 1 /\ table[i].state = 7 /\ table[i].request.name = After(q)
        <4>1. \A i \in DOMAIN table : i >= 1
          BY AppendedSeq DEF RpaksInv, TableInv
        <4>. QED
          BY <4>1 DEF Overdue
      <3>5. y.overdue \subseteq DOMAIN handle' /\ (y.overdue # {} => hookReady' = TRUE)
            /\ \A q \in y.overdue : \E i \in DOMAIN table' :
                  i >= 1 /\ table'[i].state = 7 /\ table'[i].request.name = After(q)
        <4>1. hookReady \in BOOLEAN /\ UNCHANGED <<handle, table, hookReady>>
          BY <1>1 DEF hookVars, RpaksInv, HookInv
        <4>2. CASE hookReady = TRUE
          BY <3>1, <3>4, <4>1, <4>2
        <4>3. CASE hookReady = FALSE
          BY <3>1, <4>1, <4>3
        <4>. QED
          BY <4>1, <4>2, <4>3
      <3>6. InScan(t)'
        BY <1>4, <3>1, <3>5, Rules DEF InScan
      <3>. QED
        BY <3>3, <3>6
    <2>. QED
      BY <1>3, <2>1, <2>2
  <1>6. \A u \in PakThreads : thread[u].at = "pass" => loading' = TRUE /\ handle' = handle
    BY <1>1 DEF RpaksInv, ThreadsInv, InPass
  <1>7. ThreadsInv'
    BY <1>2, <1>3, <1>5, <1>6, OneMoves DEF RpaksInv
  <1>. QED
    BY <1>2, <1>7 DEF RpaksInv

LEMMA LeastLoaded ==
    ASSUME NEW S \in SUBSET Nat, S # {}
    PROVE  \E i \in S : i = (CHOOSE j \in S : \A k \in S : j <= k) /\ \A k \in S : i <= k
  BY LeastOf

\* A scan comes to the next loaded entry, with what is overdue at it or
\* beyond; or it is at its end, with nothing overdue left.
LEMMA ScanKeeps ==
    ASSUME RpaksInv, NEW t \in PakThreads, LoadOverdueModRpaks(t)
    PROVE  RpaksInv'
  <1> DEFINE loaded == {i \in DOMAIN table : i >= thread[t].entry /\ table[i].state = 7}
             i == CHOOSE j \in loaded : \A k \in loaded : j <= k
  <1>1. /\ UNCHANGED <<hookVars, handle, table, requested, refusals>> /\ thread[t].at = "scan"
        /\ \/ loaded = {} /\ thread' = [thread EXCEPT ![t] = AtRest] /\ UNCHANGED loading
           \/ loaded # {} /\ EnterPass(t, table[i].request, "scan", i + 1)
    BY DEF LoadOverdueModRpaks
  <1>2. IsCall(thread[t]) /\ thread[t].turnedAway \in BOOLEAN /\ InScan(t) /\ thread[t].entry \in Nat
    BY DEF RpaksInv, ThreadsInv, Doing, IsCall
  <1>3. UNCHANGED <<handle, table, hookReady, refusals>> /\ refusals \in Nat /\ DOMAIN handle = found.paks
        /\ hookReady \in BOOLEAN
    BY <1>1 DEF hookVars, RpaksInv, TableInv, HookInv
  <1>4. \A u \in PakThreads : u # t /\ thread[u].at = "pass" => loading = TRUE
    BY DEF RpaksInv, ThreadsInv, InPass
  <1>5. CASE loaded = {} /\ thread' = [thread EXCEPT ![t] = AtRest] /\ UNCHANGED loading
    <2>1. HookInv' /\ TableInv' /\ Grown
      BY <1>1, <1>5, HookAtRest, SameTable DEF hookVars, RpaksInv, HookInv
    <2>2. thread'[t] = AtRest
      BY <1>5, ThreadMoved DEF RpaksInv
    <2>3. Doing(t)'
      BY <2>2, HookCallIs DEF AtRest, Doing, IsCall
    <2>4. InPass(t)' /\ AtRest.at # "pass"
      BY <2>2, HookCallIs DEF AtRest, InPass
    <2>5. InScan(t)'
      BY <2>2, HookCallIs DEF AtRest, InScan
    <2>6. ThreadsInv'
      BY <1>1, <1>4, <1>5, <2>1, <2>3, <2>4, <2>5, OneMoves DEF RpaksInv
    <2>. QED
      BY <2>1, <2>6 DEF RpaksInv
  <1>6. CASE loaded # {} /\ EnterPass(t, table[i].request, "scan", i + 1)
    <2>1. /\ i \in DOMAIN table /\ table[i].state = 7 /\ i \in Nat /\ i >= 1
          /\ \A k \in DOMAIN table : k >= thread[t].entry /\ table[k].state = 7 => k = i \/ k >= i + 1
      <3>1. DOMAIN table \subseteq Nat /\ \A k \in DOMAIN table : k >= 1
        BY AppendedSeq DEF RpaksInv, TableInv
      <3>2. loaded \in SUBSET Nat
        BY <3>1
      <3>3. i \in loaded /\ \A k \in loaded : i <= k
        <4> HIDE DEF loaded
        <4>. QED
          BY <1>6, <3>2, LeastLoaded
      <3>4. i \in DOMAIN table /\ table[i].state = 7
        BY <3>3
      <3>5. \A k \in DOMAIN table : k >= thread[t].entry /\ table[k].state = 7 => i <= k
        BY <3>3
      <3> HIDE DEF i
      <3>. QED
        BY <3>1, <3>4, <3>5
    <2> HIDE DEF i
    <2>2. Entered(t, table[i].request, "scan", i + 1)
      BY <1>6, PassEntered
    <2>3. loading' \in BOOLEAN /\ (loading = TRUE => loading' = TRUE)
      BY <2>2 DEF Entered, RpaksInv, HookInv
    <2>4. HookInv' /\ TableInv' /\ Grown
      BY <1>1, <2>3, HookAtRest, SameTable DEF hookVars, RpaksInv, HookInv
    \* What is ahead of the scan, after it passed entry i.
    <2>5. ASSUME refusals = 0, thread[t].turnedAway # TRUE, NEW q \in thread[t].overdue
          PROVE  \/ handle[q] # Unset
                 \/ q \in Due(table[i].request)
                 \/ \E k \in DOMAIN table : k >= i + 1 /\ table[k].state = 7 /\ table[k].request.name = After(q)
      <3>1. \/ handle[q] # Unset
            \/ \E k \in DOMAIN table :
                 k >= thread[t].entry /\ table[k].state = 7 /\ table[k].request.name = After(q)
        <4>1. ~(refusals > 0)
          BY <2>5
        <4>. QED
          BY <1>1, <1>2, <2>5, <4>1 DEF InScan
      <3>2. q \in DOMAIN handle
        BY <1>2, <2>5 DEF InScan
      <3>. QED
        BY <2>1, <3>1, <3>2 DEF Due
    <2>6. ASSUME NEW b \in BOOLEAN, NEW y, thread' = [thread EXCEPT ![t] = y], UNCHANGED loading,
                 y = [thread[t] EXCEPT !.at = "scan", !.entry = i + 1, !.turnedAway = b],
                 b = FALSE => thread[t].turnedAway # TRUE /\ (hookReady = FALSE \/ found.paks = {})
          PROVE  ThreadsInv'
      <3>1. /\ IsCall(y) /\ y.at = "scan" /\ y.entry = i + 1 /\ y.turnedAway = b
            /\ y.overdue = thread[t].overdue
        BY <1>2, <2>6 DEF IsCall
      <3>2. thread'[t] = y
        BY <2>6, ThreadMoved DEF RpaksInv
      <3>3. Doing(t)' /\ InPass(t)'
        BY <2>1, <3>1, <3>2 DEF Doing, InPass, IsCall
      <3>4. b = FALSE => thread[t].overdue = {}
        BY <1>2, <1>3, <2>6 DEF InScan
      <3>5. thread[t].overdue \subseteq DOMAIN handle' /\ (thread[t].overdue # {} => hookReady' = TRUE)
        BY <1>2, <1>3 DEF InScan
      <3>6. InScan(t)'
        BY <3>1, <3>2, <3>4, <3>5 DEF InScan
      <3>. QED
        BY <1>3, <1>4, <2>4, <2>6, <3>1, <3>3, <3>6, OneMoves DEF RpaksInv
    <2>7. ASSUME NEW y, thread' = [thread EXCEPT ![t] = y], loading = FALSE, hookReady = TRUE, loading' = TRUE,
                 y = [thread[t] EXCEPT !.at = "pass", !.entry = i + 1, !.due = Due(table[i].request)]
          PROVE  ThreadsInv'
      <3>1. /\ IsCall(y) /\ y.at = "pass" /\ y.entry = i + 1 /\ y.turnedAway = thread[t].turnedAway
            /\ y.overdue = thread[t].overdue /\ y.due = Due(table[i].request)
        BY <1>2, <2>7 DEF IsCall
      <3>2. thread'[t] = y
        BY <2>7, ThreadMoved DEF RpaksInv
      <3>3. Doing(t)'
        BY <1>2, <2>1, <3>1, <3>2 DEF Doing, IsCall
      <3>4. InPass(t)'
        <4>1. Asked(table[i].request.name)
          BY <2>1 DEF Asked
        <4>2. thread'[t].due = Due(table[i].request) /\ hookReady' = TRUE /\ UNCHANGED <<handle, table, requested>>
          BY <1>1, <1>3, <2>7, <3>1, <3>2
        <4>. QED
          BY <2>7, <4>1, <4>2, DueBehind
      <3>5. thread[t].overdue \subseteq DOMAIN handle' /\ (thread[t].overdue # {} => hookReady' = TRUE)
        BY <1>2, <1>3 DEF InScan
      <3>6. refusals' > 0 \/ thread'[t].turnedAway = TRUE \/ (refusals = 0 /\ thread[t].turnedAway # TRUE)
        <4>1. refusals' > 0 \/ refusals = 0
          BY <1>3
        <4>2. thread'[t].turnedAway = thread[t].turnedAway
          BY <3>1, <3>2
        <4>3. CASE thread[t].turnedAway = TRUE
          <5>1. thread'[t].turnedAway = TRUE
            BY <4>2, <4>3, Zenon
          <5>. QED
            BY <5>1
        <4>. QED
          BY <4>1, <4>3
      <3>7. InScan(t)'
        BY <1>3, <2>5, <3>1, <3>2, <3>5, <3>6, Rules DEF InScan
      <3>8. \A u \in PakThreads : u # t => thread[u].at # "pass"
        BY <1>4, <2>7
      <3>. QED
        BY <2>4, <2>7, <3>3, <3>4, <3>7, <3>8, OneMoves DEF RpaksInv
    <2>8. ThreadsInv'
      BY <2>2, <2>6, <2>7, Zenon DEF Entered
    <2>. QED
      BY <2>4, <2>8 DEF RpaksInv
  <1>. QED
    BY <1>1, <1>5, <1>6

-----------------------------------------------------------------------------

LEMMA RpaksInvStep ==
    ASSUME RpaksInv, RpaksNext
    PROVE  RpaksInv'
  <1>1. ASSUME NEW t \in PakThreads, HookStep(t)
        PROVE  RpaksInv'
    BY <1>1, AskKeeps, BehindKeeps, LoadKeeps, EndKeeps, PendingKeeps, ScanKeeps DEF HookStep
  <1>. QED
    BY <1>1, InstallKeeps, DiscoveryKeeps, WorkerKeeps, RequestKeeps DEF RpaksNext

LEMMA RpaksStays ==
    ASSUME RpaksInv, UNCHANGED rpaksVars
    PROVE  RpaksInv'
  <1>1. UNCHANGED <<hookVars, handle, table, loading, thread, requested, refusals>>
    BY DEF rpaksVars, hookVars
  <1>2. HookInv' /\ TableInv' /\ Grown
    BY <1>1, HookAtRest, SameTable DEF hookVars, RpaksInv, HookInv
  <1>3. \A u \in PakThreads : thread[u].at = "pass" => loading' = TRUE /\ handle' = handle
    BY <1>1 DEF RpaksInv, ThreadsInv, InPass
  <1>. QED
    BY <1>1, <1>2, <1>3, NobodyMoves DEF RpaksInv

\* Whether a request is the game's, or a mod's pak that the hook was called for
\* by name.
NamedRequest(r) ==
    \E k \in found.byName :
        /\ r = Request(k) /\ Pak(k).name \notin GamePaks
        /\ \E n \in requested.hooked : Aliased(n) = Pak(k).name
Justified(r) == r.dir = Game \/ NamedRequest(r)

\* The same of a request after the step.
Remains(r) ==
    \/ r.dir = Game
    \/ \E k \in found'.byName :
         /\ r = Request(k) /\ Pak(k).name \notin GamePaks
         /\ \E n \in requested'.hooked : Aliased(n)' = Pak(k).name

\* What the engine asks the loader for, or is about to.
NamedInv ==
    /\ install = "waiting" => found.byName = {}
    /\ found.byName \subseteq Paks
    /\ \A i \in DOMAIN table :
         \/ table[i].by = "mod"
         \/ table[i].by = "engine" /\ Justified(table[i].request)
    /\ \A t \in PakThreads : thread[t].at \in {"direct", "asked"} => Justified(thread[t].request)

LEMMA NamedInvInit == RpaksInit => NamedInv
  <1>. SUFFICES ASSUME RpaksInit
                PROVE  NamedInv
    OBVIOUS
  <1>1. DOMAIN table = {} /\ found.byName = {}
    BY DEF RpaksInit, NothingFound
  <1>2. \A t \in PakThreads : thread[t].at = "idle"
    BY HookCallIs DEF RpaksInit, AtRest
  <1>. QED
    BY <1>1, <1>2 DEF NamedInv

\* What was justified stays so: the names found are found once, and the names
\* asked for are kept.
LEMMA StaysJustified ==
    ASSUME found' = found \/ found.byName = {}, requested.hooked \subseteq requested'.hooked,
           NEW r, Justified(r)
    PROVE  Remains(r)
  <1>1. CASE r.dir = Game
    BY <1>1 DEF Remains
  <1>2. CASE NamedRequest(r)
    <2>1. PICK k \in found.byName :
            /\ r = Request(k) /\ Pak(k).name \notin GamePaks
            /\ \E n \in requested.hooked : Aliased(n) = Pak(k).name
      BY <1>2 DEF NamedRequest
    <2>2. found' = found
      BY <2>1
    <2>3. PICK n \in requested.hooked : Aliased(n) = Pak(k).name
      BY <2>1
    <2>4. Aliased(n)' = Aliased(n)
      BY <2>2 DEF Aliased, Alias
    <2>5. n \in requested'.hooked
      BY <2>3
    <2>. QED
      BY <2>1, <2>2, <2>3, <2>4, <2>5 DEF Remains
  <1>. QED
    BY <1>1, <1>2 DEF Justified

\* The invariant after a step, from what remains justified.
LEMMA NamedNext ==
    ASSUME install' = "waiting" => found'.byName = {}, found'.byName \subseteq Paks,
           \A i \in DOMAIN table' :
              \/ table'[i].by = "mod"
              \/ table'[i].by = "engine" /\ Remains(table'[i].request),
           \A t \in PakThreads : thread'[t].at \in {"direct", "asked"} => Remains(thread'[t].request)
    PROVE  NamedInv'
  <1>1. \A k : Pak(k)' = Pak(k) /\ Request(k)' = Request(k)
    BY DEF Pak, Request
  <1>2. Paks' = Paks
    BY DEF Paks
  <1>. QED
    BY <1>1, <1>2 DEF NamedInv, Justified, NamedRequest, Remains

\* Of any paks there is a first in discovery order.
LEMMA FirstPak ==
    ASSUME NEW S \in SUBSET Paks, S # {}
    PROVE  \E k \in S : \A j \in S \ {k} : Earlier(k, j)
  <1>1. \A k \in S : k = <<k[1], k[2]>> /\ k[1] \in Nat /\ k[2] \in Nat
    BY RpakModsAssumption DEF Paks
  <1> DEFINE Mods1 == {k[1] : k \in S}
  <1>2. Mods1 \in SUBSET Nat /\ Mods1 # {}
    BY <1>1
  <1>3. PICK a \in Mods1 : \A b \in Mods1 : a <= b
    <2> HIDE DEF Mods1
    <2>. QED
      BY <1>2, LeastOf
  <1> DEFINE Places == {k[2] : k \in {q \in S : q[1] = a}}
  <1>4. Places \in SUBSET Nat /\ Places # {}
    BY <1>1, <1>3
  <1>5. PICK b \in Places : \A c \in Places : b <= c
    <2> HIDE DEF Places
    <2>. QED
      BY <1>4, LeastOf
  <1>6. PICK k \in S : k[1] = a /\ k[2] = b
    BY <1>5
  <1>7. ASSUME NEW j \in S \ {k}
        PROVE  Earlier(k, j)
    <2>1. a <= j[1] /\ a \in Nat /\ b \in Nat /\ j[1] \in Nat /\ j[2] \in Nat
      BY <1>1, <1>2, <1>3, <1>4, <1>5
    <2>2. CASE j[1] = a
      <3>1. b <= j[2]
        BY <1>5, <2>2
      <3>2. j[2] # b
        BY <1>1, <1>6, <2>2
      <3>. QED
        BY <1>6, <2>1, <2>2, <3>1, <3>2 DEF Earlier
    <2>3. CASE j[1] # a
      BY <1>6, <2>1, <2>3 DEF Earlier
    <2>. QED
      BY <2>2, <2>3
  <1>. QED
    BY <1>6, <1>7

\* The hook's resolution finds the game's pak or a mod's of that name.
LEMMA Resolved ==
    ASSUME NamedInv, NEW n
    PROVE  \/ ResolveRpakRequest(n).dir = Game
           \/ \E k \in found.byName : /\ ResolveRpakRequest(n) = Request(k)
                                       /\ Pak(k).name = Aliased(n) /\ Aliased(n) \notin GamePaks
  <1> DEFINE own == {k \in found.byName : Pak(k).name = Aliased(n)}
             first == CHOOSE k \in own : \A j \in own \ {k} : Earlier(k, j)
  <1>1. CASE own = {} \/ Aliased(n) \in GamePaks
    <2>1. ResolveRpakRequest(n) = Bare(Aliased(n))
      BY <1>1 DEF ResolveRpakRequest
    <2>. QED
      BY <2>1 DEF Bare
  <1>2. CASE ~(own = {} \/ Aliased(n) \in GamePaks)
    <2>1. ResolveRpakRequest(n) = Request(first)
      BY <1>2 DEF ResolveRpakRequest
    <2>2. first \in own
      <3>1. own \in SUBSET Paks
        BY DEF NamedInv
      <3> HIDE DEF own
      <3>2. \E k \in own : \A j \in own \ {k} : Earlier(k, j)
        BY <1>2, <3>1, FirstPak
      <3>. QED
        BY <3>2
    <2>. QED
      BY <1>2, <2>1, <2>2
  <1>. QED
    BY <1>1, <1>2

LEMMA RequestNames ==
    ASSUME RpaksInv, NamedInv, NEW t \in PakThreads, NEW site \in Sites, NEW n \in Wanted,
           EngineRequest(t, site, n)
    PROVE  NamedInv'
  <1>1. UNCHANGED <<found, install, table>>
    BY DEF EngineRequest, hookVars
  <1>2. requested.hooked \subseteq requested'.hooked /\ (site \in patched => n \in requested'.hooked)
    <2>1. PICK h : /\ requested' = [requested EXCEPT !.count = @ + 1, !.hooked = h]
                   /\ h = IF site \in patched THEN requested.hooked \cup {n} ELSE requested.hooked
      BY DEF EngineRequest
    <2>2. requested'.hooked = h
      BY <2>1 DEF RpaksInv, TableInv
    <2>. QED
      BY <2>1, <2>2
  <1>3. \A r : Justified(r) => Remains(r)
    BY <1>1, <1>2, StaysJustified
  <1>4. PICK at, r : /\ thread' = [thread EXCEPT ![t] = HookCall(at, r)]
                     /\ \/ site \in patched /\ r = ResolveRpakRequest(n)
                        \/ r = Bare(n)
    <2>1. CASE site \in patched
      BY <2>1 DEF EngineRequest
    <2>2. CASE site \notin patched
      BY <2>2 DEF EngineRequest
    <2>. QED
      BY <2>1, <2>2
  <1>5. Remains(r)
    <2>1. CASE r.dir = Game
      BY <2>1 DEF Remains
    <2>2. CASE r = Bare(n)
      <3>1. r.dir = Game
        BY <2>2 DEF Bare
      <3>. QED
        BY <3>1 DEF Remains
    <2>3. CASE site \in patched /\ r = ResolveRpakRequest(n) /\ r.dir # Game
      <3>1. PICK k \in found.byName : r = Request(k) /\ Pak(k).name = Aliased(n) /\ Aliased(n) \notin GamePaks
        BY <2>3, Resolved
      <3>2. Aliased(n)' = Aliased(n) /\ found' = found
        BY <1>1 DEF Aliased, Alias
      <3>. QED
        BY <1>2, <2>3, <3>1, <3>2 DEF Remains
    <2>. QED
      BY <1>4, <2>1, <2>2, <2>3
  <1>6. thread'[t] = HookCall(at, r) /\ \A u \in PakThreads : u # t => thread'[u] = thread[u]
    BY <1>4, ThreadMoved DEF RpaksInv
  <1>7. ASSUME NEW u \in PakThreads, thread'[u].at \in {"direct", "asked"}
        PROVE  Remains(thread'[u].request)
    <2>1. CASE u = t
      BY <1>5, <1>6, <2>1, HookCallIs
    <2>2. CASE u # t
      BY <1>3, <1>6, <1>7, <2>2 DEF NamedInv
    <2>. QED
      BY <2>1, <2>2
  <1>8. \A i \in DOMAIN table' :
          \/ table'[i].by = "mod"
          \/ table'[i].by = "engine" /\ Remains(table'[i].request)
    BY <1>1, <1>3 DEF NamedInv
  <1>. QED
    BY <1>1, <1>7, <1>8, NamedNext DEF NamedInv

\* What a step of the hook does with its thread, and gives the loader.
LEMMA HookGives ==
    ASSUME RpaksInv, NEW t \in PakThreads, HookStep(t)
    PROVE  /\ \E x : thread' = [thread EXCEPT ![t] = x] /\ x.at \notin {"direct", "asked"}
           /\ \/ UNCHANGED table
              \/ \E r, by : /\ table' = Append(table, [request |-> r, state |-> 1, by |-> by])
                            /\ \/ by = "mod"
                               \/ /\ by = "engine" /\ r = thread[t].request
                                  /\ thread[t].at \in {"direct", "asked"}
           /\ requested'.hooked = requested.hooked
  <1>1. IsCall(thread[t]) /\ thread[t].turnedAway \in BOOLEAN
    BY DEF RpaksInv, ThreadsInv, Doing, IsCall
  <1>2. ASSUME NEW r, NEW next, NEW entry, EnterPass(t, r, next, entry), next \in {"pending", "scan"}
        PROVE  \E x : thread' = [thread EXCEPT ![t] = x] /\ x.at \notin {"direct", "asked"}
    <2>1. Entered(t, r, next, entry)
      BY <1>2, PassEntered
    <2>2. ASSUME NEW b, NEW y, y = [thread[t] EXCEPT !.at = next, !.entry = entry, !.turnedAway = b]
          PROVE  y.at = next
      BY <1>1, <2>2 DEF IsCall
    <2>3. ASSUME NEW y, y = [thread[t] EXCEPT !.at = "pass", !.entry = entry, !.due = Due(r)]
          PROVE  y.at = "pass"
      BY <1>1, <2>3 DEF IsCall
    <2>4. CASE \E b \in BOOLEAN : \E y : /\ y = [thread[t] EXCEPT !.at = next, !.entry = entry, !.turnedAway = b]
                                       /\ thread' = [thread EXCEPT ![t] = y]
      BY <1>2, <2>2, <2>4
    <2>5. CASE \E y : /\ y = [thread[t] EXCEPT !.at = "pass", !.entry = entry, !.due = Due(r)]
                      /\ thread' = [thread EXCEPT ![t] = y]
      BY <2>3, <2>5
    <2>. QED
      BY <2>1, <2>4, <2>5, Zenon DEF Entered
  <1>3. CASE AskDirectly(t) \/ AskOriginal(t)
    <2>1. PICK x : /\ thread' = [thread EXCEPT ![t] = x]
                   /\ x = AtRest \/ x = [thread[t] EXCEPT !.at = "behind"]
      BY <1>3 DEF AskDirectly, AskOriginal
    <2>2. x.at \notin {"direct", "asked"}
      BY <1>1, <2>1, HookCallIs DEF AtRest, IsCall
    <2>3. AskLoader(t) /\ thread[t].at \in {"direct", "asked"}
      BY <1>3 DEF AskDirectly, AskOriginal
    <2>4. requested'.hooked = requested.hooked
      BY <2>3 DEF AskLoader, RpaksInv, TableInv
    <2>5. UNCHANGED table \/ table' = Append(table, [request |-> thread[t].request, state |-> 1, by |-> "engine"])
      BY <2>3 DEF AskLoader, PakLoads, Refuses
    <2>. QED
      BY <2>1, <2>2, <2>3, <2>4, <2>5
  <1>4. CASE LoadOne(t)
    <2>1. PICK x, k : /\ x = [thread[t] EXCEPT !.due = thread[t].due \ {k}]
                      /\ thread' = [thread EXCEPT ![t] = x]
                      /\ PakLoads(Request(k), "mod") \/ Refuses
      BY <1>4 DEF LoadOne
    <2>2. x.at = "pass"
      BY <1>1, <1>4, <2>1 DEF LoadOne, IsCall
    <2>3. UNCHANGED table \/ table' = Append(table, [request |-> Request(k), state |-> 1, by |-> "mod"])
      BY <2>1 DEF PakLoads, Refuses
    <2>4. requested' = requested
      BY <1>4 DEF LoadOne
    <2>. QED
      BY <2>1, <2>2, <2>3, <2>4
  <1>5. CASE LoadBehind(t)
    BY <1>2, <1>5 DEF LoadBehind
  <1>6. CASE EndPass(t)
    <2>1. PICK x, next : /\ x = [thread[t] EXCEPT !.at = next] /\ thread' = [thread EXCEPT ![t] = x]
                         /\ next \in {"pending", "scan"}
      BY <1>6 DEF EndPass
    <2>2. x.at = next
      BY <1>1, <2>1 DEF IsCall
    <2>3. UNCHANGED <<table, requested>>
      BY <1>6 DEF EndPass
    <2>. QED
      BY <2>1, <2>2, <2>3
  <1>7. CASE ModRpaksPending(t)
    <2>1. PICK x, d : /\ thread' = [thread EXCEPT ![t] = x]
                      /\ \/ x = AtRest
                         \/ x = [thread[t] EXCEPT !.at = "scan", !.entry = 1, !.turnedAway = FALSE, !.overdue = d]
      BY <1>7 DEF ModRpaksPending
    <2>2. x.at \in {"idle", "scan"}
      <3>1. CASE x = AtRest
        BY <3>1, HookCallIs DEF AtRest
      <3>2. CASE x = [thread[t] EXCEPT !.at = "scan", !.entry = 1, !.turnedAway = FALSE, !.overdue = d]
        <4>1. PICK b \in BOOLEAN : b = FALSE
          OBVIOUS
        <4>2. x = [thread[t] EXCEPT !.at = "scan", !.entry = 1, !.turnedAway = b, !.overdue = d]
          BY <3>2, <4>1
        <4>. QED
          BY <1>1, <4>2 DEF IsCall
      <3>. QED
        BY <2>1, <3>1, <3>2
    <2>3. UNCHANGED <<table, requested>>
      BY <1>7 DEF ModRpaksPending
    <2>. QED
      BY <2>1, <2>2, <2>3
  <1>8. CASE LoadOverdueModRpaks(t)
    <2>1. UNCHANGED <<table, requested>>
      BY <1>8 DEF LoadOverdueModRpaks
    <2>2. \/ thread' = [thread EXCEPT ![t] = AtRest]
          \/ \E r, entry : EnterPass(t, r, "scan", entry)
      BY <1>8 DEF LoadOverdueModRpaks
    <2>3. AtRest.at = "idle"
      BY HookCallIs DEF AtRest
    <2>. QED
      BY <1>2, <2>1, <2>2, <2>3
  <1>. QED
    BY <1>3, <1>4, <1>5, <1>6, <1>7, <1>8 DEF HookStep

LEMMA HookNames ==
    ASSUME RpaksInv, NamedInv, NEW t \in PakThreads, HookStep(t)
    PROVE  NamedInv'
  <1>1. UNCHANGED <<found, install>>
    BY DEF HookStep, AskDirectly, AskOriginal, LoadBehind, LoadOne, EndPass, ModRpaksPending,
           LoadOverdueModRpaks, hookVars
  <1>2. requested.hooked \subseteq requested'.hooked
    BY HookGives
  <1>3. \A r : Justified(r) => Remains(r)
    BY <1>1, <1>2, StaysJustified
  <1>4. PICK x : thread' = [thread EXCEPT ![t] = x] /\ x.at \notin {"direct", "asked"}
    BY HookGives
  <1>5. thread'[t] = x /\ \A u \in PakThreads : u # t => thread'[u] = thread[u]
    BY <1>4, ThreadMoved DEF RpaksInv
  <1>6. \A u \in PakThreads : thread'[u].at \in {"direct", "asked"} => Remains(thread'[u].request)
    BY <1>3, <1>4, <1>5 DEF NamedInv
  <1>7. \A i \in DOMAIN table' :
          \/ table'[i].by = "mod"
          \/ table'[i].by = "engine" /\ Remains(table'[i].request)
    <2>1. CASE UNCHANGED table
      BY <1>3, <2>1 DEF NamedInv
    <2>2. ASSUME NEW r, NEW by, table' = Append(table, [request |-> r, state |-> 1, by |-> by]),
                 \/ by = "mod"
                 \/ by = "engine" /\ r = thread[t].request /\ thread[t].at \in {"direct", "asked"}
          PROVE  \A i \in DOMAIN table' :
                   \/ table'[i].by = "mod"
                   \/ table'[i].by = "engine" /\ Remains(table'[i].request)
      <3> DEFINE e == [request |-> r, state |-> 1, by |-> by]
      <3>1. /\ DOMAIN table = 1..Len(table) /\ Len(table) \in Nat
            /\ DOMAIN table' = 1..Len(table) + 1 /\ table'[Len(table) + 1] = e
            /\ \A i \in DOMAIN table : table'[i] = table[i]
        BY <2>2, AppendedSeq DEF RpaksInv, TableInv
      <3>2. e.by = "mod" \/ (e.by = "engine" /\ Remains(e.request))
        <4>1. e.by = by /\ e.request = r
          OBVIOUS
        <4>2. by = "engine" => Remains(r)
          BY <1>3, <2>2 DEF NamedInv
        <4>. QED
          BY <2>2, <4>1, <4>2
      <3>3. ASSUME NEW i \in DOMAIN table
            PROVE  \/ table'[i].by = "mod"
                   \/ table'[i].by = "engine" /\ Remains(table'[i].request)
        BY <1>3, <3>1 DEF NamedInv
      <3>4. \A i \in DOMAIN table' : i \in DOMAIN table \/ i = Len(table) + 1
        BY <3>1
      <3> HIDE DEF e
      <3>. QED
        BY <3>1, <3>2, <3>3, <3>4
    <2>. QED
      BY <2>1, <2>2, HookGives
  <1>. QED
    BY <1>1, <1>6, <1>7, NamedNext DEF NamedInv

LEMMA OthersName ==
    ASSUME RpaksInv, NamedInv,
           DiscoverModRpaks \/ PatchStreamOpen \/ PatchSites \/ PublishHook \/ Worker \/ UNCHANGED rpaksVars
    PROVE  NamedInv'
  <1>1. UNCHANGED <<thread, requested>>
    BY DEF DiscoverModRpaks, PatchStreamOpen, PatchSites, PublishHook, Worker, rpaksVars
  <1>2. /\ found' = found \/ found.byName = {}
        /\ found'.byName \subseteq Paks /\ (install' = "waiting" => found'.byName = {})
    <2>1. CASE DiscoverModRpaks
      <3>1. Discovered.byName \subseteq Paks
        BY DEF Discovered
      <3>. QED
        BY <2>1, <3>1 DEF DiscoverModRpaks, NamedInv
    <2>2. CASE PatchStreamOpen
      <3>1. found' = found /\ (install' = install \/ install' # "waiting")
        <4>1. \A o : (IF o.said THEN "siteA" ELSE "refused") # "waiting"
          OBVIOUS
        <4>. QED
          BY <2>2, <4>1 DEF PatchStreamOpen
      <3>. QED
        BY <3>1 DEF NamedInv
    <2>3. CASE PatchSites
      <3>1. found' = found /\ install' # "waiting"
        BY <2>3 DEF PatchSites
      <3>. QED
        BY <3>1 DEF NamedInv
    <2>4. CASE PublishHook
      BY <2>4 DEF PublishHook, NamedInv
    <2>5. CASE Worker \/ UNCHANGED rpaksVars
      BY <2>5 DEF Worker, hookVars, rpaksVars, NamedInv
    <2>. QED
      BY <2>1, <2>2, <2>3, <2>4, <2>5
  <1>3. \A r : Justified(r) => Remains(r)
    BY <1>1, <1>2, StaysJustified
  <1>4. DOMAIN table' = DOMAIN table
        /\ \A i \in DOMAIN table : table'[i].by = table[i].by /\ table'[i].request = table[i].request
    <2>1. CASE UNCHANGED table
      BY <2>1
    <2>2. CASE Worker
      <3>1. PICK i \in DOMAIN table : table' = [table EXCEPT ![i] = [table[i] EXCEPT !.state = 7]]
        BY <2>2 DEF Worker
      <3>2. \A j \in DOMAIN table :
              table[j] = [request |-> table[j].request, state |-> table[j].state, by |-> table[j].by]
        BY DEF RpaksInv, TableInv
      <3>3. [table[i] EXCEPT !.state = 7].by = table[i].by /\ [table[i] EXCEPT !.state = 7].request = table[i].request
        BY <3>2
      <3>4. /\ DOMAIN table' = DOMAIN table /\ table'[i] = [table[i] EXCEPT !.state = 7]
            /\ \A j \in DOMAIN table : j # i => table'[j] = table[j]
        BY <3>1
      <3>. QED
        BY <3>3, <3>4
    <2>. QED
      BY <2>1, <2>2 DEF DiscoverModRpaks, PatchStreamOpen, PatchSites, PublishHook, rpaksVars
  <1>. QED
    BY <1>1, <1>2, <1>3, <1>4, NamedNext DEF NamedInv

LEMMA NamedInvStep ==
    ASSUME RpaksInv, NamedInv, RpaksNext \/ UNCHANGED rpaksVars
    PROVE  NamedInv'
  BY RequestNames, HookNames, OthersName DEF RpaksNext

\* Two entries of one pak that passes loaded are one entry: each is the one its
\* handle names.  An entry of a mod's pak that the engine asked for is named.
LEMMA LoadedOnceAndBehind ==
    ASSUME RpaksInv, NamedInv
    PROVE  LoadedOnce /\ AfterItsParent /\ PreloadFirst /\ StreamsExist
  <1>1. ASSUME NEW i \in DOMAIN table, NEW j \in DOMAIN table,
               table[i].by = "mod", table[j].by = "mod", table[i].request = table[j].request
        PROVE  i = j
    <2>1. PICK k \in DOMAIN handle : handle[k] = i /\ table[i].request = Request(k)
      BY <1>1 DEF RpaksInv, TableInv
    <2>2. PICK m \in DOMAIN handle : handle[m] = j /\ table[j].request = Request(m)
      BY <1>1 DEF RpaksInv, TableInv
    <2>3. DOMAIN handle \subseteq Paks
      BY DEF RpaksInv, TableInv, HookInv
    <2>. QED
      BY <1>1, <2>1, <2>2, <2>3, RequestsDiffer
  <1>2. ASSUME NEW i \in DOMAIN table, table[i].by # "mod", table[i].request.dir # Game
        PROVE  table[i].by = "engine" /\ AskedByName(i)
    BY <1>2 DEF NamedInv, Justified, NamedRequest, AskedByName
  <1>. QED
    <2>1. LoadedOnce
      BY <1>1, <1>2 DEF LoadedOnce
    <2>2. AfterItsParent
      <3>1. ASSUME NEW i \in DOMAIN table, table[i].by = "mod"
            PROVE  \E k \in DOMAIN handle :
                     /\ handle[k] = i /\ table[i].request = Request(k)
                     /\ \/ After(k) \in requested.names
                        \/ \E j \in 1..i - 1 : table[j].request.name = After(k)
        <4>1. PICK k \in DOMAIN handle : handle[k] = i /\ table[i].request = Request(k)
          BY <3>1 DEF RpaksInv, TableInv
        <4>2. i # Unset
          <5>1. IsSeq(table)
            BY DEF RpaksInv, TableInv
          <5>2. DOMAIN table = 1..Len(table) /\ Len(table) \in Nat
            BY <5>1, AppendedSeq
          <5>. QED
            BY <5>2 DEF Unset
        <4>3. ParentsAsked
          BY DEF RpaksInv, TableInv
        <4>. QED
          BY <4>1, <4>2, <4>3 DEF ParentsAsked
      <3>. QED
        BY <1>2, <3>1 DEF AfterItsParent
    <2>. QED
      BY <2>1, <2>2 DEF RpaksInv, HookInv, TableInv

\* A site that counts as rewritten is one the hook has its original for.
LEMMA OriginalKnown ==
    ASSUME RpaksInv
    PROVE  OriginalIsKnown
  BY DEF RpaksInv, HookInv, OriginalIsKnown

LEMMA HookMoves ==
    ASSUME RpaksInv, NEW u \in PakThreads, HookStep(u)
    PROVE  \E x : thread' = [thread EXCEPT ![u] = x]
  <1>1. CASE AskDirectly(u) \/ AskOriginal(u)
    BY <1>1 DEF AskDirectly, AskOriginal
  <1>2. ASSUME NEW r, NEW next, NEW entry, EnterPass(u, r, next, entry)
        PROVE  \E x : thread' = [thread EXCEPT ![u] = x]
    <2>1. Entered(u, r, next, entry)
      BY <1>2, PassEntered
    <2>. QED
      BY <2>1 DEF Entered
  <1>3. CASE LoadBehind(u)
    BY <1>2, <1>3 DEF LoadBehind
  <1>4. CASE LoadOne(u) \/ EndPass(u)
    BY <1>4 DEF LoadOne, EndPass
  <1>5. CASE ModRpaksPending(u)
    BY <1>5 DEF ModRpaksPending
  <1>6. CASE LoadOverdueModRpaks(u)
    BY <1>2, <1>6 DEF LoadOverdueModRpaks
  <1>. QED
    BY <1>1, <1>3, <1>4, <1>5, <1>6 DEF HookStep

\* Only its own step takes a thread out of a scan, and to rest it takes it
\* when no loaded entry is ahead.
LEMMA ScanLeft ==
    ASSUME RpaksInv, RpaksNext, NEW t \in PakThreads, thread[t].at = "scan", thread'[t].at = "idle"
    PROVE  \A i \in DOMAIN table : ~(i >= thread[t].entry /\ table[i].state = 7)
  <1>1. thread'[t] # thread[t]
    OBVIOUS
  <1>2. ASSUME NEW u \in PakThreads, NEW x, thread' = [thread EXCEPT ![u] = x]
        PROVE  u = t /\ x.at = "idle"
    <2>1. thread'[u] = x /\ \A v \in PakThreads : v # u => thread'[v] = thread[v]
      BY <1>2, ThreadMoved DEF RpaksInv
    <2>. QED
      BY <1>1, <2>1
  <1>3. ~DiscoverModRpaks /\ ~PatchStreamOpen /\ ~PatchSites /\ ~PublishHook /\ ~Worker
    BY <1>1 DEF DiscoverModRpaks, PatchStreamOpen, PatchSites, PublishHook, Worker
  <1>4. ~\E u \in PakThreads, site \in Sites, n \in Wanted : EngineRequest(u, site, n)
    BY <1>2 DEF EngineRequest
  <1>5. PICK u \in PakThreads : HookStep(u)
    BY <1>3, <1>4 DEF RpaksNext
  <1>6. u = t
    <2>1. \E x : thread' = [thread EXCEPT ![u] = x]
      BY <1>5, HookMoves
    <2>. QED
      BY <1>2, <2>1
  <1>7. LoadOverdueModRpaks(t)
    BY <1>5, <1>6 DEF HookStep, AskDirectly, AskOriginal, LoadBehind, LoadOne, EndPass, ModRpaksPending
  <1> DEFINE loaded == {i \in DOMAIN table : i >= thread[t].entry /\ table[i].state = 7}
             i == CHOOSE j \in loaded : \A k \in loaded : j <= k
  <1>8. loaded = {} \/ EnterPass(t, table[i].request, "scan", i + 1)
    BY <1>7 DEF LoadOverdueModRpaks
  <1>9. ~EnterPass(t, table[i].request, "scan", i + 1)
    <2> HIDE DEF i
    <2>1. SUFFICES ASSUME Entered(t, table[i].request, "scan", i + 1) PROVE FALSE
      BY PassEntered
    <2>2. IsCall(thread[t])
      BY DEF RpaksInv, ThreadsInv, Doing, IsCall
    <2>3. ASSUME NEW b, NEW y, thread' = [thread EXCEPT ![t] = y],
                 y = [thread[t] EXCEPT !.at = "scan", !.entry = i + 1, !.turnedAway = b]
          PROVE  FALSE
      BY <1>2, <2>2, <2>3 DEF IsCall
    <2>4. ASSUME NEW y, thread' = [thread EXCEPT ![t] = y],
                 y = [thread[t] EXCEPT !.at = "pass", !.entry = i + 1, !.due = Due(table[i].request)]
          PROVE  FALSE
      BY <1>2, <2>2, <2>4 DEF IsCall
    <2>. QED
      BY <2>1, <2>3, <2>4, Zenon DEF Entered
  <1>. QED
    BY <1>8, <1>9

LEMMA OverdueStep ==
    ASSUME RpaksInv, RpaksNext
    PROVE  \A t \in PakThreads :
             thread[t].at = "scan" /\ thread'[t].at = "idle" =>
                 \/ refusals > 0 \/ thread[t].turnedAway
                 \/ \A k \in thread[t].overdue : handle[k] # Unset
  <1>1. ASSUME NEW t \in PakThreads, thread[t].at = "scan", thread'[t].at = "idle"
        PROVE  \/ refusals > 0 \/ thread[t].turnedAway = TRUE
               \/ \A k \in thread[t].overdue : handle[k] # Unset
    BY <1>1, ScanLeft DEF RpaksInv, ThreadsInv, InScan
  <1>2. ASSUME NEW t \in PakThreads, thread[t].turnedAway = TRUE
        PROVE  thread[t].turnedAway
    BY <1>2
  <1>. QED
    BY <1>1, <1>2

-----------------------------------------------------------------------------
(****************************************************************************)
(* One archive                                                               *)
(****************************************************************************)

\* A row's count that divides into what is left does not leave the file.
LEMMA RowsFit ==
    ASSUME NEW count \in Nat, NEW stride \in Nat \ {0}, NEW left \in Nat, count <= left \div stride
    PROVE  count * stride \in 0..left
  <1>1. left \div stride \in Nat /\ (left \div stride) * stride <= left
    OBVIOUS
  <1>2. count * stride <= (left \div stride) * stride /\ count * stride \in Nat
    BY <1>1
  <1>3. (left \div stride) * stride \in Nat
    BY <1>1
  <1>. QED
    BY <1>1, <1>2, <1>3

LEMMA RowsAdvance ==
    ASSUME NEW size \in Nat, NEW cursor \in Nat \cup {OutOfFile}, NEW count \in Nat,
           NEW stride \in Nat \ {0}
    PROVE  \/ RpakAdvance(size, cursor, count, stride) = OutOfFile
           \/ /\ cursor \in 0..size
              /\ RpakAdvance(size, cursor, count, stride) = cursor + count * stride
              /\ cursor + count * stride \in 0..size
  <1>1. CASE cursor # OutOfFile /\ cursor <= size /\ count <= (size - cursor) \div stride
    <2>1. cursor \in Nat /\ size - cursor \in Nat /\ size \in Nat
      BY <1>1
    <2>2. count * stride \in 0..size - cursor
      BY <1>1, <2>1, RowsFit
    <2>3. cursor + count * stride \in 0..size
      BY <2>1, <2>2
    <2>. QED
      BY <1>1, <2>1, <2>3 DEF RpakAdvance
  <1>2. CASE ~(cursor # OutOfFile /\ cursor <= size /\ count <= (size - cursor) \div stride)
    BY <1>2 DEF RpakAdvance
  <1>. QED
    BY <1>1, <1>2

\* Of an archive of PakFiles.
Read(a) ==
    /\ a.size \in Nat
    /\ {a.paths, a.slabs, a.pointers, a.uses, a.dependents} \subseteq Nat
    /\ a.pages \in Seq(Nat)
    /\ a.assets \in Seq([type : STRING, page : Nat, offset : Nat, head : Nat, marker : STRING])

TableBytes(a) ==
    HeaderSize + a.paths + a.slabs * SlabRow + Len(a.pages) * PageRow
    + a.pointers * PointerRow + Len(a.assets) * AssetRow + a.uses * PointerRow
    + a.dependents * DependentRow

LEMMA TablesFit ==
    ASSUME NEW a, Read(a), PageDataOffset(a) # OutOfFile
    PROVE  PageDataOffset(a) = TableBytes(a) /\ TableBytes(a) \in 0..a.size
  <1> DEFINE Over(at, count, stride) == RpakAdvance(a.size, at, count, stride)
             h0 == HeaderSize
             h1 == Over(h0, a.paths, 1)
             h2 == Over(h1, a.slabs, SlabRow)
             h3 == Over(h2, Len(a.pages), PageRow)
             h4 == Over(h3, a.pointers, PointerRow)
             h5 == Over(h4, Len(a.assets), AssetRow)
             h6 == Over(h5, a.uses, PointerRow)
             h7 == Over(h6, a.dependents, DependentRow)
  <1>1. h7 # OutOfFile /\ PageDataOffset(a) = h7
    BY DEF PageDataOffset, OutOfFile
  <1>2. /\ a.size \in Nat /\ HeaderSize \in Nat
        /\ {a.paths, a.slabs, a.pointers, a.uses, a.dependents, Len(a.pages), Len(a.assets)} \subseteq Nat
        /\ {1, SlabRow, PageRow, PointerRow, AssetRow, DependentRow} \subseteq Nat \ {0}
    <2>1. a.size \in Nat /\ HeaderSize \in Nat
      BY RpakFileAssumption DEF Read
    <2>2. Len(a.pages) \in Nat /\ Len(a.assets) \in Nat
      <3>1. ASSUME NEW S, NEW s \in Seq(S)
            PROVE  Len(s) \in Nat
        BY <3>1
      <3>. QED
        BY <3>1 DEF Read
    <2>. QED
      BY <2>1, <2>2, RpakFileAssumption DEF Read
  <1>3. ASSUME NEW at \in Nat \cup {OutOfFile}, NEW count \in Nat, NEW stride \in Nat \ {0}
        PROVE  /\ Over(at, count, stride) \in Nat \cup {OutOfFile}
               /\ Over(at, count, stride) # OutOfFile =>
                    /\ at # OutOfFile
                    /\ Over(at, count, stride) = at + count * stride
                    /\ Over(at, count, stride) \in 0..a.size
    <2>1. \/ Over(at, count, stride) = OutOfFile
          \/ /\ at \in 0..a.size
             /\ Over(at, count, stride) = at + count * stride
             /\ at + count * stride \in 0..a.size
      BY <1>2, <1>3, RowsAdvance
    <2>2. at \in Nat \cup {OutOfFile} /\ a.size \in Nat
      BY <1>2, <1>3
    <2>3. PICK v : v = Over(at, count, stride)
      OBVIOUS
    <2> HIDE DEF Over
    <2>4. CASE v = OutOfFile
      BY <2>3, <2>4
    <2>5. CASE v = at + count * stride /\ at \in 0..a.size /\ v \in 0..a.size
      BY <2>2, <2>3, <2>5 DEF OutOfFile
    <2>. QED
      BY <2>1, <2>3, <2>4, <2>5
  <1> HIDE DEF Over
  <1>4. h0 \in Nat /\ h1 \in Nat \cup {OutOfFile}
    BY <1>2, <1>3
  <1> HIDE DEF h1
  <1>5. h2 \in Nat \cup {OutOfFile}
    BY <1>2, <1>3, <1>4
  <1> HIDE DEF h2
  <1>6. h3 \in Nat \cup {OutOfFile}
    BY <1>2, <1>3, <1>5
  <1> HIDE DEF h3
  <1>7. h4 \in Nat \cup {OutOfFile}
    BY <1>2, <1>3, <1>6
  <1> HIDE DEF h4
  <1>8. h5 \in Nat \cup {OutOfFile}
    BY <1>2, <1>3, <1>7
  <1> HIDE DEF h5
  <1>9. h6 \in Nat \cup {OutOfFile}
    BY <1>2, <1>3, <1>8
  <1> HIDE DEF h6
  <1>10. h6 # OutOfFile /\ h7 = h6 + a.dependents * DependentRow /\ h7 \in 0..a.size
    <2>1. h6 \in Nat \cup {OutOfFile} /\ a.dependents \in Nat /\ DependentRow \in Nat \ {0}
      BY <1>2, <1>9
    <2>2. h7 # OutOfFile => /\ h6 # OutOfFile /\ h7 = h6 + a.dependents * DependentRow
                            /\ h7 \in 0..a.size
      BY <1>3, <2>1
    <2>. QED
      BY <1>1, <2>2
  <1>11. h5 # OutOfFile /\ h6 = h5 + a.uses * PointerRow
    <2>1. h5 \in Nat \cup {OutOfFile} /\ a.uses \in Nat /\ PointerRow \in Nat \ {0}
      BY <1>2, <1>8
    <2>2. Over(h5, a.uses, PointerRow) # OutOfFile =>
            h5 # OutOfFile /\ Over(h5, a.uses, PointerRow) = h5 + a.uses * PointerRow
      BY <1>3, <2>1
    <2>. QED
      BY <1>10, <2>2 DEF h6
  <1>12. h4 # OutOfFile /\ h5 = h4 + Len(a.assets) * AssetRow
    BY <1>2, <1>3, <1>7, <1>11 DEF h5
  <1>13. h3 # OutOfFile /\ h4 = h3 + a.pointers * PointerRow
    BY <1>2, <1>3, <1>6, <1>12 DEF h4
  <1>14. h2 # OutOfFile /\ h3 = h2 + Len(a.pages) * PageRow
    BY <1>2, <1>3, <1>5, <1>13 DEF h3
  <1>15. h1 # OutOfFile /\ h2 = h1 + a.slabs * SlabRow
    BY <1>2, <1>3, <1>4, <1>14 DEF h2
  <1>16. h1 = HeaderSize + a.paths * 1 /\ a.paths * 1 = a.paths
    <2>1. h0 \in Nat \cup {OutOfFile} /\ a.paths \in Nat /\ 1 \in Nat \ {0}
      BY <1>2
    <2>2. h1 = h0 + a.paths * 1
      BY <1>3, <1>15, <2>1 DEF h1
    <2>. QED
      BY <2>1, <2>2
  <1> HIDE DEF h7
  <1>. QED
    BY <1>1, <1>10, <1>11, <1>12, <1>13, <1>14, <1>15, <1>16 DEF TableBytes

\* Where the pages are: each from the one before it.
Cursors == Nat \cup {OutOfFile}

LEMMA PagesAre ==
    ASSUME NEW a, Read(a)
    PROVE  /\ Len(a.pages) \in Nat /\ \A n \in 1..Len(a.pages) : a.pages[n] \in Nat
           /\ a.size \in Nat /\ PageDataOffset(a) \in Cursors /\ TableBytes(a) \in Nat
  <1>1. /\ Len(a.pages) \in Nat /\ \A n \in 1..Len(a.pages) : a.pages[n] \in Nat
        /\ a.size \in Nat
    BY DEF Read
  <1>2. TableBytes(a) \in Nat
    <2>1. Len(a.assets) \in Nat
      <3>1. ASSUME NEW S, NEW s \in Seq(S)
            PROVE  Len(s) \in Nat
        BY <3>1
      <3>. QED
        BY <3>1 DEF Read
    <2>2. \A x, y \in Nat : x * y \in Nat /\ x + y \in Nat
      OBVIOUS
    <2>. QED
      BY <1>1, <2>1, <2>2, RpakFileAssumption DEF Read, TableBytes
  <1>3. PageDataOffset(a) \in Cursors
    <2>1. CASE PageDataOffset(a) = OutOfFile
      BY <2>1 DEF Cursors
    <2>2. CASE PageDataOffset(a) # OutOfFile
      BY <1>2, <2>2, TablesFit DEF Cursors
    <2>. QED
      BY <2>1, <2>2
  <1>. QED
    BY <1>1, <1>2, <1>3

LEMMA OffsetsAre ==
    ASSUME NEW a, Read(a)
    PROVE  /\ PageOffsets(a)[0] = PageDataOffset(a)
           /\ \A n \in 0..Len(a.pages) : PageOffsets(a)[n] \in Cursors
           /\ \A n \in 1..Len(a.pages) :
                PageOffsets(a)[n] = RpakAdvance(a.size, PageOffsets(a)[n - 1], a.pages[n], 1)
  <1> DEFINE N == Len(a.pages)
             step == [n \in 1..N |-> [c \in Cursors |-> RpakAdvance(a.size, c, a.pages[n], 1)]]
             Rec(g) == [n \in 0..N |-> IF n = 0 THEN PageDataOffset(a)
                                       ELSE RpakAdvance(a.size, g[n - 1], a.pages[n], 1)]
  <1>1. /\ N \in Nat /\ PageDataOffset(a) \in Cursors
        /\ \A n \in 1..N, c \in Cursors : step[n][c] = RpakAdvance(a.size, c, a.pages[n], 1)
    BY PagesAre
  <1>2. step \in [1..N -> [Cursors -> Cursors]]
    <2>1. ASSUME NEW n \in 1..N, NEW c \in Cursors
          PROVE  RpakAdvance(a.size, c, a.pages[n], 1) \in Cursors
      <3>1. c \in Nat \cup {OutOfFile} /\ a.pages[n] \in Nat /\ 1 \in Nat \ {0}
        BY <2>1, PagesAre DEF Cursors
      <3>2. \/ RpakAdvance(a.size, c, a.pages[n], 1) = OutOfFile
            \/ /\ RpakAdvance(a.size, c, a.pages[n], 1) = c + a.pages[n] * 1
               /\ c + a.pages[n] * 1 \in 0..a.size
        <4>1. a.size \in Nat
          BY PagesAre
        <4>. QED
          BY <3>1, <4>1, RowsAdvance
      <3>. QED
        BY <3>2 DEF Cursors
    <2>. QED
      BY <2>1
  <1>3. PICK f : Walked(Cursors, f, PageDataOffset(a), step, N)
    <2> HIDE DEF step, N
    <2>. QED
      BY <1>1, <1>2, WalkThere
  <1>4. f = Rec(f)
    <2>1. ASSUME NEW n \in 0..N
          PROVE  f[n] = Rec(f)[n]
      <3>1. CASE n = 0
        BY <1>1, <1>3, <3>1 DEF Walked
      <3>2. CASE n # 0
        <4>1. n \in 1..N /\ n - 1 \in 0..N
          BY <1>1, <3>2
        <4>2. f[n] = step[n][f[n - 1]] /\ f[n - 1] \in Cursors
          BY <1>3, <4>1 DEF Walked
        <4>. QED
          BY <1>1, <3>2, <4>1, <4>2
      <3>. QED
        BY <3>1, <3>2
    <2>2. f = [n \in 0..N |-> f[n]]
      BY <1>3 DEF Walked
    <2>. QED
      BY <2>1, <2>2
  <1>5. PageOffsets(a) = CHOOSE p : p = Rec(p)
    BY DEF PageOffsets
  <1>6. PageOffsets(a) = Rec(PageOffsets(a))
    <2> HIDE DEF Rec
    <2>. QED
      BY <1>4, <1>5, Zenon
  <1>7. \A n \in 0..N : PageOffsets(a)[n] = IF n = 0 THEN PageDataOffset(a)
                                            ELSE RpakAdvance(a.size, PageOffsets(a)[n - 1], a.pages[n], 1)
    <2>1. PICK g : g = PageOffsets(a)
      OBVIOUS
    <2>2. \A n \in 0..N : g[n] = Rec(g)[n]
      <3> HIDE DEF Rec
      <3>. QED
        BY <1>6, <2>1, Zenon
    <2>3. \A n \in 0..N : g[n] = IF n = 0 THEN PageDataOffset(a)
                                 ELSE RpakAdvance(a.size, g[n - 1], a.pages[n], 1)
      BY <2>2
    <2>. QED
      BY <2>1, <2>3, Zenon
  <1> HIDE DEF Rec
  <1>8. PageOffsets(a)[0] = PageDataOffset(a)
        /\ \A n \in 1..N : PageOffsets(a)[n] = RpakAdvance(a.size, PageOffsets(a)[n - 1], a.pages[n], 1)
    BY <1>1, <1>7
  <1>9. \A n \in 0..N : PageOffsets(a)[n] \in Cursors
    <2> DEFINE S == {n \in 0..N : PageOffsets(a)[n] \notin Cursors}
    <2>1. SUFFICES ASSUME S # {} PROVE FALSE
      OBVIOUS
    <2>2. PICK n \in S : \A m \in S : n <= m
      <3>1. S \in SUBSET Nat
        OBVIOUS
      <3> HIDE DEF S
      <3>. QED
        BY <2>1, <3>1, LeastOf
    <2>3. n \in 1..N /\ n - 1 \in 0..N /\ n - 1 \notin S
      BY <1>1, <1>8, <2>2
    <2>4. PageOffsets(a)[n - 1] \in Cursors
      BY <2>3
    <2>5. step[n][PageOffsets(a)[n - 1]] \in Cursors
      <3> HIDE DEF step
      <3>. QED
        BY <1>2, <2>3, <2>4
    <2>6. PageOffsets(a)[n] = step[n][PageOffsets(a)[n - 1]]
      BY <1>1, <1>8, <2>3, <2>4
    <2>. QED
      BY <2>2, <2>5, <2>6
  <1>. QED
    BY <1>8, <1>9

LEMMA TrueOffsetsAre ==
    ASSUME NEW a, Read(a)
    PROVE  /\ TrueOffsets(a)[0] = TableBytes(a)
           /\ \A n \in 1..Len(a.pages) : TrueOffsets(a)[n] = TrueOffsets(a)[n - 1] + a.pages[n]
  <1> DEFINE N == Len(a.pages)
             step == [n \in 1..N |-> [c \in Cursors |-> IF c = OutOfFile THEN OutOfFile ELSE c + a.pages[n]]]
             Rec(g) == [n \in 0..N |-> IF n = 0 THEN TableBytes(a) ELSE g[n - 1] + a.pages[n]]
  <1>1. /\ N \in Nat /\ TableBytes(a) \in Nat /\ TableBytes(a) \in Cursors
        /\ \A n \in 1..N : a.pages[n] \in Nat
        /\ \A n \in 1..N, c \in Nat : step[n][c] = c + a.pages[n]
    BY PagesAre DEF Cursors, OutOfFile
  <1>2. step \in [1..N -> [Cursors -> Cursors]]
    BY <1>1 DEF Cursors
  <1>3. PICK f : Walked(Cursors, f, TableBytes(a), step, N)
    <2> HIDE DEF step, N
    <2>. QED
      BY <1>1, <1>2, WalkThere
  <1>4. \A n \in 0..N : f[n] \in Nat
    <2> DEFINE S == {n \in 0..N : f[n] \notin Nat}
    <2>1. SUFFICES ASSUME S # {} PROVE FALSE
      OBVIOUS
    <2>2. PICK n \in S : \A m \in S : n <= m
      <3>1. S \in SUBSET Nat
        OBVIOUS
      <3> HIDE DEF S
      <3>. QED
        BY <2>1, <3>1, LeastOf
    <2>3. f[0] \in Nat
      BY <1>1, <1>3 DEF Walked
    <2>4. n \in 1..N /\ n - 1 \in 0..N /\ n - 1 \notin S
      BY <1>1, <2>2, <2>3
    <2>5. f[n - 1] \in Nat /\ a.pages[n] \in Nat
      BY <1>1, <2>4
    <2>6. f[n] = step[n][f[n - 1]]
      BY <1>3, <2>4 DEF Walked
    <2>7. step[n][f[n - 1]] = f[n - 1] + a.pages[n]
      BY <1>1, <2>4, <2>5
    <2>. QED
      BY <2>2, <2>5, <2>6, <2>7
  <1>5. f = Rec(f)
    <2>1. ASSUME NEW n \in 0..N
          PROVE  f[n] = Rec(f)[n]
      <3>1. CASE n = 0
        BY <1>1, <1>3, <3>1 DEF Walked
      <3>2. CASE n # 0
        <4>1. n \in 1..N /\ n - 1 \in 0..N
          BY <1>1, <3>2
        <4>2. f[n] = step[n][f[n - 1]] /\ f[n - 1] \in Nat
          BY <1>3, <1>4, <4>1 DEF Walked
        <4>. QED
          BY <1>1, <3>2, <4>1, <4>2
      <3>. QED
        BY <3>1, <3>2
    <2>2. f = [n \in 0..N |-> f[n]]
      BY <1>3 DEF Walked
    <2>. QED
      BY <2>1, <2>2
  <1>6. TrueOffsets(a) = CHOOSE p : p = Rec(p)
    BY DEF TrueOffsets, TableBytes
  <1>7. TrueOffsets(a) = Rec(TrueOffsets(a))
    <2> HIDE DEF Rec
    <2>. QED
      BY <1>5, <1>6, Zenon
  <1>8. \A n \in 0..N : TrueOffsets(a)[n] = IF n = 0 THEN TableBytes(a) ELSE TrueOffsets(a)[n - 1] + a.pages[n]
    <2>1. PICK g : g = TrueOffsets(a)
      OBVIOUS
    <2>2. \A n \in 0..N : g[n] = Rec(g)[n]
      <3> HIDE DEF Rec
      <3>. QED
        BY <1>7, <2>1, Zenon
    <2>3. \A n \in 0..N : g[n] = IF n = 0 THEN TableBytes(a) ELSE g[n - 1] + a.pages[n]
      BY <2>2
    <2>. QED
      BY <2>1, <2>3, Zenon
  <1> HIDE DEF Rec
  <1>. QED
    BY <1>1, <1>8

\* An offset that is not OutOfFile is the true one, and so are all before it.
LEMMA OffsetsAreTrue ==
    ASSUME NEW a, Read(a), PageOffsets(a)[Len(a.pages)] # OutOfFile
    PROVE  \A n \in 0..Len(a.pages) : /\ PageOffsets(a)[n] = TrueOffsets(a)[n]
                                      /\ TrueOffsets(a)[n] \in 0..a.size
  <1> DEFINE N == Len(a.pages)
             at == PageOffsets(a)
             true == TrueOffsets(a)
             Out == {n \in 0..N : at[n] = OutOfFile}
             Wrong == {n \in 0..N : ~(at[n] = true[n] /\ true[n] \in 0..a.size)}
  <1>1. /\ N \in Nat /\ at[0] = PageDataOffset(a) /\ true[0] = TableBytes(a)
        /\ a.size \in Nat
        /\ at[N] # OutOfFile
    BY OffsetsAre, TrueOffsetsAre, PagesAre
  <1>2. ASSUME NEW n \in 1..N
        PROVE  /\ n - 1 \in 0..N /\ n \in 0..N
               /\ true[n] = true[n - 1] + a.pages[n]
               /\ at[n] # OutOfFile =>
                    at[n - 1] # OutOfFile /\ at[n] = at[n - 1] + a.pages[n] /\ at[n] \in 0..a.size
    <2>1. n - 1 \in 0..N /\ n \in 0..N
      BY <1>1
    <2>2. at[n - 1] \in Nat \cup {OutOfFile} /\ a.pages[n] \in Nat /\ 1 \in Nat \ {0}
      <3>1. at[n - 1] \in Cursors /\ a.pages[n] \in Nat
        BY <2>1, OffsetsAre, PagesAre
      <3>. QED
        BY <3>1 DEF Cursors
    <2>3. \/ RpakAdvance(a.size, at[n - 1], a.pages[n], 1) = OutOfFile
          \/ /\ at[n - 1] \in 0..a.size
             /\ RpakAdvance(a.size, at[n - 1], a.pages[n], 1) = at[n - 1] + a.pages[n] * 1
             /\ at[n - 1] + a.pages[n] * 1 \in 0..a.size
      <3> HIDE DEF at
      <3>. QED
        BY <1>1, <2>2, RowsAdvance
    <2>4. at[n] = RpakAdvance(a.size, at[n - 1], a.pages[n], 1) /\ true[n] = true[n - 1] + a.pages[n]
      BY OffsetsAre, TrueOffsetsAre
    <2> HIDE DEF at, true
    <2>. QED
      BY <2>1, <2>2, <2>3, <2>4 DEF OutOfFile
  <1> HIDE DEF at, true
  <1>3. Out = {}
    <2> DEFINE Left == {m \in 0..N : at[N - m] = OutOfFile}
    <2>1. SUFFICES ASSUME Out # {} PROVE FALSE
      OBVIOUS
    <2>2. PICK n \in 0..N : at[n] = OutOfFile
      BY <2>1
    <2>3. N - n \in 0..N /\ N - (N - n) = n
      BY <1>1
    <2>4. Left # {} /\ Left \in SUBSET Nat
      <3>1. at[N - (N - n)] = OutOfFile
        BY <2>2, <2>3, Zenon
      <3>2. N - n \in Left
        BY <2>3, <3>1
      <3>3. 0..N \subseteq Nat
        BY <1>1
      <3>4. Left \subseteq 0..N
        OBVIOUS
      <3> HIDE DEF Left
      <3>. QED
        BY <3>2, <3>3, <3>4
    <2>5. PICK m \in Left : \A k \in Left : m <= k
      <3> HIDE DEF Left
      <3>. QED
        BY <2>4, LeastOf
    <2>6. m \in 0..N /\ at[N - m] = OutOfFile /\ m # 0
      <3>1. m \in 0..N /\ at[N - m] = OutOfFile
        BY <2>5
      <3>2. N - 0 = N
        <4>1. N \in Nat
          BY <1>1
        <4> HIDE DEF N
        <4>. QED
          BY <4>1
      <3>3. m = 0 => at[N] = OutOfFile
        BY <3>1, <3>2, Zenon
      <3>. QED
        BY <1>1, <3>1, <3>3
    <2>7. N - m + 1 \in 1..N /\ m - 1 \in 0..N /\ N - m + 1 - 1 = N - m /\ N - (m - 1) = N - m + 1
      BY <1>1, <2>6
    <2>8. at[N - (m - 1)] = OutOfFile
      BY <1>2, <2>6, <2>7
    <2>9. m - 1 \in Left
      BY <2>7, <2>8
    <2>. QED
      BY <2>5, <2>6, <2>9
  <1>4. Wrong = {}
    <2>1. SUFFICES ASSUME Wrong # {} PROVE FALSE
      OBVIOUS
    <2>2. PICK n \in Wrong : \A m \in Wrong : n <= m
      <3>1. Wrong \in SUBSET Nat
        OBVIOUS
      <3> HIDE DEF Wrong
      <3>. QED
        BY <2>1, <3>1, LeastOf
    <2>3. at[0] # OutOfFile
      BY <1>1, <1>3
    <2>4. 0 \notin Wrong
      BY <1>1, <2>3, TablesFit
    <2>5. n \in 0..N /\ ~(at[n] = true[n] /\ true[n] \in 0..a.size)
      BY <2>2
    <2>6. n \in 1..N
      BY <1>1, <2>2, <2>4, <2>5
    <2>7. n - 1 \in 0..N /\ at[n] # OutOfFile
      BY <1>2, <1>3, <2>5, <2>6
    <2>8. n - 1 \notin Wrong
      <3> HIDE DEF Wrong
      <3>. QED
        BY <2>2, <2>6
    <2>9. at[n - 1] = true[n - 1]
      BY <2>7, <2>8
    <2>. QED
      BY <1>2, <2>5, <2>6, <2>7, <2>9
  <1>. QED
    BY <1>4 DEF at, true

\* An archive that was let through is one the inspection took.
ArchiveInv ==
    /\ archive \in PakFiles /\ verdict \in {"unread", "refused", "loadable"}
    /\ verdict = "loadable" => Loadable(archive)

LEMMA LoadableIsHeld ==
    ASSUME ArchiveInv
    PROVE  ArchiveHeld
  <1> DEFINE a == archive
             N == Len(a.pages)
             true == TrueOffsets(a)
  <1>1. SUFFICES ASSUME verdict = "loadable" PROVE ArchiveHeld
    BY DEF ArchiveHeld
  <1>2. Read(a)
    BY PakFilesAssumption DEF ArchiveInv, Read
  <1>3. Inspects(a) /\ IsSupportedPs4TextureRpak(a)
    BY <1>1 DEF ArchiveInv, Loadable
  <1>4. /\ \A n \in 0..N : PageOffsets(a)[n] = true[n] /\ true[n] \in 0..a.size
        /\ \A n \in 1..N : true[n] = true[n - 1] + a.pages[n] /\ a.pages[n] \in Nat
        /\ N \in Nat /\ a.size \in Nat
    BY <1>2, <1>3, OffsetsAreTrue, TrueOffsetsAre, PagesAre DEF Inspects
  <1>5. true[N] <= a.size
    BY <1>4
  <1>6. ASSUME NEW i \in Textures(a)
        PROVE  /\ MarkerByte(a, a.assets[i]) >= true[a.assets[i].page]
               /\ MarkerByte(a, a.assets[i]) < true[a.assets[i].page + 1]
               /\ a.assets[i].marker = "ps4"
    <2>1. PICK x : x = a.assets[i]
      OBVIOUS
    <2>2. x.page \in Nat /\ x.offset \in Nat /\ x.head \in Nat
      <3>1. i \in DOMAIN a.assets
        BY DEF Textures
      <3>2. a.assets[i] \in [type : STRING, page : Nat, offset : Nat, head : Nat, marker : STRING]
        <4>1. ASSUME NEW S, NEW s \in Seq(S), NEW j \in DOMAIN s
              PROVE  s[j] \in S
          BY <4>1
        <4>. QED
          BY <1>2, <3>1, <4>1 DEF Read
      <3>. QED
        BY <2>1, <3>2
    <2>3. HeaderInside(a, x) /\ x.marker = "ps4"
      BY <1>3, <2>1 DEF Inspects, IsSupportedPs4TextureRpak
    <2>4. /\ x.page < N /\ x.head > MarkerAt /\ x.offset <= a.pages[x.page + 1]
          /\ x.head <= a.pages[x.page + 1] - x.offset
      BY <2>3 DEF HeaderInside
    <2>5. x.page \in 0..N /\ x.page + 1 \in 1..N /\ x.page + 1 \in 0..N /\ x.page + 1 - 1 = x.page
      BY <1>4, <2>2, <2>4
    <2>6. /\ PageOffsets(a)[x.page] = true[x.page] /\ true[x.page] \in 0..a.size
          /\ true[x.page + 1] \in 0..a.size
          /\ true[x.page + 1] = true[x.page] + a.pages[x.page + 1] /\ a.pages[x.page + 1] \in Nat
      BY <1>4, <2>5
    <2> HIDE DEF true
    <2>7. MarkerAt \in Nat
      BY RpakFileAssumption
    <2>8. true[x.page] + x.offset + MarkerAt \in true[x.page]..true[x.page + 1] - 1
      <3>1. ASSUME NEW s \in Nat, NEW t \in 0..s, NEW p \in Nat, NEW o \in Nat, NEW h \in Nat,
                   t + p \in 0..s, o <= p, h <= p - o, h > MarkerAt
            PROVE  t + o + MarkerAt \in t..t + p - 1
        BY <2>7, <3>1
      <3>2. true[x.page] + a.pages[x.page + 1] \in 0..a.size
        BY <2>6
      <3>3. PICK p : p = a.pages[x.page + 1]
        OBVIOUS
      <3>4. PICK at : at = true[x.page]
        OBVIOUS
      <3>5. /\ a.size \in Nat /\ at \in 0..a.size /\ p \in Nat /\ at + p \in 0..a.size
            /\ x.offset <= p /\ x.head <= p - x.offset
        BY <1>4, <2>4, <2>6, <3>2, <3>3, <3>4
      <3>6. at + x.offset + MarkerAt \in at..at + p - 1
        BY <2>2, <2>4, <3>1, <3>5
      <3>. QED
        BY <2>6, <3>3, <3>4, <3>6
    <2>9. MarkerByte(a, x) = true[x.page] + x.offset + MarkerAt
      BY <2>6 DEF MarkerByte
    <2>. QED
      BY <2>1, <2>3, <2>6, <2>8, <2>9
  <1>. QED
    BY <1>5, <1>6 DEF ArchiveHeld

-----------------------------------------------------------------------------
LEMMA RpaksPart ==
    /\ FilesInit => RpaksInv /\ NamedInv
    /\ RpaksInv /\ NamedInv /\ [FilesNext]_filesVars => RpaksInv' /\ NamedInv'
    /\ RpaksInv /\ [FilesNext]_filesVars =>
         [\A t \in PakThreads :
            thread[t].at = "scan" /\ thread'[t].at = "idle" =>
                \/ refusals > 0 \/ thread[t].turnedAway
                \/ \A k \in thread[t].overdue : handle[k] # Unset]_rpaksVars
  <1>1. FilesInit => RpaksInv /\ NamedInv
    BY RpaksInvInit, NamedInvInit DEF FilesInit
  <1>2. ASSUME [FilesNext]_filesVars
        PROVE  RpaksNext \/ UNCHANGED rpaksVars
    BY <1>2 DEF FilesNext, filesVars
  <1>3. ASSUME RpaksInv, UNCHANGED rpaksVars
        PROVE  RpaksInv'
    BY <1>3, RpaksStays
  <1>. QED
    BY <1>1, <1>2, <1>3, RpaksInvStep, NamedInvStep, OverdueStep

LEMMA ArchivePart ==
    /\ FilesInit => ArchiveInv
    /\ ArchiveInv /\ [FilesNext]_filesVars => ArchiveInv'
  <1>1. FilesInit => ArchiveInv
    <2>1. RpakFileInit => ArchiveInv
      BY DEF RpakFileInit, ArchiveInv
    <2>. QED
      BY <2>1 DEF FilesInit
  <1>2. ASSUME ArchiveInv, [FilesNext]_filesVars
        PROVE  ArchiveInv'
    <2>1. RpakFileNext \/ UNCHANGED rpakFileVars
      BY <1>2 DEF FilesNext, filesVars
    <2>2. CASE RpakFileNext
      <3>1. archive' = archive /\ verdict' = IF Loadable(archive) THEN "loadable" ELSE "refused"
        BY <2>2 DEF RpakFileNext, Inspect
      <3>. QED
        BY <1>2, <3>1 DEF ArchiveInv
    <2>3. CASE UNCHANGED rpakFileVars
      BY <1>2, <2>3 DEF rpakFileVars, ArchiveInv
    <2>. QED
      BY <2>1, <2>2, <2>3
  <1>. QED
    BY <1>1, <1>2

\* Whatever the loader refuses, whichever threads ask and whether or not a page's
\* protection is restored: the passes load no mod's pak twice, nor before the pak
\* it follows was asked for, and a mod's pak that the loader has twice, or early,
\* the engine itself asked for by name; of the mods' paks behind common.rpak the
\* passes load those the materials need first; and what a scan of the table set out to load is loaded when
\* it ends, unless the loader refused one or another thread's pass was met
\* (ModLoadPakAsync, LoadModRpaks, LoadOverdueModRpaks).
THEOREM PaksAreInOrder ==
    FilesSpec => /\ [](LoadedOnce /\ AfterItsParent /\ PreloadFirst /\ StreamsExist)
                 /\ OverdueIsLoaded
  <1>1. RpaksInv /\ NamedInv => LoadedOnce /\ AfterItsParent /\ PreloadFirst /\ StreamsExist
    BY LoadedOnceAndBehind
  <1>. QED
    BY <1>1, RpaksPart, PTL DEF FilesSpec, OverdueIsLoaded

\* The engine is given only archives whose tables and pages lie in their file,
\* with each texture's marker read from inside its page, whatever the header's
\* counts claim; and a call site that reaches the hook finds the loader behind
\* it, unless its page did not take its protection back, with what
\* PaksAreInOrder says (RpakAdvance, InspectRpakTexturePlatformsWith,
\* InstallModRpakHook).
THEOREM ArchivesAreSound == FilesSpec => ArchivesSound
  <1>1. RpaksInv /\ NamedInv => (part \in {"rpaks", "refusals"} => RpaksInvariant)
    BY LoadedOnceAndBehind, OriginalKnown DEF RpaksInvariant
  <1>2. ArchiveInv => (part = "archive" => ArchiveHeld)
    BY LoadableIsHeld DEF ArchiveInv
  <1>. QED
    BY <1>1, <1>2, RpaksPart, ArchivePart, PTL DEF FilesSpec, ArchivesSound, OverdueIsLoaded

\* The state of every component that runs has its type.
THEOREM FilesAreTyped == FilesSpec => []FilesTypeOK
  <1>1. RpaksInv => RpaksTypeOK
    BY DEF RpaksInv, HookInv, TableInv, ThreadsInv, Doing, RpaksTypeOK
  <1>2. ArchiveInv => RpakFileTypeOK
    BY PakFilesAssumption DEF ArchiveInv, RpakFileTypeOK
  <1>3. ServedInv => ServedTypeOK
    BY DEF ServedInv
  <1>4. SavesInv => SaveFilesTypeOK
    BY DEF SavesInv
  <1>5. ServedInv /\ [FilesNext]_filesVars => ServedInv'
    BY ServedPartStep
  <1>6. FilesInit => ServedInv
    BY ServedPartInit
  <1>7. SetInv => ModSetTypeOK
    BY DEF SetInv
  <1>8. RpaksInv /\ ArchiveInv /\ ServedInv /\ SavesInv /\ SetInv => FilesTypeOK
    BY <1>1, <1>2, <1>3, <1>4, <1>7 DEF FilesTypeOK
  <1>. QED
    BY <1>5, <1>6, <1>8, RpaksPart, ArchivePart, SavesPart, ListsPart, PTL DEF FilesSpec

================================================================================
