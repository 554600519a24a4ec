------------------------------ MODULE SaveFiles ------------------------------
(***************************************************************************)
(* The Safe I/O files of one mod: NSSaveFile and its kin write a temporary *)
(* and rename it, on the thread of the script that calls (the UI's or a    *)
(* SERVER worker), without a lock; NSLoadFile reads the size and then the  *)
(* file. Saves fail, and the console may stop, at any step.                *)
(***************************************************************************)
EXTENDS Integers, FiniteSets, SequencesExt

CONSTANTS
    SaveThreads,      \* script threads
    Requests,         \* relative paths scripts ask for, as sequences of segments
    AllowedLeaves,    \* names whose extension is on the whitelist
    Texts, LongTexts, \* contents scripts save, in one block or, the long ones, two
    NoText,
    MaxSaveFolderSize,
    Inodes,           \* files that names may refer to, as numbers
    MaxCalls          \* bound: natives called

ASSUME SaveFilesAssumption ==
    /\ IsFiniteSet(Requests) /\ Requests \subseteq Seq(STRING) \ {<<>>}
    /\ {"", ".", ".."} \cap AllowedLeaves = {}
    /\ LongTexts \subseteq Texts /\ NoText \notin Texts /\ MaxSaveFolderSize \in Nat
    /\ Inodes \subseteq Nat \ {0} /\ MaxCalls \in Nat

VARIABLES
    file,        \* the inode of each path, NoInode for none
    temporary,   \* the inode of each path's ".tmp"
    bytes,       \* each inode's blocks
    unsynced,    \* inodes written since their last fsync
    call,        \* the native each script thread is in
    calls,       \* how many were called
    saved,       \* history: the text last committed to each path, NoText after a delete
    shared,      \* history: paths whose saves overlapped
    overlapped   \* history: any two saves overlapped

saveVars == <<file, temporary, bytes, unsynced, call, calls, saved, shared, overlapped>>

Folder == <<"mod">>
NoInode == 0
Size(text) == IF text \in LongTexts THEN 2 ELSE 1
(* How the file system reads a path. *)
Resolve(path) ==
    LET at[n \in 0..Len(path)] ==
          IF n = 0 THEN <<>>
          ELSE IF path[n] \in {"", "."} THEN at[n - 1]
          ELSE IF path[n] = ".." THEN Front(at[n - 1])
          ELSE Append(at[n - 1], path[n])
    IN  at[Len(path)]
Path == {Resolve(Folder \o r) : r \in Requests}
Idle == [pc |-> "idle", path |-> Folder, text |-> NoText, inode |-> NoInode,
         at |-> 0, ok |-> TRUE]
Call == [pc: {"idle", "checked", "writing", "flushed", "sized"}, path: Path \cup {Folder},
          text: Texts \cup {NoText}, inode: Inodes \cup {NoInode}, at: 0..2, ok: BOOLEAN]

SaveFilesTypeOK ==
    /\ file \in [Path -> Inodes \cup {NoInode}] /\ temporary \in [Path -> Inodes \cup {NoInode}]
    /\ bytes \in [Inodes -> Seq(Texts \cup {NoText})] /\ \A i \in Inodes : Len(bytes[i]) <= 2
    /\ unsynced \subseteq Inodes
    /\ call \in [SaveThreads -> Call]
    /\ calls \in 0..MaxCalls /\ saved \in [Path -> Texts \cup {NoText}] /\ shared \subseteq Path /\ overlapped \in BOOLEAN

SaveFilesInit ==
    /\ file = [p \in Path |-> NoInode] /\ temporary = [p \in Path |-> NoInode]
    /\ bytes = [i \in Inodes |-> <<>>] /\ unsynced = {}
    /\ call = [t \in SaveThreads |-> Idle] /\ calls = 0
    /\ saved = [p \in Path |-> NoText] /\ shared = {} /\ overlapped = FALSE

Named(i) == \E p \in Path : i \in {file[p], temporary[p]}
Unused == {i \in Inodes : ~Named(i) /\ \A t \in SaveThreads : call[t].inode # i}
NoUse == UNCHANGED <<file, temporary, bytes, unsynced, saved, shared, overlapped>>
Calls(t) == call[t] = Idle /\ calls < MaxCalls /\ calls' = calls + 1
Saving(t) == call[t].pc \in {"checked", "writing", "flushed"}

----------------------------------------------------------------------------
(* SavePathSafe: no prefix of the path climbs above the folder.             *)
(* A plausible bug: the depth is looked at once, at the end.                *)
Ups(r, n) == Cardinality({i \in 1..n : r[i] = ".."})
Downs(r, n) == Cardinality({i \in 1..n : r[i] \notin {"", ".", ".."}})
EndsInside(r) == Ups(r, Len(r)) <= Downs(r, Len(r))
SavePathSafe(r) == \A n \in 1..Len(r) : Ups(r, n) <= Downs(r, n)
SaveExtensionAllowed(leaf) == leaf \in AllowedLeaves

(* FolderSize: every file below the folder, temporaries included, but for   *)
(* the folder's own entry of the name to skip.                               *)
SizeOf(i) == IF i = NoInode THEN 0 ELSE Len(bytes[i])
Below == {p \in Path : Len(p) > 1 /\ p[1] = Folder[1]}
Skips(p, skip) == p[2] = skip
FileBlocks(skip) == {b \in Below \X (1..2) : ~Skips(b[1], skip) /\ b[2] <= SizeOf(file[b[1]])}
TemporaryBlocks(skip) ==
    {b \in Below \X (1..2) : (Skips(b[1], skip) => Len(b[1]) = 2) /\ b[2] <= SizeOf(temporary[b[1]])}
FolderSize(skip) == Cardinality(FileBlocks(skip)) + Cardinality(TemporaryBlocks(skip))

(* SaveFile up to the checks of WriteSaveFile: the path, the cap and the     *)
(* extension; a refusal ends the call.                                       *)
SaveFile(t, r, text) ==
    LET path == Resolve(Folder \o r) IN
    /\ Calls(t)
    /\ SavePathSafe(r)
    /\ FolderSize(Last(r)) + Size(text) <= MaxSaveFolderSize
    /\ SaveExtensionAllowed(Last(r))
    /\ call' = [call EXCEPT ![t] = [Idle EXCEPT !.pc = "checked", !.path = path,
                                                !.text = text]]
    /\ overlapped' = (overlapped \/ \E u \in SaveThreads : Saving(u))
    /\ shared' = shared \cup {p \in {path} : \E u \in SaveThreads : Saving(u) /\ call[u].path = p}
    /\ UNCHANGED <<file, temporary, bytes, unsynced, saved>>

(* fopen "wb": the temporary that is there is emptied, whoever writes it.     *)
OpenTemporary(t) ==
    LET p == call[t].path IN
    /\ call[t].pc = "checked"
    /\ \/ \E i \in IF temporary[p] # NoInode THEN {temporary[p]} ELSE Unused :
             /\ \A j \in Unused : i = temporary[p] \/ i <= j
             /\ temporary' = [temporary EXCEPT ![p] = i]
             /\ bytes' = [bytes EXCEPT ![i] = <<>>]
             /\ unsynced' = unsynced \cup {i}
             /\ call' = [call EXCEPT ![t].pc = "writing", ![t].inode = i]
       \/ call' = [call EXCEPT ![t] = Idle] /\ UNCHANGED <<temporary, bytes, unsynced>>
    /\ UNCHANGED <<file, calls, saved, shared, overlapped>>

(* A plausible bug: the temporary is opened for appending.                    *)
Appended(blocks, n, text) == Append(blocks, text)
(* A block at the writer's own offset; a gap reads as zeros. *)
Put(blocks, n, text) ==
    [k \in 1..(IF n > Len(blocks) THEN n ELSE Len(blocks)) |->
        IF k = n THEN text ELSE IF k > Len(blocks) THEN NoText ELSE blocks[k]]
WriteBlock(t) ==
    LET c == call[t] IN
    /\ c.pc = "writing" /\ c.at < Size(c.text)
    /\ \/ /\ bytes' = [bytes EXCEPT ![c.inode] = Put(@, c.at + 1, c.text)]
          /\ unsynced' = unsynced \cup {c.inode}
          /\ call' = [call EXCEPT ![t].at = @ + 1]
       \/ /\ call' = [call EXCEPT ![t].at = Size(c.text), ![t].ok = FALSE]
          /\ UNCHANGED <<bytes, unsynced>>
    /\ UNCHANGED <<file, temporary, calls, saved, shared, overlapped>>

Commits(t) == call[t].ok
(* fflush, fsync and fclose. *)
Flush(t) ==
    LET c == call[t] IN
    /\ c.pc = "writing" /\ c.at = Size(c.text)
    /\ \E ok \in {c.ok, FALSE} :
          /\ call' = [call EXCEPT ![t].pc = "flushed", ![t].ok = ok]
          /\ unsynced' = IF ok THEN unsynced \ {c.inode} ELSE unsynced
    /\ UNCHANGED <<file, temporary, bytes, calls, saved, shared, overlapped>>

(* rename, or remove of the temporary: by name, whatever is there now. *)
Rename(t) ==
    LET p == call[t].path IN
    /\ call[t].pc = "flushed"
    /\ \/ /\ Commits(t) /\ temporary[p] # NoInode
          /\ file' = [file EXCEPT ![p] = temporary[p]]
          /\ saved' = [saved EXCEPT ![p] = call[t].text]
       \/ UNCHANGED <<file, saved>>
    /\ temporary' = [temporary EXCEPT ![p] = NoInode]
    /\ call' = [call EXCEPT ![t] = Idle]
    /\ UNCHANGED <<bytes, unsynced, calls, shared, overlapped>>

DeleteSaveFile(t, r) ==
    LET p == Resolve(Folder \o r) IN
    /\ Calls(t) /\ SavePathSafe(r) /\ file[p] # NoInode
    /\ file' = [file EXCEPT ![p] = NoInode]
    /\ saved' = [saved EXCEPT ![p] = NoText]
    /\ UNCHANGED <<temporary, bytes, unsynced, call, shared, overlapped>>

(* LoadFile: the size by one open, the contents by another; a load succeeds  *)
(* when it read as many bytes as the size. `inode` is history: what was sized. *)
SizeFile(t, r) ==
    LET p == Resolve(Folder \o r) IN
    /\ Calls(t) /\ SavePathSafe(r) /\ file[p] # NoInode
    /\ SizeOf(file[p]) <= MaxSaveFolderSize
    /\ call' = [call EXCEPT ![t] = [Idle EXCEPT !.pc = "sized", !.path = p, !.inode = file[p],
                                                !.at = SizeOf(file[p])]]
    /\ NoUse
Now(t) == bytes[file[call[t].path]]
Loads(t) == file[call[t].path] # NoInode /\ Len(Now(t)) >= call[t].at
Contents(t) == SubSeq(Now(t), 1, call[t].at)
ReadFile(t) ==
    /\ call[t].pc = "sized"
    /\ call' = [call EXCEPT ![t] = Idle]
    /\ UNCHANGED calls /\ NoUse

(* The console stops: calls are gone, and blocks that were not synced may be. *)
Stop ==
    /\ \E lost \in SUBSET unsynced :
          bytes' = [i \in Inodes |-> IF i \in lost THEN <<>> ELSE bytes[i]]
    /\ unsynced' = {} /\ call' = [t \in SaveThreads |-> Idle]
    /\ UNCHANGED <<file, temporary, calls, saved, shared, overlapped>>

SaveFilesNext ==
    \/ \E t \in SaveThreads, r \in Requests :
          (\E text \in Texts : SaveFile(t, r, text)) \/ DeleteSaveFile(t, r) \/ SizeFile(t, r)
    \/ \E t \in SaveThreads :
          OpenTemporary(t) \/ WriteBlock(t) \/ Flush(t) \/ Rename(t) \/ ReadFile(t)
    \/ Stop
SaveFilesSpec == SaveFilesInit /\ [][SaveFilesNext]_saveVars

----------------------------------------------------------------------------
Whole(text) == [n \in 1..Size(text) |-> text]

(* A file holds exactly the text last saved to it, although saves fail at     *)
(* every step and the console stops in the middle; but two script threads     *)
(* that save the same file at once share its one temporary, and such a file  *)
(* may hold a mixture (WriteSaveFile).                                       *)
FilesAreWhole ==
    \A p \in Path \ shared :
        IF saved[p] = NoText THEN file[p] = NoInode
        ELSE file[p] # NoInode /\ bytes[file[p]] = Whole(saved[p])

(* Nothing is written outside the mod's folder, however the path is spelled,  *)
(* and no name without a whitelisted extension is.                            *)
FilesAreInTheFolder ==
    \A p \in Path : file[p] # NoInode \/ temporary[p] # NoInode =>
        p \in Below /\ Last(p) \in AllowedLeaves

(* The cap bounds the folder, but only to twice itself: the skip meant for    *)
(* the file that is replaced leaves out the folder's entry of that name, and  *)
(* the old file is there until the rename. Saves at once are each checked      *)
(* before any of them is written; and where that entry is a folder, which has *)
(* the name of a file then, all of it is left out.                            *)
FilesAlone == \A p \in Below : Len(p) > 2 => p[2] \notin AllowedLeaves
FolderBounded ==
    ~overlapped /\ FilesAlone => FolderSize("") <= 2 * MaxSaveFolderSize

(* A load that succeeds is the text last saved, unless the file was replaced  *)
(* between its two opens: then it may be cut to the old size.                *)
LoadsAreWhole ==
    [][\A t \in SaveThreads :
          ReadFile(t) /\ Loads(t) /\ call[t].path \notin shared /\ file[call[t].path] = call[t].inode
             => Contents(t) = Whole(saved[call[t].path])]_saveVars

(* What scripts may rely on of their files. *)
SavesInvariant == FilesAreWhole /\ FilesAreInTheFolder /\ FolderBounded

=============================================================================
