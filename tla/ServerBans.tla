----------------------------- MODULE ServerBans -----------------------------
(***************************************************************************)
(* The ban list of a hosted server (runtime_bans.inl, banlist.h).  The     *)
(* list is a file, read again for every check: by the game thread for a    *)
(* connect packet, by a request thread for a join Atlas announces.  The    *)
(* game thread's commands read it, truncate it and write it anew.  No lock *)
(* is held, and every read goes through one static buffer.                 *)
(*                                                                         *)
(* A text is a sequence of lines, taken to be of one length: a uid that is *)
(* banned, or Void, which bans nobody (a comment, or a line with a NUL in  *)
(* front, which hides the number in it: strtoull stops there).  The host's *)
(* own uid is allowed without a look at the list and is none of these      *)
(* uids.                                                                   *)
(***************************************************************************)
EXTENDS Integers, Sequences, FiniteSets

CONSTANTS
    Players,     \* players other than the host
    Void,
    Game,        \* the game thread
    Requests,    \* the request threads that check a join
    Capacity,    \* lines that fill the static buffer of ReadList, 256 KB
    HandTexts    \* the texts an edit by hand may leave in the file

ASSUME VoidAssumption == Void \notin Players
ASSUME GameAssumption == Game \notin Requests
ASSUME CapacityAssumption == Capacity \in Nat \ {0}

Lines == Players \cup {Void}
Threads == {Game} \cup Requests

ASSUME HandTextsAssumption == HandTexts \subseteq Seq(Lines)

VARIABLES
    file,      \* banlist.txt
    text,      \* ReadList's static buffer
    reads,     \* what each thread is doing in ReadList, and what its check found
    edit       \* the command the game thread is in

banVars == <<file, text, reads, edit>>

-----------------------------------------------------------------------------
(* banlist.h *)

IsBanned(list, uid) == \E i \in DOMAIN list : list[i] = uid

BannedIn(list) == {u \in Players : IsBanned(list, u)}

BanFor(list, uid) == Append(list, uid)

(* An unban that stops at the first line with the uid.                     *)
UnbanFirst(list, uid) ==
    [i \in DOMAIN list |->
        IF list[i] = uid /\ \A j \in 1 .. i - 1 : list[j] # uid THEN Void ELSE list[i]]

(* Every line with the uid becomes a comment.                              *)
Unban(list, uid) == [i \in DOMAIN list |-> IF list[i] = uid THEN Void ELSE list[i]]

-----------------------------------------------------------------------------
(* ReadList: ReadFileIntoBuffer reads the file piece by piece into the     *)
(* static buffer and puts a NUL behind what it read; only then is the list *)
(* copied out of the buffer.  Other threads read into it, and put their    *)
(* NUL, between any two of these steps.                                    *)

NotReading == [at |-> "idle", uid |-> Void, used |-> 0, undisturbed |-> FALSE,
               clear |-> FALSE, banned |-> FALSE]

Busy(t) == reads[t].at \in {"reading", "nul", "copy"}

(* The slip of a text that fills the buffer to its last byte.              *)
FullWithoutNul(used) == used > Capacity

(* No room for the NUL: such a list is not read at all.                    *)
Full(used) == used >= Capacity

(* The NUL this thread has still to put is not behind the file's end: the  *)
(* file has grown since the thread saw its end.                            *)
LateNul(t) == reads[t].at = "nul" /\ reads[t].used < Len(file)

(* A copy of the whole buffer.                                             *)
CopyOfBuffer(t) == SubSeq(text, 1, Capacity)

Copy(t) == SubSeq(text, 1, reads[t].used)

(* History, kept for the properties: the read is "undisturbed" while the   *)
(* file is as it was opened and has been read without a failure; it is     *)
(* "clear" when no late NUL was pending as it began; "banned" is what the  *)
(* file said of the player.                                                *)
Opens(t, uid) ==
    /\ ~Busy(t)
    /\ reads' = [reads EXCEPT ![t] =
                    [at |-> "reading", uid |-> uid, used |-> 0, undisturbed |-> TRUE,
                     clear |-> \A s \in Threads \ {t} : ~LateNul(s),
                     banned |-> IsBanned(file, uid)]]
    /\ UNCHANGED text

Forgotten(r) == [r EXCEPT !.undisturbed = FALSE, !.clear = FALSE, !.banned = FALSE]

NothingRead(r) == [Forgotten(r) EXCEPT !.at = "copy", !.used = 0]

WithMore(r, n) ==
    IF Full(r.used + n) THEN NothingRead(r) ELSE [r EXCEPT !.used = r.used + n]

ReadMore(t) ==
    /\ reads[t].at = "reading"
    /\ \E n \in 1 .. Capacity - reads[t].used :
          /\ reads[t].used + n <= Len(file)
          /\ text' = [i \in 1 .. Capacity |->
                        IF i \in reads[t].used + 1 .. reads[t].used + n THEN file[i] ELSE text[i]]
          /\ reads' = [reads EXCEPT ![t] = WithMore(reads[t], n)]
    /\ UNCHANGED <<file, edit>>

EndOfFile(t) ==
    /\ reads[t].at = "reading" /\ reads[t].used >= Len(file)
    /\ reads' = [reads EXCEPT ![t].at = "nul"]
    /\ UNCHANGED <<file, text, edit>>

PutNul(t) ==
    /\ reads[t].at = "nul"
    /\ text' = [text EXCEPT ![reads[t].used + 1] = Void]
    /\ reads' = [reads EXCEPT ![t].at = "copy"]
    /\ UNCHANGED <<file, edit>>

(* The open or a read fails: ReadList returns an empty text, as for a list *)
(* that does not fit.                                                      *)
ReadFails(t) ==
    /\ reads[t].at = "reading"
    /\ reads' = [reads EXCEPT ![t] = NothingRead(@)]
    /\ UNCHANGED <<file, text, edit>>

(* History: the reads that are no longer of the file as it is.             *)
Disturbed == [t \in Threads |-> IF Busy(t) THEN Forgotten(reads[t]) ELSE reads[t]]

-----------------------------------------------------------------------------
(* Checks: IsUidAllowed *)

NoEdit == [op |-> "none", uid |-> Void, stage |-> "none", exact |-> FALSE, after |-> <<>>]

Check(t, uid) ==
    /\ t = Game => edit = NoEdit
    /\ Opens(t, uid)
    /\ UNCHANGED <<file, edit>>

CheckEnds(t) ==
    /\ reads[t].at = "copy"
    /\ t = Game => edit = NoEdit
    /\ reads' = [reads EXCEPT ![t].used = 0, ![t].uid = Void,
                    ![t].at = IF IsBanned(Copy(t), reads[t].uid) THEN "rejected" ELSE "allowed"]
    /\ UNCHANGED <<file, text, edit>>

-----------------------------------------------------------------------------
(* The commands of the game thread *)

Starts(op, uid) ==
    /\ edit = NoEdit /\ ~Busy(Game)
    /\ edit' = [NoEdit EXCEPT !.op = op, !.uid = uid,
                              !.stage = IF op = "clear" THEN "truncate" ELSE "read"]

ConCommandBan(uid) == Starts("ban", uid) /\ Opens(Game, uid) /\ UNCHANGED file

ConCommandUnban(uid) == Starts("unban", uid) /\ Opens(Game, uid) /\ UNCHANGED file

ConCommandClearBanlist == Starts("clear", Void) /\ UNCHANGED <<file, text, reads>>

(* The new text is made of what was copied; the uid of an unban has to be  *)
(* in it.  History: whether that read was undisturbed and clear.           *)
ListRead ==
    /\ edit.stage = "read" /\ reads[Game].at = "copy"
    /\ LET before == Copy(Game)
           ready(list) == [edit EXCEPT !.stage = "truncate", !.after = list,
                                       !.exact = reads[Game].undisturbed /\ reads[Game].clear]
       IN edit' = IF edit.op = "ban" THEN ready(BanFor(before, edit.uid))
                  ELSE IF IsBanned(before, edit.uid) THEN ready(Unban(before, edit.uid))
                  ELSE NoEdit
    /\ reads' = [reads EXCEPT ![Game] = NotReading]
    /\ UNCHANGED <<file, text>>

(* WriteList opens the file and truncates it, or cannot open it ...        *)
Truncate ==
    /\ edit.stage = "truncate"
    /\ file' = <<>>
    /\ edit' = [edit EXCEPT !.stage = "write"]
    /\ reads' = Disturbed
    /\ UNCHANGED text

CannotOpen ==
    /\ edit.stage = "truncate"
    /\ edit' = NoEdit
    /\ UNCHANGED <<file, text, reads>>

(* ... and writes it; a write that fails leaves a part or nothing.         *)
Write ==
    /\ edit.stage = "write"
    /\ \E written \in 0 .. Len(edit.after) : file' = SubSeq(edit.after, 1, written)
    /\ edit' = NoEdit
    /\ reads' = Disturbed
    /\ UNCHANGED text

(* "Editing the file by hand takes effect for the next connection"; not    *)
(* while a command rewrites it.                                            *)
HandEdit ==
    /\ edit = NoEdit
    /\ file' \in HandTexts
    /\ reads' = Disturbed
    /\ UNCHANGED <<text, edit>>

-----------------------------------------------------------------------------
BansInit ==
    /\ file \in HandTexts
    /\ text = [i \in 1 .. Capacity |-> Void]
    /\ reads = [t \in Threads |-> NotReading]
    /\ edit = NoEdit

BansNext ==
    \/ \E t \in Threads, u \in Players : Check(t, u)
    \/ \E t \in Threads : ReadMore(t) \/ EndOfFile(t) \/ PutNul(t) \/ ReadFails(t)
    \/ \E t \in Threads : CheckEnds(t)
    \/ \E u \in Players : ConCommandBan(u)
    \/ \E u \in Players : ConCommandUnban(u)
    \/ ConCommandClearBanlist
    \/ ListRead \/ Truncate \/ CannotOpen \/ Write
    \/ HandEdit

BansSpec == BansInit /\ [][BansNext]_banVars

-----------------------------------------------------------------------------
Ops == {"none", "ban", "unban", "clear"}

ReadStates == [at : {"idle", "reading", "nul", "copy", "allowed", "rejected"}, uid : Lines,
               used : 0 .. Capacity - 1, undisturbed : BOOLEAN, clear : BOOLEAN,
               banned : BOOLEAN]
Edits == [op : Ops, uid : Lines, stage : {"none", "read", "truncate", "write"},
          exact : BOOLEAN, after : Seq(Lines)]

(* Every variable has its type: neither the NUL of a read nor its copy     *)
(* reaches past the buffer.                                                *)
BansTypeOK ==
    /\ file \in Seq(Lines)
    /\ text \in [1 .. Capacity -> Lines]
    /\ reads \in [Threads -> ReadStates]
    /\ edit \in Edits

(* A check gives what the file says although threads read into one buffer  *)
(* without a lock: the pieces and the NUL of another thread do not reach   *)
(* it, unless the file changes or a read fails meanwhile, or a NUL from    *)
(* before the file grew was still to come when the check began             *)
(* (IsUidAllowed on the game thread and on request threads).               *)
ChecksAreExact ==
    \A t \in Threads : reads[t].undisturbed /\ reads[t].clear =>
        /\ reads[t].at = "allowed" => ~reads[t].banned
        /\ reads[t].at = "rejected" => reads[t].banned

(* "The list is read again for every check ... so editing the file by hand *)
(* takes effect for the next connection": no check of a file that nobody   *)
(* changes while it is read allows a player the file bans.                 *)
EditTakesEffect ==
    \A t \in Threads : reads[t].undisturbed /\ reads[t].banned => reads[t].at # "allowed"

ChangedBans(op, uid, bans) == IF op = "ban" THEN bans \cup {uid} ELSE bans \ {uid}

(* Whatever the request threads do to the shared buffer while a command    *)
(* reads the list: what it is about to write over the file bans nobody the *)
(* file does not ban and follows the command for its own player; and when  *)
(* the command's own read was undisturbed and clear, it keeps every other  *)
(* ban.  (A read that fails, or another thread's late NUL, costs bans.)    *)
EditChangesOnePlayer ==
    edit.stage = "truncate" /\ edit.op # "clear" =>
        LET asked == ChangedBans(edit.op, edit.uid, BannedIn(file))
        IN /\ BannedIn(edit.after) \subseteq asked
           /\ edit.op = "ban" => edit.uid \in BannedIn(edit.after)
           /\ edit.exact => BannedIn(edit.after) = asked

=============================================================================
