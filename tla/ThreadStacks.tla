----------------------------- MODULE ThreadStacks -----------------------------
(***************************************************************************)
(* The stacks reserved for the runtime's threads: StartRuntimeThread takes *)
(* a free slot, from any thread, and Run gives it back when the thread's   *)
(* entry returns, still standing on the slot's stack. Time is in ticks;    *)
(* a thread leaves its stack within a second of giving it back.             *)
(***************************************************************************)
EXTENDS Naturals

CONSTANTS
    Slots,       \* how many slots there are (kSlots)
    Starters,    \* threads that start others
    Jobs,        \* threads to start; a job is a thread's entry and argument
    NoJob,
    StackSecond,      \* ticks in a second
    MaxTime      \* bound: the clock

ASSUME StacksAssumption == Slots \in Nat /\ {StackSecond, MaxTime} \subseteq Nat \ {0}

VARIABLES
    clock,       \* sceKernelGetProcessTime
    busy,        \* Slot.busy
    freedAt,     \* Slot.freedAt, 0 when never freed
    entry,       \* Slot.entry and Slot.argument
    starter,     \* where each StartRuntimeThread is: its pc, job, now, slot, and the freedAt it read
    job          \* each job's thread: where it is, on which slot (0: a system stack), what it runs

stackVars == <<clock, busy, freedAt, entry, starter, job>>

Slot == 1..Slots
IdleStarter == [pc |-> "idle", job |-> NoJob, now |-> 0, i |-> 1, freed |-> 0]
NotStarted == [at |-> "none", slot |-> 0, runs |-> NoJob, since |-> 0]
OnStack == {"created", "running", "returned"}

StarterStates == [pc: {"idle", "read", "try", "create", "system"}, job: Jobs \cup {NoJob},
                  now: 0..MaxTime, i: 1..(Slots + 1), freed: 0..MaxTime]
JobStates == [at: OnStack \cup {"none", "asked", "left", "failed"}, slot: 0..Slots,
              runs: Jobs \cup {NoJob}, since: 0..MaxTime]
StacksTypeOK ==
    /\ clock \in 1..MaxTime /\ busy \in [Slot -> BOOLEAN] /\ freedAt \in [Slot -> 0..MaxTime]
    /\ entry \in [Slot -> Jobs \cup {NoJob}]
    /\ starter \in [Starters -> StarterStates] /\ job \in [Jobs -> JobStates]

StacksInit ==
    /\ clock = 1 /\ busy = [s \in Slot |-> FALSE] /\ freedAt = [s \in Slot |-> 0]
    /\ entry = [s \in Slot |-> NoJob]
    /\ starter = [t \in Starters |-> IdleStarter] /\ job = [j \in Jobs |-> NotStarted]

----------------------------------------------------------------------------
(* StartRuntimeThread.                                                       *)

Start(t, j) ==
    /\ starter[t].pc = "idle" /\ job[j].at = "none"
    /\ starter' = [starter EXCEPT ![t] = [IdleStarter EXCEPT !.pc = "read", !.job = j, !.now = clock]]
    /\ job' = [job EXCEPT ![j].at = "asked"]
    /\ UNCHANGED <<clock, busy, freedAt, entry>>

ReadFreedAt(t) ==
    /\ starter[t].pc = "read"
    /\ starter' = [starter EXCEPT ![t] =
          IF starter[t].i > Slots THEN [@ EXCEPT !.pc = "system"]
          ELSE [@ EXCEPT !.pc = "try", !.freed = freedAt[starter[t].i]]]
    /\ UNCHANGED <<clock, busy, freedAt, entry, job>>

(* The difference is unsigned: a slot freed after `now` was read is old.     *)
FreedLately(s) == s.freed # 0 /\ s.now >= s.freed /\ s.now - s.freed < StackSecond
TakeSlot(t) ==
    LET i == starter[t].i IN
    /\ starter[t].pc = "try"
    /\ IF FreedLately(starter[t]) \/ busy[i]
       THEN /\ starter' = [starter EXCEPT ![t].pc = "read", ![t].i = @ + 1]
            /\ UNCHANGED busy
       ELSE /\ starter' = [starter EXCEPT ![t].pc = "create"]
            /\ busy' = [busy EXCEPT ![i] = TRUE]
    /\ UNCHANGED <<clock, freedAt, entry, job>>

FreedAfterFailure(i) == busy' = [busy EXCEPT ![i] = FALSE]
Create(t, succeeds) ==
    LET i == starter[t].i  j == starter[t].job IN
    /\ starter[t].pc = "create"
    /\ entry' = [entry EXCEPT ![i] = j]
    /\ IF succeeds
       THEN /\ job' = [job EXCEPT ![j] = [@ EXCEPT !.at = "created", !.slot = i]]
            /\ starter' = [starter EXCEPT ![t] = IdleStarter] /\ UNCHANGED busy
       ELSE /\ FreedAfterFailure(i)
            /\ starter' = [starter EXCEPT ![t].pc = "system"] /\ UNCHANGED job
    /\ UNCHANGED <<clock, freedAt>>

CreateOnSystemStack(t, succeeds) ==
    LET j == starter[t].job IN
    /\ starter[t].pc = "system"
    /\ job' = [job EXCEPT ![j] = [@ EXCEPT !.at = IF succeeds THEN "running" ELSE "failed",
                                           !.runs = IF succeeds THEN j ELSE NoJob]]
    /\ starter' = [starter EXCEPT ![t] = IdleStarter]
    /\ UNCHANGED <<clock, busy, freedAt, entry>>

----------------------------------------------------------------------------
(* Run, on a slot's stack; a thread of a system stack just ends.             *)

Enter(j) ==
    /\ job[j].at = "created"
    /\ job' = [job EXCEPT ![j].at = "running", ![j].runs = entry[job[j].slot]]
    /\ UNCHANGED <<clock, busy, freedAt, entry, starter>>

StampFreed(j) ==
    /\ job[j].at = "running"
    /\ IF job[j].slot = 0
       THEN job' = [job EXCEPT ![j].at = "left"] /\ UNCHANGED freedAt
       ELSE /\ freedAt' = [freedAt EXCEPT ![job[j].slot] = clock]
            /\ job' = [job EXCEPT ![j].at = "returned", ![j].since = 0]
    /\ UNCHANGED <<clock, busy, entry, starter>>

ClearBusy(j) ==
    /\ job[j].at = "returned" /\ job[j].since = 0
    /\ busy' = [busy EXCEPT ![job[j].slot] = FALSE]
    /\ job' = [job EXCEPT ![j].since = clock]
    /\ UNCHANGED <<clock, freedAt, entry, starter>>

Leave(j) ==
    /\ job[j].at = "returned" /\ job[j].since # 0
    /\ job' = [job EXCEPT ![j].at = "left"]
    /\ UNCHANGED <<clock, busy, freedAt, entry, starter>>

Tick ==
    /\ clock < MaxTime
    /\ \A j \in Jobs : job[j].at = "returned" => clock + 1 - freedAt[job[j].slot] < StackSecond
    /\ clock' = clock + 1
    /\ UNCHANGED <<busy, freedAt, entry, starter, job>>

StacksNext ==
    \/ \E t \in Starters : \/ \E j \in Jobs : Start(t, j)
                           \/ ReadFreedAt(t) \/ TakeSlot(t)
                           \/ \E ok \in BOOLEAN : Create(t, ok) \/ CreateOnSystemStack(t, ok)
    \/ \E j \in Jobs : Enter(j) \/ StampFreed(j) \/ ClearBusy(j) \/ Leave(j)
    \/ Tick
StacksSpec == StacksInit /\ [][StacksNext]_stackVars

----------------------------------------------------------------------------
(* Every busy slot is one starter's or one thread's, so none is lost to a    *)
(* thread that did not start; and the thread created for a slot runs what it *)
(* was created for, although the next starter writes the slot's entry.        *)
SlotsAreAccounted ==
    /\ \A i \in Slot : busy[i] =>
          \/ \E t \in Starters : starter[t].pc = "create" /\ starter[t].i = i
          \/ \E j \in Jobs : /\ job[j].slot = i /\ job[j].at \in OnStack
                             /\ job[j].at = "returned" => job[j].since = 0
    /\ \A j \in Jobs : job[j].runs \in {NoJob, j}
    /\ \A j, k \in Jobs : j # k /\ job[j].slot = job[k].slot /\ job[j].slot # 0 =>
          ~({job[j].at, job[k].at} \subseteq {"created", "running"})

=============================================================================
