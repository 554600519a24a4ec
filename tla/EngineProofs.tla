---------------------------- MODULE EngineProofs ----------------------------
(***************************************************************************)
(* The parts between the engine and the console, for every value of their  *)
(* constants: each part's inductive invariant, its step by step proof, and *)
(* what the runs check of it as theorems of EngineSpec.                    *)
(***************************************************************************)
EXTENDS MCEngine, SequenceLemmas

-----------------------------------------------------------------------------
(* Thread stacks *)

(* Who stands on a slot: the starter that is creating its thread, or the   *)
(* thread until it has given the slot back.                                *)
Creates(t) == starter[t].pc = "create"
StandsOn(j) ==
    job[j].slot # 0 /\ job[j].at \in OnStack /\ (job[j].at = "returned" => job[j].since = 0)

\* A starter has a job of its own, which nobody runs yet.
StartersHaveTheirJobs ==
    /\ \A t \in Starters : starter[t].pc # "idle" =>
          /\ starter[t].job \in Jobs /\ job[starter[t].job].at = "asked"
          /\ job[starter[t].job].slot = 0
          /\ starter[t].pc \in {"try", "create"} => starter[t].i \in Slot
    /\ \A t, u \in Starters :
          t # u /\ starter[t].pc # "idle" /\ starter[u].pc # "idle" => starter[t].job # starter[u].job

\* A slot has one holder at a time, and while it has one it is busy.
SlotsHaveOneHolder ==
    /\ \A t \in Starters : Creates(t) => busy[starter[t].i]
    /\ \A j \in Jobs : StandsOn(j) => busy[job[j].slot]
    /\ \A t, u \in Starters : t # u /\ Creates(t) /\ Creates(u) => starter[t].i # starter[u].i
    /\ \A t \in Starters, j \in Jobs : Creates(t) /\ StandsOn(j) => starter[t].i # job[j].slot
    /\ \A j, k \in Jobs : j # k /\ StandsOn(j) /\ StandsOn(k) => job[j].slot # job[k].slot

\* A thread that has not begun finds its own entry in its slot.
ThreadsFindTheirEntry ==
    \A j \in Jobs :
        /\ job[j].at = "created" => job[j].slot \in Slot /\ entry[job[j].slot] = j
        /\ job[j].at = "returned" => job[j].slot \in Slot
        /\ job[j].at \in {"none", "asked"} => job[j].slot = 0
        /\ job[j].runs \in {NoJob, j}

BusySlotsAreHeld ==
    \A i \in Slot : busy[i] =>
        \/ \E t \in Starters : Creates(t) /\ starter[t].i = i
        \/ \E j \in Jobs : StandsOn(j) /\ job[j].slot = i

StacksInv ==
    /\ StacksTypeOK /\ StartersHaveTheirJobs /\ SlotsHaveOneHolder
    /\ ThreadsFindTheirEntry /\ BusySlotsAreHeld

LEMMA StacksConstants == Slots \in Nat /\ MaxTime \in Nat /\ MaxTime >= 1
  BY StacksAssumption

\* The updates of a starter's and of a thread's record keep the record's type.
LEMMA StarterTypes ==
    /\ IdleStarter \in StarterStates
    /\ \A j \in Jobs, c \in 1..MaxTime :
          [IdleStarter EXCEPT !.pc = "read", !.job = j, !.now = c] \in StarterStates
    /\ \A r \in StarterStates :
          /\ [r EXCEPT !.pc = "system"] \in StarterStates
          /\ [r EXCEPT !.pc = "create"] \in StarterStates
          /\ \A f \in 0..MaxTime : [r EXCEPT !.pc = "try", !.freed = f] \in StarterStates
          /\ r.i \in 1..Slots => [r EXCEPT !.pc = "read", !.i = @ + 1] \in StarterStates
 <1>1. IdleStarter \in StarterStates 
  BY StacksConstants DEF IdleStarter, StarterStates
 <1>2. ASSUME NEW j \in Jobs, NEW c \in 1..MaxTime PROVE
          [IdleStarter EXCEPT !.pc = "read", !.job = j, !.now = c] \in StarterStates
   <2>1. c \in 0..MaxTime
     BY StacksConstants
   <2> QED BY <1>1, <2>1 DEF StarterStates
 <1>3. ASSUME NEW r \in StarterStates PROVE [r EXCEPT !.pc = "system"] \in StarterStates
  BY DEF StarterStates
 <1>4. ASSUME NEW r \in StarterStates PROVE [r EXCEPT !.pc = "create"] \in StarterStates
  BY DEF StarterStates
 <1>5. ASSUME NEW r \in StarterStates, NEW f \in 0..MaxTime PROVE [r EXCEPT !.pc = "try", !.freed = f]  \in StarterStates
  BY DEF StarterStates
 <1>6. ASSUME NEW r \in StarterStates, r.i \in 1..Slots PROVE [r EXCEPT !.pc = "read", !.i = @ + 1] \in StarterStates
   <2>1. r.i + 1 \in 1..(Slots + 1)
     BY <1>6, StacksConstants
   <2> QED BY <2>1 DEF StarterStates
 <1> QED BY <1>1, <1>2, <1>3, <1>4, <1>5, <1>6

LEMMA JobTypes ==
    \A r \in JobStates :
          /\ \A a \in OnStack \cup {"none", "asked", "left", "failed"} : [r EXCEPT !.at = a] \in JobStates
          /\ \A s \in 0..Slots : [r EXCEPT !.at = "created", !.slot = s] \in JobStates
          /\ \A x \in Jobs \cup {NoJob} : 
              /\ [r EXCEPT !.at = "running", !.runs = x] \in JobStates
              /\ [r EXCEPT !.at = "failed", !.runs = x] \in JobStates
          /\ [r EXCEPT !.at = "returned", !.since = 0] \in JobStates
          /\ \A c \in 0..MaxTime : [r EXCEPT !.since = c] \in JobStates
 <1> SUFFICES ASSUME NEW r \in JobStates PROVE 
          /\ \A a \in OnStack \cup {"none", "asked", "left", "failed"} : [r EXCEPT !.at = a] \in JobStates
          /\ \A s \in 0..Slots : [r EXCEPT !.at = "created", !.slot = s] \in JobStates
          /\ \A x \in Jobs \cup {NoJob} : 
              /\ [r EXCEPT !.at = "running", !.runs = x] \in JobStates
              /\ [r EXCEPT !.at = "failed", !.runs = x] \in JobStates
          /\ [r EXCEPT !.at = "returned", !.since = 0] \in JobStates
          /\ \A c \in 0..MaxTime : [r EXCEPT !.since = c] \in JobStates
    OBVIOUS
 <1>1. \A a \in OnStack \cup {"none", "asked", "left", "failed"} : [r EXCEPT !.at = a] \in JobStates
  BY DEF JobStates
 <1>2. \A s \in 0..Slots : [r EXCEPT !.at = "created", !.slot = s] \in JobStates
  BY DEF JobStates, OnStack
 <1>3. \A x \in Jobs \cup {NoJob} : 
              /\ [r EXCEPT !.at = "running", !.runs = x] \in JobStates
              /\ [r EXCEPT !.at = "failed", !.runs = x] \in JobStates
  BY DEF JobStates, OnStack
 <1>4. [r EXCEPT !.at = "returned", !.since = 0] \in JobStates
   <2>1. 0 \in 0..MaxTime
     BY StacksConstants
   <2> QED BY <2>1 DEF JobStates, OnStack
 <1>5. \A c \in 0..MaxTime : [r EXCEPT !.since = c] \in JobStates
  BY DEF JobStates
 <1> QED BY <1>1, <1>2, <1>3, <1>4, <1>5

LEMMA StacksInitInv == StacksInit => StacksInv
  <1> SUFFICES ASSUME StacksInit PROVE StacksInv
    OBVIOUS
  <1>1. \A t \in Starters : starter[t] \in StarterStates /\ starter[t].pc = "idle"
    BY StarterTypes DEF StacksInit, IdleStarter
  <1>2. \A j \in Jobs : /\ job[j] \in JobStates /\ job[j].slot = 0
                        /\ job[j].at = "none" /\ job[j].runs = NoJob
    <2>1. NotStarted \in JobStates
      BY StacksConstants DEF NotStarted, JobStates
    <2> QED
      BY <2>1 DEF StacksInit, NotStarted
  <1>3. StacksTypeOK
    BY <1>1, <1>2, StacksConstants DEF StacksInit, StacksTypeOK
  <1>4. StartersHaveTheirJobs /\ SlotsHaveOneHolder /\ ThreadsFindTheirEntry /\ BusySlotsAreHeld
    BY <1>1, <1>2 DEF StacksInit, StartersHaveTheirJobs, SlotsHaveOneHolder, ThreadsFindTheirEntry,
                      BusySlotsAreHeld, Creates, StandsOn
  <1> QED
    BY <1>3, <1>4 DEF StacksInv

(* A step preserves the invariant.                                         *)
LEMMA StartInv ==
    ASSUME StacksInv, NEW t \in Starters, NEW j \in Jobs, Start(t, j)
    PROVE  StacksInv'
  <1>1. /\ StacksTypeOK /\ StartersHaveTheirJobs /\ SlotsHaveOneHolder
        /\ ThreadsFindTheirEntry /\ BusySlotsAreHeld
    BY DEF StacksInv
  <1>2. PICK r \in StarterStates :
          starter' = [starter EXCEPT ![t] = r] /\ r.pc = "read" /\ r.job = j
    BY <1>1, StarterTypes DEF Start, IdleStarter, StacksTypeOK
  <1>3. PICK x \in JobStates :
          job' = [job EXCEPT ![j] = x] /\ x.at = "asked" /\ x.slot = job[j].slot /\ x.runs = job[j].runs
    <2>1. job[j] \in JobStates
      BY <1>1 DEF StacksTypeOK
    <2>2. /\ [job[j] EXCEPT !.at = "asked"] \in JobStates
          /\ job' = [job EXCEPT ![j] = [job[j] EXCEPT !.at = "asked"]]
      BY <1>1, <2>1, JobTypes DEF Start, StacksTypeOK
    <2> QED
      BY <2>1, <2>2 DEF JobStates
  <1>4. StacksTypeOK'
    BY <1>1, <1>2, <1>3 DEF StacksTypeOK, Start
  <1>5. /\ starter'[t] = r /\ \A u \in Starters : u # t => starter'[u] = starter[u]
        /\ job'[j] = x /\ \A k \in Jobs : k # j => job'[k] = job[k]
        /\ starter[t].pc = "idle" /\ job[j].at = "none" /\ busy' = busy /\ entry' = entry
    BY <1>1, <1>2, <1>3 DEF Start, StacksTypeOK
  <1>6. job[j].slot = 0 /\ job[j].runs \in {NoJob, j}
    BY <1>1, <1>5 DEF ThreadsFindTheirEntry
  <1>7. StartersHaveTheirJobs'
    BY <1>1, <1>2, <1>3, <1>5, <1>6 DEF StartersHaveTheirJobs
  <1>8. SlotsHaveOneHolder' /\ ThreadsFindTheirEntry' /\ BusySlotsAreHeld'
    BY <1>1, <1>2, <1>3, <1>5, <1>6
    DEF SlotsHaveOneHolder, ThreadsFindTheirEntry, BusySlotsAreHeld, Creates, StandsOn, OnStack
  <1> QED
    BY <1>4, <1>7, <1>8 DEF StacksInv

\* A starter that goes on looking for a slot disturbs nobody.
LEMMA StarterMovesOn ==
    ASSUME StacksInv, NEW t \in Starters, NEW r \in StarterStates,
           starter' = [starter EXCEPT ![t] = r], UNCHANGED <<clock, busy, freedAt, entry, job>>,
           starter[t].pc \notin {"idle", "create"}, r.pc \notin {"idle", "create"},
           r.job = starter[t].job, r.pc = "try" => r.i \in Slot
    PROVE  StacksInv'
  <1>1. /\ StacksTypeOK /\ StartersHaveTheirJobs /\ SlotsHaveOneHolder
        /\ ThreadsFindTheirEntry /\ BusySlotsAreHeld
    BY DEF StacksInv
  <1>2. StacksTypeOK'
    BY <1>1 DEF StacksTypeOK
  <1>3. starter'[t] = r /\ \A u \in Starters : u # t => starter'[u] = starter[u]
    BY <1>1 DEF StacksTypeOK
  <1>4. StartersHaveTheirJobs'
    BY <1>1, <1>3 DEF StartersHaveTheirJobs
  <1>5. SlotsHaveOneHolder' /\ ThreadsFindTheirEntry' /\ BusySlotsAreHeld'
    BY <1>1, <1>3
    DEF SlotsHaveOneHolder, ThreadsFindTheirEntry, BusySlotsAreHeld, Creates, StandsOn
  <1> QED
    BY <1>2, <1>4, <1>5 DEF StacksInv

LEMMA ReadFreedAtInv ==
    ASSUME StacksInv, NEW t \in Starters, ReadFreedAt(t)
    PROVE  StacksInv'
  <1>1. StacksTypeOK /\ starter[t] \in StarterStates /\ starter[t].pc = "read"
    BY DEF StacksInv, StacksTypeOK, ReadFreedAt
  <1>2. UNCHANGED <<clock, busy, freedAt, entry, job>>
    BY DEF ReadFreedAt
  <1>3. CASE starter[t].i > Slots
    <2> DEFINE r == [starter[t] EXCEPT !.pc = "system"]
    <2>1. starter' = [starter EXCEPT ![t] = r]
      BY <1>1, <1>3 DEF ReadFreedAt, StacksTypeOK
    <2>2. r \in StarterStates /\ r.pc = "system" /\ r.job = starter[t].job
      BY <1>1, StarterTypes DEF StarterStates
    <2> QED
      BY <1>1, <1>2, <2>1, <2>2, StarterMovesOn
  <1>4. CASE ~(starter[t].i > Slots)
    <2> DEFINE r == [starter[t] EXCEPT !.pc = "try", !.freed = freedAt[starter[t].i]]
    <2>1. starter' = [starter EXCEPT ![t] = r]
      BY <1>1, <1>4 DEF ReadFreedAt, StacksTypeOK
    <2>2. starter[t].i \in Slot
      BY <1>1, <1>4, StacksConstants DEF StarterStates, Slot
    <2>3. freedAt[starter[t].i] \in 0..MaxTime
      BY <1>1, <2>2 DEF StacksTypeOK
    <2>4. r \in StarterStates
      BY <1>1, <2>3, StarterTypes
    <2>5. r.pc = "try" /\ r.job = starter[t].job /\ r.i = starter[t].i
      BY <1>1 DEF StarterStates
    <2> QED
      BY <1>1, <1>2, <2>1, <2>2, <2>4, <2>5, StarterMovesOn
  <1> QED
    BY <1>3, <1>4

LEMMA TakeSlotInv ==
    ASSUME StacksInv, NEW t \in Starters, TakeSlot(t)
    PROVE  StacksInv'
  <1>1. /\ StacksTypeOK /\ StartersHaveTheirJobs /\ SlotsHaveOneHolder
        /\ ThreadsFindTheirEntry /\ BusySlotsAreHeld
    BY DEF StacksInv
  <1>2. PICK i \in Slot : i = starter[t].i /\ starter[t].pc = "try" /\ starter[t] \in StarterStates
    BY <1>1 DEF StartersHaveTheirJobs, TakeSlot, StacksTypeOK
  <1>3. UNCHANGED <<clock, freedAt, entry, job>>
    BY DEF TakeSlot
  <1>4. CASE FreedLately(starter[t]) \/ busy[i]
    <2> DEFINE r == [starter[t] EXCEPT !.pc = "read", !.i = @ + 1]
    <2>1. starter' = [starter EXCEPT ![t] = r] /\ busy' = busy
      BY <1>1, <1>2, <1>4 DEF TakeSlot, StacksTypeOK
    <2>2. r \in StarterStates
      BY <1>2, StarterTypes DEF Slot
    <2>3. r.pc = "read" /\ r.job = starter[t].job
      BY <1>2 DEF StarterStates
    <2> QED
      BY <1>2, <1>3, <2>1, <2>2, <2>3, StarterMovesOn
  <1>5. CASE ~(FreedLately(starter[t]) \/ busy[i])
    <2>1. PICK r \in StarterStates : /\ starter' = [starter EXCEPT ![t] = r]
                                     /\ r.pc = "create" /\ r.i = i /\ r.job = starter[t].job
      <3>1. starter' = [starter EXCEPT ![t] = [starter[t] EXCEPT !.pc = "create"]]
        BY <1>1, <1>2, <1>5 DEF TakeSlot, StacksTypeOK
      <3>2. [starter[t] EXCEPT !.pc = "create"] \in StarterStates
        BY <1>2, StarterTypes
      <3> QED
        BY <1>2, <3>1, <3>2 DEF StarterStates
    <2>2. ~busy[i] /\ busy' = [busy EXCEPT ![i] = TRUE]
      BY <1>2, <1>5 DEF TakeSlot
    <2>3. StacksTypeOK'
      BY <1>1, <1>3, <2>1, <2>2 DEF StacksTypeOK
    <2>4. /\ starter'[t] = r /\ \A u \in Starters : u # t => starter'[u] = starter[u]
          /\ busy'[i] /\ \A k \in Slot : k # i => busy'[k] = busy[k]
      BY <1>1, <2>1, <2>2 DEF StacksTypeOK
    <2>5. StartersHaveTheirJobs' /\ ThreadsFindTheirEntry'
      BY <1>1, <1>2, <1>3, <2>1, <2>4 DEF StartersHaveTheirJobs, ThreadsFindTheirEntry
    <2>6. /\ \A u \in Starters : Creates(u)' => u = t \/ (Creates(u) /\ starter'[u] = starter[u])
          /\ \A u \in Starters : Creates(u) => starter[u].i # i /\ starter[u].i \in Slot
      <3>1. \A u \in Starters : Creates(u)' => u = t \/ (Creates(u) /\ starter'[u] = starter[u])
        BY <2>4 DEF Creates
      <3>2. \A u \in Starters : Creates(u) => starter[u].i # i
        BY <1>1, <2>2 DEF SlotsHaveOneHolder
      <3>3. \A u \in Starters : Creates(u) => starter[u].i \in Slot
        BY <1>1 DEF Creates, StartersHaveTheirJobs
      <3> QED
        BY <3>1, <3>2, <3>3
    <2>7. \A k \in Jobs : StandsOn(k)' <=> StandsOn(k)
      BY <1>3 DEF StandsOn
    <2>8. \A k \in Jobs : StandsOn(k) => job[k].slot # i /\ job[k].slot \in Slot
      BY <1>1, <2>2, StacksConstants DEF SlotsHaveOneHolder, StandsOn, StacksTypeOK, JobStates, Slot
    <2>9. SlotsHaveOneHolder'
      BY <1>1, <1>3, <2>1, <2>4, <2>6, <2>7, <2>8 DEF SlotsHaveOneHolder
    <2>10. BusySlotsAreHeld'
      BY <1>1, <1>2, <1>3, <2>1, <2>4, <2>7 DEF BusySlotsAreHeld, Creates
    <2> QED
      BY <2>3, <2>5, <2>9, <2>10 DEF StacksInv
  <1> QED
    BY <1>4, <1>5

LEMMA CreateInv ==
    ASSUME StacksInv, NEW t \in Starters, NEW ok \in BOOLEAN, Create(t, ok)
    PROVE  StacksInv'
  <1>1. /\ StacksTypeOK /\ StartersHaveTheirJobs /\ SlotsHaveOneHolder
        /\ ThreadsFindTheirEntry /\ BusySlotsAreHeld
    BY DEF StacksInv
  <1>2. PICK i \in Slot, j \in Jobs :
          /\ i = starter[t].i /\ j = starter[t].job /\ starter[t].pc = "create"
          /\ job[j].at = "asked" /\ job[j].slot = 0
    BY <1>1 DEF StartersHaveTheirJobs, Create
  <1>3. starter[t] \in StarterStates /\ job[j] \in JobStates /\ i # 0 /\ i \in 0..Slots
    BY <1>1, StacksConstants DEF StacksTypeOK, Slot
  <1>4. entry'[i] = j /\ \A k \in Slot : k # i => entry'[k] = entry[k]
    BY <1>1, <1>2 DEF StacksTypeOK, Create
  <1>5. /\ \A k \in Jobs : StandsOn(k) => job[k].slot # i /\ job[k].slot \in Slot
        /\ \A k \in Jobs : job[k].at = "created" => job[k].slot # i
    <2>1. \A k \in Jobs : StandsOn(k) => job[k].slot # i
      BY <1>1, <1>2 DEF SlotsHaveOneHolder, Creates
    <2>2. \A k \in Jobs : StandsOn(k) => job[k].slot \in Slot
      BY <1>1, StacksConstants DEF StandsOn, StacksTypeOK, JobStates, Slot
    <2>3. \A k \in Jobs : job[k].at = "created" => job[k].slot # i
      BY <1>1, <1>3, <2>1 DEF StandsOn, OnStack
    <2> QED
      BY <2>1, <2>2, <2>3
  <1>6. job[j].runs \in {NoJob, j}
    BY <1>1 DEF ThreadsFindTheirEntry
  <1>7. CASE ok
    <2>1. PICK x \in JobStates : /\ job' = [job EXCEPT ![j] = x]
                                 /\ x.at = "created" /\ x.slot = i /\ x.runs = job[j].runs
      <3>1. [job[j] EXCEPT !.at = "created", !.slot = i] \in JobStates
        BY <1>3, JobTypes
      <3>2. job' = [job EXCEPT ![j] = [job[j] EXCEPT !.at = "created", !.slot = i]]
        BY <1>2, <1>7 DEF Create
      <3> QED
        BY <1>3, <3>1, <3>2 DEF JobStates
    <2>2. starter' = [starter EXCEPT ![t] = IdleStarter] /\ busy' = busy
      BY <1>7 DEF Create
    <2>3. StacksTypeOK'
      BY <1>1, <1>2, <2>1, <2>2, StarterTypes DEF StacksTypeOK, Create
    <2>4. /\ starter'[t].pc = "idle" /\ \A u \in Starters : u # t => starter'[u] = starter[u]
          /\ job'[j] = x /\ \A k \in Jobs : k # j => job'[k] = job[k]
      BY <1>1, <2>1, <2>2 DEF StacksTypeOK, IdleStarter
    <2>5. StartersHaveTheirJobs'
      BY <1>1, <1>2, <2>4 DEF StartersHaveTheirJobs
    <2>6. ThreadsFindTheirEntry'
      BY <1>1, <1>4, <1>5, <1>6, <2>1, <2>4 DEF ThreadsFindTheirEntry
    <2>7. /\ \A u \in Starters : Creates(u)' => u # t /\ Creates(u) /\ starter'[u] = starter[u]
          /\ \A u \in Starters : Creates(u) /\ u # t => Creates(u)' /\ starter'[u] = starter[u]
      BY <2>4 DEF Creates
    <2>8. /\ StandsOn(j)' /\ job'[j].slot = i /\ ~StandsOn(j) /\ Creates(t)
          /\ \A k \in Jobs : k # j => (StandsOn(k)' <=> StandsOn(k)) /\ job'[k] = job[k]
      BY <1>2, <1>3, <2>1, <2>4 DEF StandsOn, Creates, OnStack
    <2>9. SlotsHaveOneHolder'
      <3>1. \A u \in Starters : Creates(u) /\ u # t => starter[u].i # i
        BY <1>1, <1>2, <2>8 DEF SlotsHaveOneHolder
      <3> QED
        BY <1>1, <1>2, <1>5, <2>2, <2>7, <2>8, <3>1 DEF SlotsHaveOneHolder
    <2>10. BusySlotsAreHeld'
      BY <1>1, <1>2, <2>2, <2>7, <2>8 DEF BusySlotsAreHeld
    <2> QED
      BY <2>3, <2>5, <2>6, <2>9, <2>10 DEF StacksInv
  <1>8. CASE ~ok
    <2>1. PICK r \in StarterStates : /\ starter' = [starter EXCEPT ![t] = r]
                                     /\ r.pc = "system" /\ r.job = j
      <3>1. starter' = [starter EXCEPT ![t] = [starter[t] EXCEPT !.pc = "system"]]
        BY <1>1, <1>8 DEF Create, StacksTypeOK
      <3>2. [starter[t] EXCEPT !.pc = "system"] \in StarterStates
        BY <1>3, StarterTypes
      <3> QED
        BY <1>2, <1>3, <3>1, <3>2 DEF StarterStates
    <2>2. job' = job /\ busy' = [busy EXCEPT ![i] = FALSE]
      BY <1>2, <1>8 DEF Create, FreedAfterFailure
    <2>3. StacksTypeOK'
      BY <1>1, <1>2, <2>1, <2>2 DEF StacksTypeOK, Create
    <2>4. /\ starter'[t] = r /\ \A u \in Starters : u # t => starter'[u] = starter[u]
          /\ ~busy'[i] /\ \A k \in Slot : k # i => busy'[k] = busy[k]
      BY <1>1, <2>1, <2>2 DEF StacksTypeOK
    <2>5. StartersHaveTheirJobs' /\ ThreadsFindTheirEntry'
      BY <1>1, <1>2, <1>4, <1>5, <2>1, <2>2, <2>4 DEF StartersHaveTheirJobs, ThreadsFindTheirEntry
    <2>6. /\ \A u \in Starters : Creates(u)' => u # t /\ Creates(u) /\ starter'[u] = starter[u]
          /\ \A u \in Starters : Creates(u) /\ u # t => Creates(u)' /\ starter'[u] = starter[u]
      BY <2>1, <2>4 DEF Creates
    <2>7. \A k \in Jobs : StandsOn(k)' <=> StandsOn(k)
      BY <2>2 DEF StandsOn
    <2>8. \A u \in Starters : Creates(u) /\ u # t => starter[u].i # i /\ starter[u].i \in Slot
      BY <1>1, <1>2 DEF SlotsHaveOneHolder, StartersHaveTheirJobs, Creates
    <2>9. SlotsHaveOneHolder'
      BY <1>1, <1>5, <2>2, <2>4, <2>6, <2>7, <2>8 DEF SlotsHaveOneHolder
    <2>10. BusySlotsAreHeld'
      BY <1>1, <1>2, <2>2, <2>4, <2>6, <2>7 DEF BusySlotsAreHeld
    <2> QED
      BY <2>3, <2>5, <2>9, <2>10 DEF StacksInv
  <1> QED
    BY <1>7, <1>8

LEMMA CreateOnSystemStackInv ==
    ASSUME StacksInv, NEW t \in Starters, NEW ok \in BOOLEAN, CreateOnSystemStack(t, ok)
    PROVE  StacksInv'
  <1>1. /\ StacksTypeOK /\ StartersHaveTheirJobs /\ SlotsHaveOneHolder
        /\ ThreadsFindTheirEntry /\ BusySlotsAreHeld
    BY DEF StacksInv
  <1>2. PICK j \in Jobs : /\ j = starter[t].job /\ starter[t].pc = "system"
                          /\ job[j].at = "asked" /\ job[j].slot = 0
    BY <1>1 DEF StartersHaveTheirJobs, CreateOnSystemStack
  <1>3. job[j] \in JobStates
    BY <1>1 DEF StacksTypeOK
  <1>4. PICK x \in JobStates : /\ job' = [job EXCEPT ![j] = x] /\ x.slot = job[j].slot
                               /\ x.at \in {"running", "failed"} /\ x.runs \in {NoJob, j}
    <2>1. CASE ok
      <3> DEFINE x == [job[j] EXCEPT !.at = "running", !.runs = j]
      <3>1. job' = [job EXCEPT ![j] = x]
        BY <1>2, <2>1 DEF CreateOnSystemStack
      <3>2. x \in JobStates
        BY <1>3, JobTypes
      <3>3. x.slot = job[j].slot /\ x.at = "running" /\ x.runs = j
        BY <1>3 DEF JobStates
      <3> QED
        BY <3>1, <3>2, <3>3
    <2>2. CASE ~ok
      <3> DEFINE x == [job[j] EXCEPT !.at = "failed", !.runs = NoJob]
      <3>1. job' = [job EXCEPT ![j] = x]
        BY <1>2, <2>2 DEF CreateOnSystemStack
      <3>2. x \in JobStates
        BY <1>3, JobTypes
      <3>3. x.slot = job[j].slot /\ x.at = "failed" /\ x.runs = NoJob
        BY <1>3 DEF JobStates
      <3> QED
        BY <3>1, <3>2, <3>3
    <2> QED
      BY <2>1, <2>2
  <1>5. starter' = [starter EXCEPT ![t] = IdleStarter] /\ UNCHANGED <<clock, busy, freedAt, entry>>
    BY DEF CreateOnSystemStack
  <1>6. StacksTypeOK'
    BY <1>1, <1>4, <1>5, StarterTypes DEF StacksTypeOK
  <1>7. /\ starter'[t].pc = "idle" /\ \A u \in Starters : u # t => starter'[u] = starter[u]
        /\ job'[j] = x /\ \A k \in Jobs : k # j => job'[k] = job[k]
    BY <1>1, <1>4, <1>5 DEF StacksTypeOK, IdleStarter
  <1>8. StartersHaveTheirJobs' /\ ThreadsFindTheirEntry'
    BY <1>1, <1>2, <1>4, <1>5, <1>7 DEF StartersHaveTheirJobs, ThreadsFindTheirEntry
  <1>9. SlotsHaveOneHolder' /\ BusySlotsAreHeld'
    BY <1>1, <1>2, <1>4, <1>5, <1>7 DEF SlotsHaveOneHolder, BusySlotsAreHeld, Creates, StandsOn
  <1> QED
    BY <1>6, <1>8, <1>9 DEF StacksInv

\* A thread's steps on its slot keep who stands where, but the one that gives the slot back.
LEMMA ThreadMovesOn ==
    ASSUME StacksInv, NEW j \in Jobs, NEW x \in JobStates, job' = [job EXCEPT ![j] = x],
           UNCHANGED <<clock, busy, entry, starter>>, freedAt' \in [Slot -> 0..MaxTime],
           job[j].at \in OnStack, x.slot = job[j].slot, x.runs \in {NoJob, j},
           x.at \in {"running", "returned", "left"}, x.at = "returned" => x.slot \in Slot,
           job[j].slot = 0 \/ (StandsOn(j) /\ x.at # "left" /\ (x.at = "returned" => x.since = 0))
                           \/ (~StandsOn(j) /\ x.at = "left")
    PROVE  StacksInv'
  <1>1. /\ StacksTypeOK /\ StartersHaveTheirJobs /\ SlotsHaveOneHolder
        /\ ThreadsFindTheirEntry /\ BusySlotsAreHeld
    BY DEF StacksInv
  <1>2. StacksTypeOK'
    BY <1>1 DEF StacksTypeOK
  <1>3. job'[j] = x /\ \A k \in Jobs : k # j => job'[k] = job[k]
    BY <1>1 DEF StacksTypeOK
  <1>4. ThreadsFindTheirEntry' /\ StartersHaveTheirJobs'
    BY <1>1, <1>3 DEF ThreadsFindTheirEntry, StartersHaveTheirJobs, OnStack
  <1>5. \A k \in Jobs : (StandsOn(k)' <=> StandsOn(k)) /\ job'[k].slot = job[k].slot
    BY <1>3 DEF StandsOn, OnStack
  <1>6. SlotsHaveOneHolder' /\ BusySlotsAreHeld'
    BY <1>1, <1>5 DEF SlotsHaveOneHolder, BusySlotsAreHeld, Creates
  <1> QED
    BY <1>2, <1>4, <1>6 DEF StacksInv

LEMMA EnterInv ==
    ASSUME StacksInv, NEW j \in Jobs, Enter(j)
    PROVE  StacksInv'
  <1>1. StacksTypeOK /\ ThreadsFindTheirEntry /\ job[j] \in JobStates /\ job[j].at = "created"
    BY DEF StacksInv, StacksTypeOK, Enter
  <1>2. entry[job[j].slot] = j /\ job[j].slot # 0 /\ StandsOn(j) /\ job[j].at \in OnStack
    BY <1>1, StacksConstants DEF ThreadsFindTheirEntry, StandsOn, OnStack, Slot
  <1> DEFINE x == [job[j] EXCEPT !.at = "running", !.runs = j]
  <1>3. /\ job' = [job EXCEPT ![j] = x] /\ UNCHANGED <<clock, busy, freedAt, entry, starter>>
    BY <1>1, <1>2 DEF Enter, StacksTypeOK
  <1>4. x \in JobStates
    BY <1>1, JobTypes
  <1>5. x.at = "running" /\ x.slot = job[j].slot /\ x.runs = j
    BY <1>1 DEF JobStates
  <1> QED
    BY <1>1, <1>2, <1>3, <1>4, <1>5, ThreadMovesOn DEF StacksTypeOK

LEMMA StampFreedInv ==
    ASSUME StacksInv, NEW j \in Jobs, StampFreed(j)
    PROVE  StacksInv'
  <1>1. /\ StacksTypeOK /\ ThreadsFindTheirEntry /\ job[j] \in JobStates /\ job[j].at = "running"
        /\ job[j].at \in OnStack
    BY DEF StacksInv, StacksTypeOK, StampFreed, OnStack
  <1>2. job[j].runs \in {NoJob, j} /\ UNCHANGED <<clock, busy, entry, starter>>
    BY <1>1 DEF ThreadsFindTheirEntry, StampFreed
  <1>3. CASE job[j].slot = 0
    <2> DEFINE x == [job[j] EXCEPT !.at = "left"]
    <2>1. job' = [job EXCEPT ![j] = x] /\ freedAt' = freedAt
      BY <1>1, <1>3 DEF StampFreed, StacksTypeOK
    <2>2. x \in JobStates
      BY <1>1, JobTypes
    <2>3. x.at = "left" /\ x.slot = job[j].slot /\ x.runs = job[j].runs
      BY <1>1 DEF JobStates
    <2> QED
      BY <1>1, <1>2, <1>3, <2>1, <2>2, <2>3, ThreadMovesOn DEF StacksTypeOK
  <1>4. CASE job[j].slot # 0
    <2> DEFINE x == [job[j] EXCEPT !.at = "returned", !.since = 0]
    <2>1. /\ job' = [job EXCEPT ![j] = x]
          /\ freedAt' = [freedAt EXCEPT ![job[j].slot] = clock]
      BY <1>1, <1>4 DEF StampFreed, StacksTypeOK
    <2>2. x \in JobStates
      BY <1>1, JobTypes
    <2>3. x.at = "returned" /\ x.slot = job[j].slot /\ x.runs = job[j].runs /\ x.since = 0
      BY <1>1 DEF JobStates
    <2>4. job[j].slot \in Slot /\ clock \in 0..MaxTime
      BY <1>1, <1>4, StacksConstants DEF JobStates, Slot, StacksTypeOK
    <2>5. freedAt' \in [Slot -> 0..MaxTime]
      BY <1>1, <2>1, <2>4 DEF StacksTypeOK
    <2>6. StandsOn(j)
      BY <1>1, <1>4 DEF StandsOn
    <2> QED
      BY <1>1, <1>2, <2>1, <2>2, <2>3, <2>4, <2>5, <2>6, ThreadMovesOn
  <1> QED
    BY <1>3, <1>4

LEMMA LeaveInv ==
    ASSUME StacksInv, NEW j \in Jobs, Leave(j)
    PROVE  StacksInv'
  <1>1. /\ StacksTypeOK /\ ThreadsFindTheirEntry /\ job[j] \in JobStates /\ job[j].at \in OnStack
        /\ ~StandsOn(j)
    BY DEF StacksInv, StacksTypeOK, Leave, OnStack, StandsOn
  <1>2. job[j].runs \in {NoJob, j}
    BY <1>1 DEF ThreadsFindTheirEntry
  <1> DEFINE x == [job[j] EXCEPT !.at = "left"]
  <1>3. job' = [job EXCEPT ![j] = x] /\ UNCHANGED <<clock, busy, freedAt, entry, starter>>
    BY <1>1 DEF Leave, StacksTypeOK
  <1>4. x \in JobStates
    BY <1>1, JobTypes
  <1>5. x.at = "left" /\ x.slot = job[j].slot /\ x.runs = job[j].runs
    BY <1>1 DEF JobStates
  <1> QED
    BY <1>1, <1>2, <1>3, <1>4, <1>5, ThreadMovesOn DEF StacksTypeOK

\* The one step of a thread that gives its slot back.
LEMMA ClearBusyInv ==
    ASSUME StacksInv, NEW j \in Jobs, ClearBusy(j)
    PROVE  StacksInv'
  <1>1. /\ StacksTypeOK /\ StartersHaveTheirJobs /\ SlotsHaveOneHolder
        /\ ThreadsFindTheirEntry /\ BusySlotsAreHeld
    BY DEF StacksInv
  <1>2. PICK i \in Slot : i = job[j].slot /\ i # 0
    BY <1>1, StacksConstants DEF ThreadsFindTheirEntry, ClearBusy, Slot
  <1>3. StandsOn(j) /\ job[j] \in JobStates /\ job[j].at = "returned"
    BY <1>1, <1>2 DEF StandsOn, OnStack, ClearBusy, StacksTypeOK
  <1>4. PICK x \in JobStates : /\ job' = [job EXCEPT ![j] = x] /\ x.at = "returned" /\ x.slot = i
                               /\ x.runs = job[j].runs /\ x.since # 0
    <2>1. clock \in 0..MaxTime /\ clock # 0
      BY <1>1, StacksConstants DEF StacksTypeOK
    <2>2. [job[j] EXCEPT !.since = clock] \in JobStates
      BY <1>3, <2>1, JobTypes
    <2>3. job' = [job EXCEPT ![j] = [job[j] EXCEPT !.since = clock]]
      BY <1>1 DEF ClearBusy, StacksTypeOK
    <2> QED
      BY <1>2, <1>3, <2>1, <2>2, <2>3 DEF JobStates
  <1>5. busy' = [busy EXCEPT ![i] = FALSE] /\ UNCHANGED <<clock, freedAt, entry, starter>>
    BY <1>2 DEF ClearBusy
  <1>6. StacksTypeOK'
    BY <1>1, <1>4, <1>5 DEF StacksTypeOK
  <1>7. /\ job'[j] = x /\ \A k \in Jobs : k # j => job'[k] = job[k]
        /\ ~busy'[i] /\ \A k \in Slot : k # i => busy'[k] = busy[k]
    BY <1>1, <1>4, <1>5 DEF StacksTypeOK
  <1>8. ThreadsFindTheirEntry' /\ StartersHaveTheirJobs'
    BY <1>1, <1>2, <1>3, <1>4, <1>5, <1>7 DEF ThreadsFindTheirEntry, StartersHaveTheirJobs
  <1>9. /\ ~StandsOn(j)'
        /\ \A k \in Jobs : k # j => (StandsOn(k)' <=> StandsOn(k)) /\ job'[k] = job[k]
    BY <1>4, <1>7 DEF StandsOn
  <1>10. \A k \in Jobs : StandsOn(k) => job[k].slot \in Slot
    BY <1>1, StacksConstants DEF StandsOn, StacksTypeOK, JobStates, Slot
  <1>11. \A t \in Starters : /\ Creates(t)' <=> Creates(t)
                             /\ Creates(t) => starter[t].i \in Slot /\ starter[t].i # i
    BY <1>1, <1>2, <1>3, <1>5 DEF Creates, StartersHaveTheirJobs, SlotsHaveOneHolder
  <1>12. SlotsHaveOneHolder'
    <2>1. \A k \in Jobs : StandsOn(k) /\ k # j => job[k].slot # i
      BY <1>1, <1>2, <1>3 DEF SlotsHaveOneHolder
    <2> QED
      BY <1>1, <1>5, <1>7, <1>9, <1>10, <1>11, <2>1 DEF SlotsHaveOneHolder
  <1>13. BusySlotsAreHeld'
    BY <1>1, <1>2, <1>5, <1>7, <1>9, <1>11 DEF BusySlotsAreHeld
  <1> QED
    BY <1>6, <1>8, <1>12, <1>13 DEF StacksInv

LEMMA TickInv ==
    ASSUME StacksInv, Tick
    PROVE  StacksInv'
  <1>1. StacksTypeOK'
    BY StacksConstants DEF StacksInv, StacksTypeOK, Tick
  <1> QED
    BY <1>1 DEF StacksInv, Tick, StartersHaveTheirJobs, SlotsHaveOneHolder, ThreadsFindTheirEntry,
                BusySlotsAreHeld, Creates, StandsOn

LEMMA StacksStepInv == StacksInv /\ [StacksNext]_stackVars => StacksInv'
  <1> SUFFICES ASSUME StacksInv, [StacksNext]_stackVars PROVE StacksInv'
    OBVIOUS
  <1>1. CASE StacksNext
    BY <1>1, StartInv, ReadFreedAtInv, TakeSlotInv, CreateInv, CreateOnSystemStackInv, EnterInv,
       StampFreedInv, ClearBusyInv, LeaveInv, TickInv DEF StacksNext
  <1>2. CASE UNCHANGED stackVars
    BY <1>2 DEF stackVars, StacksInv, StacksTypeOK, StartersHaveTheirJobs, SlotsHaveOneHolder,
       ThreadsFindTheirEntry, BusySlotsAreHeld, Creates, StandsOn
  <1> QED
    BY <1>1, <1>2

LEMMA StacksSound == StacksInv => SlotsAreAccounted
  <1> SUFFICES ASSUME StacksInv PROVE SlotsAreAccounted
    OBVIOUS
  <1>1. \A i \in Slot : busy[i] =>
          \/ \E t \in Starters : starter[t].pc = "create" /\ starter[t].i = i
          \/ \E j \in Jobs : /\ job[j].slot = i /\ job[j].at \in OnStack
                             /\ job[j].at = "returned" => job[j].since = 0
    BY DEF StacksInv, BusySlotsAreHeld, Creates, StandsOn
  <1>2. \A j \in Jobs : job[j].runs \in {NoJob, j}
    BY DEF StacksInv, ThreadsFindTheirEntry
  <1>3. \A j, k \in Jobs : j # k /\ job[j].slot = job[k].slot /\ job[j].slot # 0 =>
          ~({job[j].at, job[k].at} \subseteq {"created", "running"})
    BY DEF StacksInv, SlotsHaveOneHolder, StandsOn, OnStack
  <1> QED
    BY <1>1, <1>2, <1>3 DEF SlotsAreAccounted

(* Every busy slot of the stack pool is one starter's or one thread's, and  *)
(* a thread runs what it was created for (StartRuntimeThread, Run), for any *)
(* number of slots, starters and threads.                                   *)
THEOREM StacksAreAccounted == StacksSpec => [](StacksTypeOK /\ SlotsAreAccounted)
  <1>1. StacksInv => StacksTypeOK /\ SlotsAreAccounted
    BY StacksSound DEF StacksInv
  <1> QED
    BY <1>1, StacksInitInv, StacksStepInv, PTL DEF StacksSpec

-----------------------------------------------------------------------------
(* HTTP transport *)

(* What is true of a thread's request r while o is open for it.              *)
CallSound(r, o) ==
    /\ r.pc \in {"idle", "init", "connect"} => o = {}
    /\ r.pc = "create" => o \subseteq {"connection"}
    /\ r.pc \in {"idle", "init", "connect", "create", "send"} => r.got = 0 /\ r.ok = FALSE
    /\ r.pc \in {"poll", "read", "deliver"} =>
          r.ok = FALSE /\ r.got + r.piece <= r.body /\ (r.streams \/ r.got < Capacity)
    /\ r.pc \in {"poll", "deliver"} => r.streams
    /\ r.piece # 0 => r.pc = "deliver" \/ r.pc = "close"
    /\ r.late # 0 => r.late = 1 /\ r.streams /\ r.pc \in {"poll", "close"}
    /\ r.ok => r.got = (IF r.streams \/ r.body < Capacity THEN r.body ELSE Capacity)

CallsSound == \A t \in HttpThreads :
    CallSound(request[t], open[t]) /\ (request[t].late # 0 => cancel)

\* Until two set-ups overlap, one thread at a time sets the transport up, the
\* steps it has behind it are done, and it is not ready before.
SetUpInOrder ==
    ~raced =>
        /\ ready => Valid
        /\ \A t \in HttpThreads : request[t].pc = "init" =>
              ~ready /\ \A k \in 1..(request[t].step - 1) : handle[InitSteps[k]]
        /\ \A t, u \in HttpThreads : request[t].pc = "init" /\ request[u].pc = "init" => t = u

HttpInv == HttpTypeOK /\ CallsSound /\ SetUpInOrder

LEMMA NoneIsCall == /\ None \in Calls /\ CallSound(None, {}) /\ None.pc = "idle"
                    /\ None.got = 0 /\ None.step = 1 /\ None.ok = FALSE /\ None.late = 0 /\ None.piece = 0
  BY HttpAssumption DEF None, Calls, CallSound

LEMMA HttpInitInv == HttpInit => HttpInv
  <1> SUFFICES ASSUME HttpInit PROVE HttpInv
    OBVIOUS
  <1>1. HttpTypeOK
    <2>1. inits \in 0..MaxInits
      BY HttpAssumption DEF HttpInit
    <2> QED
      BY <2>1, NoneIsCall DEF HttpInit, HttpTypeOK
  <1>2. CallsSound /\ SetUpInOrder
    BY NoneIsCall DEF HttpInit, CallsSound, SetUpInOrder
  <1> QED
    BY <1>1, <1>2 DEF HttpInv

\* A step of one thread's request that leaves the set-up alone.
LEMMA CallMoves ==
    ASSUME HttpInv, NEW t \in HttpThreads, NEW r \in Calls, NEW o \in SUBSET {"connection", "request"},
           request' = [request EXCEPT ![t] = r],
           open' = [open EXCEPT ![t] = o] \/ (open' = open /\ o = open[t]),
           UNCHANGED <<ready, handle, cancel, inits, raced>>,
           r.pc # "init", CallSound(r, o), r.late # 0 => cancel
    PROVE  HttpInv'
  <1>1. HttpTypeOK /\ CallsSound /\ SetUpInOrder
    BY DEF HttpInv
  <1>2. HttpTypeOK'
    BY <1>1 DEF HttpTypeOK
  <1>3. /\ request'[t] = r /\ open'[t] = o
        /\ \A u \in HttpThreads : u # t => request'[u] = request[u] /\ open'[u] = open[u]
    BY <1>1 DEF HttpTypeOK
  <1>4. CallsSound'
    <2> SUFFICES ASSUME NEW u \in HttpThreads
                 PROVE  CallSound(request'[u], open'[u]) /\ (request'[u].late # 0 => cancel')
      BY DEF CallsSound
    <2> QED
      BY <1>1, <1>3 DEF CallsSound
  <1>5. SetUpInOrder'
    BY <1>1, <1>3 DEF SetUpInOrder, Valid
  <1> QED
    BY <1>2, <1>4, <1>5 DEF HttpInv

LEMMA BeginInv ==
    ASSUME HttpInv, NEW t \in HttpThreads, NEW streams \in BOOLEAN, Begin(t, streams)
    PROVE  HttpInv'
  <1>1. HttpTypeOK /\ CallsSound /\ SetUpInOrder
    BY DEF HttpInv
  <1>2. /\ request[t] = None /\ request[t].pc = "idle" /\ open[t] = {}
    BY <1>1, NoneIsCall DEF Begin, CallsSound, CallSound
  <1>3. PICK r \in Calls : /\ request' = [request EXCEPT ![t] = r] /\ CallSound(r, {}) /\ r.step = 1
                           /\ r.late = 0
                           /\ IF ready THEN r.pc = "connect" /\ inits' = inits /\ raced' = raced
                              ELSE /\ r.pc = "init" /\ inits < MaxInits /\ inits' = inits + 1
                                   /\ raced' = (raced \/ \E u \in HttpThreads : request[u].pc = "init")
    <2>1. CASE ready
      <3> DEFINE r == [None EXCEPT !.pc = "connect", !.streams = streams]
      <3>a. /\ r \in Calls /\ r.pc = "connect" /\ r.step = 1 /\ r.got = 0 /\ r.ok = FALSE
            /\ r.late = 0 /\ r.piece = 0
        BY NoneIsCall DEF Calls
      <3>1. r \in Calls /\ r.pc = "connect" /\ r.step = 1 /\ CallSound(r, {}) /\ r.late = 0
        BY <3>a DEF CallSound
      <3>2. request' = [request EXCEPT ![t] = r] /\ inits' = inits /\ raced' = raced
        BY <2>1 DEF Begin
      <3> QED
        BY <2>1, <3>1, <3>2
    <2>2. CASE ~ready
      <3> DEFINE r == [None EXCEPT !.pc = "init", !.streams = streams]
      <3>a. /\ r \in Calls /\ r.pc = "init" /\ r.step = 1 /\ r.got = 0 /\ r.ok = FALSE
            /\ r.late = 0 /\ r.piece = 0
        BY NoneIsCall DEF Calls
      <3>1. r \in Calls /\ r.pc = "init" /\ r.step = 1 /\ CallSound(r, {}) /\ r.late = 0
        BY <3>a DEF CallSound
      <3>2. /\ request' = [request EXCEPT ![t] = r] /\ inits < MaxInits /\ inits' = inits + 1
            /\ raced' = (raced \/ \E u \in HttpThreads : request[u].pc = "init")
        BY <2>2 DEF Begin
      <3> QED
        BY <2>2, <3>1, <3>2
    <2> QED
      BY <2>1, <2>2
  <1>4. UNCHANGED <<ready, handle, open>> /\ cancel' \in BOOLEAN
    BY <1>1 DEF Begin, HttpTypeOK
  <1>5. inits' \in 0..MaxInits /\ raced' \in BOOLEAN
    <2>1. inits \in 0..MaxInits /\ raced \in BOOLEAN
      BY <1>1 DEF HttpTypeOK
    <2>2. CASE ready
      BY <1>3, <2>1, <2>2
    <2>3. CASE ~ready
      BY <1>3, <2>1, <2>3, HttpAssumption
    <2> QED
      BY <2>2, <2>3
  <1>6. HttpTypeOK'
    BY <1>1, <1>3, <1>4, <1>5 DEF HttpTypeOK
  <1>7. request'[t] = r /\ \A u \in HttpThreads : u # t => request'[u] = request[u]
    BY <1>1, <1>3 DEF HttpTypeOK
  <1>8. CallsSound'
    <2> SUFFICES ASSUME NEW u \in HttpThreads
                 PROVE  CallSound(request'[u], open'[u]) /\ (request'[u].late # 0 => cancel')
      BY DEF CallsSound
    <2>1. CallSound(request'[u], open'[u])
      BY <1>1, <1>2, <1>3, <1>4, <1>7 DEF CallsSound
    <2>a. streams => \A v \in HttpThreads : ~request[v].streams
      BY DEF Begin
    <2>2. request[u].late # 0 => cancel /\ request[u].streams /\ ~streams
      <3>1. CallSound(request[u], open[u]) /\ (request[u].late # 0 => cancel)
        BY <1>1 DEF CallsSound
      <3> QED
        BY <2>a, <3>1 DEF CallSound
    <2>3. (cancel' = cancel) \/ streams
      <3>1. cancel' = cancel \/ cancel' = (cancel /\ ~streams)
        BY DEF Begin
      <3>2. cancel \in BOOLEAN
        BY <1>1 DEF HttpTypeOK
      <3> QED
        BY <3>1, <3>2
    <2> QED
      BY <1>3, <1>7, <2>1, <2>2, <2>3
  <1>9. SetUpInOrder'
    <2>1. CASE ready
      BY <1>1, <1>3, <1>4, <1>7, <2>1 DEF SetUpInOrder, Valid
    <2>2. CASE ~ready
      <3> SUFFICES ASSUME ~raced' PROVE SetUpInOrder'
        BY DEF SetUpInOrder
      <3>1. ~raced /\ \A u \in HttpThreads : request[u].pc # "init"
        BY <1>3, <2>2
      <3>2. \A u \in HttpThreads : request'[u].pc = "init" => u = t
        BY <1>7, <3>1
      <3>3. 1..(r.step - 1) = {}
        BY <1>3
      <3> QED
        BY <1>4, <1>7, <2>2, <3>2, <3>3 DEF SetUpInOrder
    <2> QED
      BY <2>1, <2>2
  <1> QED
    BY <1>6, <1>8, <1>9 DEF HttpInv

LEMMA InitStepInv ==
    ASSUME HttpInv, NEW t \in HttpThreads, NEW succeeds \in BOOLEAN, InitStep(t, succeeds)
    PROVE  HttpInv'
  <1>1. HttpTypeOK /\ CallsSound /\ SetUpInOrder
    BY DEF HttpInv
  <1>2. PICK s \in 1..4 : s = request[t].step /\ request[t] \in Calls /\ request[t].pc = "init"
    BY <1>1 DEF InitStep, HttpTypeOK, Calls
  <1>3. /\ handle' = [handle EXCEPT ![InitSteps[s]] = succeeds] /\ UNCHANGED <<open, cancel, inits, raced>>
        /\ CallSound(request[t], open[t]) /\ open[t] = {}
    BY <1>1, <1>2 DEF InitStep, Kept, CallsSound, CallSound
  <1>4. /\ Len(InitSteps) = 4 /\ InitSteps[s] \in DOMAIN handle
        /\ DOMAIN handle = {InitSteps[k] : k \in 1..4}
        /\ \A k \in 1..4 : InitSteps[k] = InitSteps[s] => k = s
    BY <1>1, <1>2 DEF InitSteps, HttpTypeOK
  <1>5. PICK r \in Calls :
          /\ request' = [request EXCEPT ![t] = r] /\ CallSound(r, {}) /\ r.late = 0
          /\ IF ~succeeds THEN r.pc = "idle" /\ ready' = ready
             ELSE IF s < 4 THEN r.pc = "init" /\ r.step = s + 1 /\ ready' = ready
             ELSE r.pc = "connect" /\ ready' = TRUE
    <2>1. CASE ~succeeds
      BY <2>1, NoneIsCall DEF InitStep
    <2>2. CASE succeeds /\ s < 4
      <3> DEFINE r == [request[t] EXCEPT !.step = s + 1]
      <3>1. request' = [request EXCEPT ![t] = r] /\ ready' = ready
        BY <1>1, <1>2, <1>4, <2>2 DEF InitStep, HttpTypeOK
      <3>2. s + 1 \in 1..4
        BY <2>2
      <3>3. r \in Calls /\ r.pc = "init" /\ r.step = s + 1
        BY <1>2, <3>2 DEF Calls
      <3>4. CallSound(r, {}) /\ r.late = 0
        BY <1>2, <1>3 DEF CallSound, Calls
      <3> QED
        BY <2>2, <3>1, <3>3, <3>4
    <2>3. CASE succeeds /\ ~(s < 4)
      <3> DEFINE r == [request[t] EXCEPT !.pc = "connect"]
      <3>1. request' = [request EXCEPT ![t] = r] /\ ready' = TRUE
        BY <1>1, <1>2, <1>4, <2>3 DEF InitStep, HttpTypeOK
      <3>2. r \in Calls /\ r.pc = "connect"
        BY <1>2 DEF Calls
      <3>3. CallSound(r, {}) /\ r.late = 0
        BY <1>2, <1>3 DEF CallSound, Calls
      <3> QED
        BY <2>3, <3>1, <3>2, <3>3
    <2> QED
      BY <2>1, <2>2, <2>3
  <1>6. HttpTypeOK'
    BY <1>1, <1>3, <1>5 DEF HttpTypeOK
  <1>7. /\ request'[t] = r /\ \A u \in HttpThreads : u # t => request'[u] = request[u]
        /\ handle'[InitSteps[s]] = succeeds
        /\ \A h \in DOMAIN handle : h # InitSteps[s] => handle'[h] = handle[h]
        /\ DOMAIN handle' = DOMAIN handle
    BY <1>1, <1>3, <1>4, <1>5 DEF HttpTypeOK
  <1>8. CallsSound'
    <2> SUFFICES ASSUME NEW u \in HttpThreads
                 PROVE  CallSound(request'[u], open'[u]) /\ (request'[u].late # 0 => cancel')
      BY DEF CallsSound
    <2> QED
      BY <1>1, <1>3, <1>5, <1>7 DEF CallsSound
  <1>9. SetUpInOrder'
    <2> SUFFICES ASSUME ~raced PROVE SetUpInOrder'
      BY <1>3 DEF SetUpInOrder
    <2>1. /\ \A k \in 1..(s - 1) : handle[InitSteps[k]]
          /\ \A u \in HttpThreads : u # t => request[u].pc # "init"
          /\ ~ready
      BY <1>1, <1>2 DEF SetUpInOrder
    <2>2. \A u \in HttpThreads : request'[u].pc = "init" => u = t
      BY <1>7, <2>1
    <2>3. \A k \in 1..(s - 1) : handle'[InitSteps[k]]
      <3> SUFFICES ASSUME NEW k \in 1..(s - 1) PROVE handle'[InitSteps[k]]
        OBVIOUS
      <3>1. k \in 1..4 /\ k # s
        BY <1>2
      <3>2. InitSteps[k] \in DOMAIN handle /\ InitSteps[k] # InitSteps[s]
        BY <1>4, <3>1
      <3> QED
        BY <1>7, <2>1, <3>2
    <2>4. CASE r.pc = "init"
      <3>1. succeeds /\ r.step = s + 1 /\ ~ready'
        BY <1>5, <2>1, <2>4
      <3>2. \A k \in 1..s : k = s \/ k \in 1..(s - 1)
        BY <1>2
      <3>3. \A k \in 1..s : handle'[InitSteps[k]]
        BY <1>7, <2>3, <3>1, <3>2
      <3>4. 1..(r.step - 1) = 1..s
        BY <3>1
      <3> QED
        BY <1>7, <2>2, <3>1, <3>3, <3>4 DEF SetUpInOrder
    <2>5. CASE r.pc # "init"
      <3>1. ready' => Valid'
        <4> SUFFICES ASSUME ready' PROVE Valid'
          OBVIOUS
        <4>1. succeeds /\ s = 4
          <5>1. ready' # ready
            BY <2>1
          <5>2. succeeds /\ ~(s < 4)
            BY <1>5, <2>5, <5>1
          <5> QED
            BY <5>2
        <4>2. \A k \in 1..4 : handle'[InitSteps[k]]
          <5>1. \A k \in 1..4 : k = 4 \/ k \in 1..(4 - 1)
            OBVIOUS
          <5> QED
            BY <1>7, <2>3, <4>1, <5>1
        <4> QED
          BY <1>4, <1>7, <4>2 DEF Valid
      <3> QED
        BY <1>7, <2>2, <2>5, <3>1 DEF SetUpInOrder
    <2> QED
      BY <2>4, <2>5
  <1> QED
    BY <1>6, <1>8, <1>9 DEF HttpInv

LEMMA ConnectCreateInv ==
    ASSUME HttpInv, NEW t \in HttpThreads, NEW succeeds \in BOOLEAN,
           Connect(t, succeeds) \/ CreateRequest(t, succeeds)
    PROVE  HttpInv'
  <1>1. HttpTypeOK /\ request[t] \in Calls /\ CallSound(request[t], open[t])
        /\ open[t] \in SUBSET {"connection", "request"}
    BY DEF HttpInv, HttpTypeOK, CallsSound
  <1>2. UNCHANGED <<ready, handle, cancel, inits, raced>>
    BY DEF Connect, CreateRequest, Kept
  <1>3. CASE Connect(t, succeeds) /\ succeeds
    <2> DEFINE r == [request[t] EXCEPT !.pc = "create"]
    <2>1. /\ request' = [request EXCEPT ![t] = r] /\ open' = [open EXCEPT ![t] = {"connection"}]
          /\ request[t].pc = "connect"
      BY <1>1, <1>3 DEF Connect, Goto, HttpTypeOK
    <2>2. r \in Calls /\ r.pc = "create" /\ CallSound(r, {"connection"}) /\ r.late = 0
      BY <1>1, <2>1 DEF Calls, CallSound
    <2> QED
      BY <1>2, <2>1, <2>2, CallMoves
  <1>4. CASE Connect(t, succeeds) /\ ~succeeds
    <2>1. request' = [request EXCEPT ![t] = None] /\ open' = open /\ open[t] = {}
      BY <1>1, <1>4 DEF Connect, CallSound
    <2> QED
      BY <1>2, <2>1, NoneIsCall, CallMoves
  <1>5. CASE CreateRequest(t, succeeds) /\ succeeds
    <2> DEFINE r == [request[t] EXCEPT !.pc = "send"]
    <2>1. /\ request' = [request EXCEPT ![t] = r] /\ open' = [open EXCEPT ![t] = open[t] \cup {"request"}]
          /\ request[t].pc = "create"
      BY <1>1, <1>5 DEF CreateRequest, Goto, HttpTypeOK
    <2>2. /\ open[t] \cup {"request"} \in SUBSET {"connection", "request"}
          /\ r \in Calls /\ r.pc = "send" /\ CallSound(r, open[t] \cup {"request"}) /\ r.late = 0
      BY <1>1, <2>1 DEF Calls, CallSound
    <2> QED
      BY <1>2, <2>1, <2>2, CallMoves
  <1>6. CASE CreateRequest(t, succeeds) /\ ~succeeds
    <2>1. /\ request' = [request EXCEPT ![t] = None] /\ open' = [open EXCEPT ![t] = open[t] \ {"connection"}]
          /\ open[t] \ {"connection"} = {}
      BY <1>1, <1>6 DEF CreateRequest, DeleteConnection, CallSound
    <2> QED
      BY <1>2, <2>1, NoneIsCall, CallMoves
  <1> QED
    BY <1>3, <1>4, <1>5, <1>6

LEMMA SendCloseInv ==
    ASSUME HttpInv, NEW t \in HttpThreads,
           CloseBoth(t) \/ \E ok \in BOOLEAN, body \in 0..MaxBody : SendRequest(t, ok, body)
    PROVE  HttpInv'
  <1>1. HttpTypeOK /\ request[t] \in Calls /\ CallSound(request[t], open[t])
        /\ open[t] \in SUBSET {"connection", "request"}
    BY DEF HttpInv, HttpTypeOK, CallsSound
  <1>2. CASE CloseBoth(t)
    BY <1>2, NoneIsCall, CallMoves DEF CloseBoth, Kept
  <1>3. ASSUME NEW ok \in BOOLEAN, NEW body \in 0..MaxBody, SendRequest(t, ok, body)
        PROVE  HttpInv'
    <2>1. UNCHANGED <<ready, handle, open, cancel, inits, raced>> /\ request[t].pc = "send"
      BY <1>3 DEF SendRequest, Kept
    <2>2. PICK pc \in {"poll", "read", "close"} :
            /\ request' = [request EXCEPT ![t] = [request[t] EXCEPT !.pc = pc, !.body = body]]
            /\ pc = "poll" => request[t].streams
      <3>1. CASE ok /\ request[t].streams
        BY <1>1, <1>3, <3>1 DEF SendRequest, HttpTypeOK
      <3>2. CASE ok /\ ~request[t].streams
        BY <1>1, <1>3, <3>2 DEF SendRequest, HttpTypeOK
      <3>3. CASE ~ok
        BY <1>1, <1>3, <3>3 DEF SendRequest, HttpTypeOK
      <3> QED
        BY <3>1, <3>2, <3>3
    <2> DEFINE r == [request[t] EXCEPT !.pc = pc, !.body = body]
    <2>3. r \in Calls /\ r.pc = pc /\ r.late = 0 /\ CallSound(r, open[t])
      <3>1. /\ r \in Calls /\ r.pc = pc /\ r.got = request[t].got /\ r.ok = request[t].ok /\ r.body = body
            /\ r.late = request[t].late /\ r.piece = request[t].piece /\ r.streams = request[t].streams
        BY <1>1 DEF Calls
      <3>2. r.got = 0 /\ r.ok = FALSE /\ r.late = 0 /\ r.piece = 0 /\ 0 <= body /\ 0 < Capacity
        BY <1>1, <2>1, <3>1, HttpAssumption DEF CallSound
      <3> QED
        BY <2>2, <3>1, <3>2 DEF CallSound
    <2> QED
      BY <1>1, <2>1, <2>2, <2>3, CallMoves
  <1> QED
    BY <1>2, <1>3

\* A call that ends its reading keeps what is true of it.
LEMMA ClosedCall ==
    ASSUME HttpInv, NEW t \in HttpThreads, NEW ok \in BOOLEAN, NEW r \in Calls,
           r = [request[t] EXCEPT !.pc = "close", !.ok = ok], request[t].pc \in {"poll", "read"},
           request' = [request EXCEPT ![t] = r], UNCHANGED <<ready, handle, open, cancel, inits, raced>>,
           ok => request[t].got = request[t].body
    PROVE  HttpInv'
  <1>1. HttpTypeOK /\ request[t] \in Calls /\ CallSound(request[t], open[t])
        /\ open[t] \in SUBSET {"connection", "request"} /\ (request[t].late # 0 => cancel)
    BY DEF HttpInv, HttpTypeOK, CallsSound
  <1>2. /\ r.pc = "close" /\ r.ok = ok /\ r.got = request[t].got /\ r.body = request[t].body
        /\ r.streams = request[t].streams /\ r.late = request[t].late
    BY <1>1 DEF Calls
  <1>3. CallSound(r, open[t])
    BY <1>1, <1>2, HttpAssumption DEF Calls, CallSound
  <1> QED
    BY <1>1, <1>2, <1>3, CallMoves

LEMMA PollReadInv ==
    ASSUME HttpInv, NEW t \in HttpThreads,
           \/ PollCancel(t) \/ ReadEnds(t) \/ ReadFails(t)
           \/ \E ok \in BOOLEAN : Deliver(t, ok)
           \/ \E n \in 1..MaxBody : ReadData(t, n)
    PROVE  HttpInv'
  <1>1. HttpTypeOK /\ request[t] \in Calls /\ CallSound(request[t], open[t])
        /\ open[t] \in SUBSET {"connection", "request"} /\ (request[t].late # 0 => cancel)
    BY DEF HttpInv, HttpTypeOK, CallsSound
  <1>2. UNCHANGED <<ready, handle, open, cancel, inits, raced>>
    BY DEF PollCancel, ReadEnds, ReadFails, ReadData, Deliver, Kept
  <1>c. \A ok \in BOOLEAN : [request[t] EXCEPT !.pc = "close", !.ok = ok] \in Calls
    BY <1>1 DEF Calls
  <1>3. CASE PollCancel(t) /\ cancel
    BY <1>2, <1>3, <1>c, ClosedCall DEF PollCancel, Close
  <1>4. CASE PollCancel(t) /\ ~cancel
    <2> DEFINE r == [request[t] EXCEPT !.pc = "read"]
    <2>1. request' = [request EXCEPT ![t] = r] /\ request[t].pc = "poll" /\ request[t].late = 0
      BY <1>1, <1>4 DEF PollCancel, Goto, HttpTypeOK
    <2>2. /\ r \in Calls /\ r.pc = "read" /\ r.ok = request[t].ok /\ r.got = request[t].got
          /\ r.body = request[t].body /\ r.streams = request[t].streams /\ r.late = 0
          /\ r.piece = request[t].piece
      BY <1>1, <2>1 DEF Calls
    <2>3. CallSound(r, open[t])
      BY <1>1, <2>1, <2>2 DEF CallSound
    <2> QED
      BY <1>1, <1>2, <2>1, <2>2, <2>3, CallMoves
  <1>5. CASE ReadEnds(t)
    BY <1>2, <1>5, <1>c, ClosedCall DEF ReadEnds, Close
  <1>6. CASE ReadFails(t)
    BY <1>2, <1>6, <1>c, ClosedCall DEF ReadFails, Close
  <1>7. ASSUME NEW n \in 1..MaxBody, ReadData(t, n), ~request[t].streams
        PROVE  HttpInv'
    <2> DEFINE s == [request[t] EXCEPT !.got = @ + n]
    <2>1. /\ n \in 1..Room(request[t]) /\ request[t].got + n <= request[t].body /\ request[t].pc = "read"
          /\ IF Full(s) THEN request' = [request EXCEPT ![t] = [s EXCEPT !.pc = "close", !.ok = TRUE]]
             ELSE request' = [request EXCEPT ![t] = s]
      BY <1>7 DEF ReadData, Close
    <2>2. request[t].got + n \in 0..MaxBody /\ request[t].late = 0 /\ request[t].piece = 0
      BY <1>1, <1>7, <2>1, HttpAssumption DEF Calls, CallSound
    <2>3. /\ s \in Calls /\ s.pc = "read" /\ s.streams = FALSE /\ s.got = request[t].got + n
          /\ s.body = request[t].body /\ s.ok = FALSE /\ s.late = 0 /\ s.piece = 0
      BY <1>1, <1>7, <2>1, <2>2 DEF Calls, CallSound
    <2>4. s.got <= Capacity
      BY <1>1, <1>7, <2>1, <2>3, HttpAssumption DEF Room, Calls
    <2>5. CASE Full(s)
      <3> DEFINE r == [s EXCEPT !.pc = "close", !.ok = TRUE]
      <3>1. /\ r \in Calls /\ r.pc = "close" /\ r.got = s.got /\ r.body = s.body /\ r.streams = FALSE
            /\ r.late = 0
        BY <2>3 DEF Calls
      <3>2. r.got = Capacity /\ ~(r.body < Capacity)
        BY <2>1, <2>3, <2>4, <2>5, <3>1, HttpAssumption DEF Full, Calls
      <3>3. CallSound(r, open[t])
        BY <3>1, <3>2 DEF CallSound
      <3> QED
        BY <1>1, <1>2, <2>1, <2>5, <3>1, <3>3, CallMoves
    <2>6. CASE ~Full(s)
      <3>1. CallSound(s, open[t])
        BY <2>1, <2>3, <2>6, HttpAssumption DEF CallSound, Full, Calls
      <3> QED
        BY <1>1, <1>2, <2>1, <2>3, <2>6, <3>1, CallMoves
    <2> QED
      BY <2>5, <2>6
  <1>8. ASSUME NEW n \in 1..MaxBody, ReadData(t, n), request[t].streams
        PROVE  HttpInv'
    <2> DEFINE r == [request[t] EXCEPT !.pc = "deliver", !.piece = n]
    <2>1. /\ request' = [request EXCEPT ![t] = r] /\ request[t].got + n <= request[t].body
          /\ request[t].pc = "read"
      BY <1>8 DEF ReadData
    <2>a. request[t].streams = TRUE /\ n \in 0..MaxBody
      BY <1>1, <1>8, HttpAssumption DEF Calls
    <2>2. /\ r \in Calls /\ r.pc = "deliver" /\ r.piece = n /\ r.got = request[t].got /\ r.streams = TRUE
          /\ r.body = request[t].body /\ r.ok = request[t].ok /\ r.late = request[t].late
      BY <1>1, <2>a DEF Calls
    <2>3. CallSound(r, open[t]) /\ r.late = 0
      BY <1>1, <2>1, <2>2 DEF CallSound
    <2> QED
      BY <1>1, <1>2, <2>1, <2>2, <2>3, CallMoves
  <1>9. ASSUME NEW accepted \in BOOLEAN, Deliver(t, accepted)
        PROVE  HttpInv'
    <2> DEFINE s == PassedOn(request[t])
    <2>1. request[t].pc = "deliver" /\ request[t].late = 0 /\ request[t].streams = TRUE
      BY <1>1, <1>9 DEF Deliver, CallSound, Calls
    <2>2. request[t].got + request[t].piece \in 0..MaxBody
      BY <1>1, <2>1, HttpAssumption DEF CallSound, Calls
    <2>a. request[t].ok = FALSE /\ 0 \in 0..MaxBody
      BY <1>1, <2>1, HttpAssumption DEF CallSound
    <2>b. PICK late \in {0, 1} :
            /\ late = (IF cancel THEN 1 ELSE 0)
            /\ s = [request[t] EXCEPT !.got = request[t].got + request[t].piece, !.piece = 0, !.late = late]
      <3>1. CASE cancel
        BY <1>1, <2>1, <3>1 DEF PassedOn, Calls
      <3>2. CASE ~cancel
        BY <1>1, <2>1, <3>2 DEF PassedOn, Calls
      <3> QED
        BY <3>1, <3>2
    <2>3. /\ s \in Calls /\ s.pc = "deliver" /\ s.got = request[t].got + request[t].piece /\ s.piece = 0
          /\ s.streams = TRUE /\ s.body = request[t].body /\ s.ok = FALSE
          /\ s.late = (IF cancel THEN 1 ELSE 0)
      <3> HIDE DEF s
      <3> QED
        BY <1>1, <2>1, <2>2, <2>a, <2>b DEF Calls
    <2> HIDE DEF s
    <2>4. CASE accepted
      <3> DEFINE r == [s EXCEPT !.pc = "poll"]
      <3>1. request' = [request EXCEPT ![t] = r]
        BY <1>9, <2>4 DEF Deliver, s
      <3>2. /\ r \in Calls /\ r.pc = "poll" /\ r.got = s.got /\ r.piece = 0 /\ r.streams = TRUE
            /\ r.body = s.body /\ r.ok = FALSE /\ r.late = s.late
        BY <2>3 DEF Calls
      <3>3. CallSound(r, open[t])
        BY <1>1, <2>1, <2>2, <2>3, <3>2 DEF CallSound, Calls
      <3>4. r.late # 0 => cancel
        BY <2>3, <3>2
      <3> QED
        BY <1>1, <1>2, <3>1, <3>2, <3>3, <3>4, CallMoves
    <2>5. CASE ~accepted
      <3> DEFINE r == [s EXCEPT !.pc = "close", !.ok = FALSE]
      <3>1. request' = [request EXCEPT ![t] = r]
        BY <1>9, <2>5 DEF Deliver, Close, s
      <3>2. /\ r \in Calls /\ r.pc = "close" /\ r.streams = TRUE /\ r.ok = FALSE /\ r.late = s.late
        BY <2>3 DEF Calls
      <3>3. CallSound(r, open[t])
        BY <2>3, <3>2 DEF CallSound
      <3>4. r.late # 0 => cancel
        BY <2>3, <3>2
      <3> QED
        BY <1>1, <1>2, <3>1, <3>2, <3>3, <3>4, CallMoves
    <2> QED
      BY <2>4, <2>5
  <1> QED
    BY <1>3, <1>4, <1>5, <1>6, <1>7, <1>8, <1>9

LEMMA HttpStepInv == HttpInv /\ [HttpNext]_httpVars => HttpInv'
  <1> SUFFICES ASSUME HttpInv, [HttpNext]_httpVars PROVE HttpInv'
    OBVIOUS
  <1>1. CASE Cancel
    BY <1>1 DEF Cancel, HttpInv, HttpTypeOK, CallsSound, SetUpInOrder, Valid
  <1>2. CASE UNCHANGED httpVars
    BY <1>2 DEF httpVars, HttpInv, HttpTypeOK, CallsSound, SetUpInOrder, Valid
  <1>3. CASE HttpNext /\ ~Cancel
    BY <1>3, BeginInv, InitStepInv, ConnectCreateInv, SendCloseInv, PollReadInv DEF HttpNext
  <1> QED
    BY <1>1, <1>2, <1>3

LEMMA HttpSound == HttpInv => HttpTypeOK /\ HttpInvariant
  <1> SUFFICES ASSUME HttpInv PROVE HttpTypeOK /\ HttpInvariant
    OBVIOUS
  <1>1. HttpTypeOK /\ CallsSound /\ SetUpInOrder
    BY DEF HttpInv
  <1>2. ReadyIsWhole
    BY <1>1 DEF ReadyIsWhole, SetUpInOrder
  <1>3. NothingLeftOpen
    BY <1>1, NoneIsCall DEF NothingLeftOpen, CallsSound, CallSound
  <1>4. BodiesAreWhole
    BY <1>1 DEF BodiesAreWhole, CallsSound, CallSound
  <1>5. CancelledStops
    BY <1>1 DEF CancelledStops, CallsSound, CallSound
  <1> QED
    BY <1>1, <1>2, <1>3, <1>4, <1>5 DEF HttpInvariant

-----------------------------------------------------------------------------
(* Datagrams *)

\* What is true of thread r's call c while the table of threads is T.
CallIsTrue(r, c, T) ==
    /\ c.guarded => redirected = {"recvfrom", "getpacket"}
    /\ c.at \in {"find", "claim", "reset"} => c.guarded
    /\ c.at \in {"find", "claim"} => c.slot = NoSlot
    /\ c.at = "find" => c.scan = 1
    /\ c.at = "claim" =>
          \A i \in Slots1 : T[i].thread # r /\ (i < c.scan => T[i].thread # NoOne)
    /\ c.slot # NoSlot => c.guarded /\ c.slot \in Slots1 /\ T[c.slot].thread = r
    /\ c.guarded /\ c.slot = NoSlot /\ c.at \in {"reset", "receive", "returned", "done"} =>
          \A i \in Slots1 : T[i].thread \notin {r, NoOne}
    /\ c.at \in {"find", "claim", "reset", "receive"} => c.got = "none" /\ ~c.empty
    /\ c.at # "done" => c.tries < ReceiveLimit
    /\ c.slot # NoSlot /\ c.at = "receive" => ~T[c.slot].received
    /\ c.slot # NoSlot /\ c.at = "returned" => (T[c.slot].received <=> ~c.empty)
    /\ c.empty => c.at \in {"returned", "done"}
    /\ c.at = "done" /\ c.guarded /\ c.got = "none" =>
          c.empty \/ c.tries = ReceiveLimit \/ c.slot = NoSlot

\* Table U is table T but for what thread r may write: its own entry, and a free one it claims.
TouchedBy(r, T, U) ==
    \A i \in Slots1 : U[i] = T[i] \/ (T[i].thread \in {r, NoOne} /\ U[i].thread = r)

DatagramsInv ==
    /\ DatagramsTypeOK /\ OneEntryEach
    /\ \A r \in Receivers : CallIsTrue(r, receiver[r], threads)

LEMMA OutsideIsTrue ==
    /\ OutsideCall \in ReceiverCalls /\ OutsideCall.at = "outside" /\ OutsideCall.slot = NoSlot
    /\ OutsideCall.scan = 1 /\ OutsideCall.tries = 0 /\ OutsideCall.got = "none"
    /\ OutsideCall.empty = FALSE /\ OutsideCall.guarded = FALSE
  BY DatagramsAssumption DEF OutsideCall, ReceiverCalls, NoSlot

LEMMA OutsideAlwaysTrue == \A r \in Receivers : CallIsTrue(r, OutsideCall, threads)
  BY OutsideIsTrue, DatagramsAssumption DEF CallIsTrue

LEMMA DatagramsInitInv == DatagramsInit => DatagramsInv
  <1> SUFFICES ASSUME DatagramsInit PROVE DatagramsInv
    OBVIOUS
  <1>1. \A i \in Slots1 : threads[i] \in ThreadStates /\ threads[i].thread = NoOne
    BY DEF DatagramsInit, ThreadStates
  <1>2. DatagramsTypeOK
    <2>1. socket \in Seq(BOOLEAN) /\ redirected = {}
      BY DEF DatagramsInit
    <2>2. threads \in [Slots1 -> ThreadStates] /\ receiver \in [Receivers -> ReceiverCalls]
      BY <1>1, OutsideIsTrue DEF DatagramsInit
    <2> QED
      BY <2>1, <2>2 DEF DatagramsTypeOK
  <1>3. OneEntryEach
    BY <1>1, DatagramsAssumption DEF OneEntryEach, Own, NoOne
  <1>4. \A r \in Receivers : CallIsTrue(r, receiver[r], threads)
    <2>1. \A r \in Receivers : receiver[r] = OutsideCall
      BY DEF DatagramsInit
    <2> QED
      BY <2>1, OutsideAlwaysTrue
  <1> QED
    BY <1>2, <1>3, <1>4 DEF DatagramsInv

\* What one thread writes into the table changes nothing for another.
LEMMA OthersAreLeft ==
    ASSUME NEW r \in Receivers, NEW u \in Receivers, u # r, NEW c \in ReceiverCalls,
           NEW T \in [Slots1 -> ThreadStates], NEW U \in [Slots1 -> ThreadStates], TouchedBy(r, T, U),
           CallIsTrue(u, c, T)
    PROVE  CallIsTrue(u, c, U)
  <1>1. u # NoOne /\ r # NoOne
    BY DatagramsAssumption DEF NoOne
  <1>2. \A i \in Slots1 : /\ T[i].thread = u => U[i] = T[i]
                          /\ T[i].thread # u => U[i].thread # u
                          /\ T[i].thread # NoOne => U[i].thread # NoOne
    BY <1>1 DEF TouchedBy
  <1>3. c.slot # NoSlot => c.slot \in Slots1 /\ U[c.slot] = T[c.slot]
    BY <1>2 DEF CallIsTrue
  <1> QED
    BY <1>2, <1>3 DEF CallIsTrue

\* A step of thread r's call: its record becomes c and the table T.
LEMMA CallSteps ==
    ASSUME DatagramsInv, NEW r \in Receivers, NEW c \in ReceiverCalls, NEW T \in [Slots1 -> ThreadStates],
           receiver' = [receiver EXCEPT ![r] = c], threads' = T, TouchedBy(r, threads, T),
           \A i, j \in Slots1 : T[i].thread = r /\ T[j].thread = r => i = j,
           redirected' = redirected, socket' \in Seq(BOOLEAN), CallIsTrue(r, c, T)
    PROVE  DatagramsInv'
  <1>1. DatagramsTypeOK /\ OneEntryEach /\ \A u \in Receivers : CallIsTrue(u, receiver[u], threads)
    BY DEF DatagramsInv
  <1>2. DatagramsTypeOK'
    BY <1>1 DEF DatagramsTypeOK
  <1>3. /\ receiver'[r] = c /\ \A u \in Receivers : u # r => receiver'[u] = receiver[u]
        /\ threads \in [Slots1 -> ThreadStates] /\ \A u \in Receivers : receiver[u] \in ReceiverCalls
    BY <1>1 DEF DatagramsTypeOK
  <1>4. OneEntryEach'
    <2> SUFFICES ASSUME NEW u \in Receivers, NEW i \in Slots1, NEW j \in Slots1,
                        threads'[i].thread = u, threads'[j].thread = u
                 PROVE  i = j
      BY DEF OneEntryEach, Own
    <2>1. CASE u = r
      BY <2>1
    <2>2. CASE u # r
      <3>1. threads[i].thread = u /\ threads[j].thread = u
        BY <2>2 DEF TouchedBy
      <3> QED
        BY <1>1, <3>1 DEF OneEntryEach, Own
    <2> QED
      BY <2>1, <2>2
  <1>5. ASSUME NEW u \in Receivers PROVE CallIsTrue(u, receiver'[u], threads')
    <2>1. CASE u = r
      BY <1>3, <2>1
    <2>2. CASE u # r
      BY <1>1, <1>3, <2>2, OthersAreLeft
    <2> QED
      BY <2>1, <2>2
  <1>6. \A u \in Receivers : CallIsTrue(u, receiver[u], threads)'
    BY <1>5 DEF CallIsTrue
  <1> QED
    BY <1>2, <1>4, <1>6 DEF DatagramsInv

\* ... and one that leaves the table alone.
LEMMA CallStepsOnly ==
    ASSUME DatagramsInv, NEW r \in Receivers, NEW c \in ReceiverCalls,
           receiver' = [receiver EXCEPT ![r] = c], threads' = threads,
           redirected' = redirected, socket' \in Seq(BOOLEAN), CallIsTrue(r, c, threads)
    PROVE  DatagramsInv'
  <1>1. threads \in [Slots1 -> ThreadStates] /\ TouchedBy(r, threads, threads)
    BY DEF DatagramsInv, DatagramsTypeOK, TouchedBy
  <1>2. \A i, j \in Slots1 : threads[i].thread = r /\ threads[j].thread = r => i = j
    BY DEF DatagramsInv, OneEntryEach, Own
  <1> QED
    BY <1>1, <1>2, CallSteps

LEMMA AskFindInv ==
    ASSUME DatagramsInv, NEW r \in Receivers, AskPacket(r) \/ FindState(r) \/ EndCall(r)
    PROVE  DatagramsInv'
  <1>1. /\ DatagramsTypeOK /\ CallIsTrue(r, receiver[r], threads) /\ receiver[r] \in ReceiverCalls
        /\ threads' = threads /\ redirected' = redirected /\ socket' \in Seq(BOOLEAN)
    BY DEF DatagramsInv, DatagramsTypeOK, AskPacket, FindState, EndCall
  <1>2. CASE AskPacket(r)
    <2>1. CASE "getpacket" \in redirected
      <3> DEFINE c == [OutsideCall EXCEPT !.guarded = TRUE, !.at = "find"]
      <3>1. receiver' = [receiver EXCEPT ![r] = c]
        BY <1>2, <2>1 DEF AskPacket
      <3>2. /\ c \in ReceiverCalls /\ c.at = "find" /\ c.slot = NoSlot /\ c.scan = 1 /\ c.tries = 0
            /\ c.got = "none" /\ c.empty = FALSE /\ c.guarded = TRUE
        BY OutsideIsTrue DEF ReceiverCalls
      <3>3. redirected = {"recvfrom", "getpacket"}
        BY <1>1, <2>1 DEF DatagramsTypeOK
      <3>4. CallIsTrue(r, c, threads)
        BY <3>2, <3>3, DatagramsAssumption DEF CallIsTrue
      <3> QED
        BY <1>1, <3>1, <3>2, <3>4, CallStepsOnly
    <2>2. CASE "getpacket" \notin redirected
      <3> DEFINE c == [OutsideCall EXCEPT !.guarded = FALSE, !.at = "receive"]
      <3>1. receiver' = [receiver EXCEPT ![r] = c]
        <4>1. ("getpacket" \in redirected) = FALSE
          BY <2>2
        <4>2. receiver' = [receiver EXCEPT ![r] =
                 [OutsideCall EXCEPT !.guarded = ("getpacket" \in redirected), !.at = "receive"]]
          BY <1>2, <2>2, Zenon DEF AskPacket
        <4> QED
          BY <4>1, <4>2, Zenon
      <3>2. /\ c \in ReceiverCalls /\ c.at = "receive" /\ c.slot = NoSlot /\ c.tries = 0
            /\ c.got = "none" /\ c.empty = FALSE /\ c.guarded = FALSE
        BY OutsideIsTrue DEF ReceiverCalls
      <3>3. CallIsTrue(r, c, threads)
        BY <3>2, DatagramsAssumption DEF CallIsTrue
      <3> QED
        BY <1>1, <3>1, <3>2, <3>3, CallStepsOnly
    <2> QED
      BY <2>1, <2>2
  <1>3. CASE FindState(r) /\ Own(r) # {}
    <2> DEFINE i == CHOOSE i \in Own(r) : TRUE
               c == [receiver[r] EXCEPT !.at = "reset", !.slot = i]
    <2>1. receiver' = [receiver EXCEPT ![r] = c] /\ receiver[r].at = "find"
      BY <1>3 DEF FindState
    <2>2. i \in Slots1 /\ threads[i].thread = r
      BY <1>3 DEF Own
    <2> HIDE DEF i
    <2>3. /\ c \in ReceiverCalls /\ c.at = "reset" /\ c.slot = i /\ c.tries = receiver[r].tries
          /\ c.got = receiver[r].got /\ c.empty = receiver[r].empty /\ c.guarded = receiver[r].guarded
      BY <1>1, <2>2 DEF ReceiverCalls
    <2> HIDE DEF c
    <2>4. CallIsTrue(r, c, threads)
      BY <1>1, <2>1, <2>2, <2>3, DatagramsAssumption DEF CallIsTrue, Slots1, NoSlot
    <2> QED
      BY <1>1, <2>1, <2>3, <2>4, CallStepsOnly
  <1>4. CASE FindState(r) /\ Own(r) = {}
    <2> DEFINE c == [receiver[r] EXCEPT !.at = "claim"]
    <2>1. receiver' = [receiver EXCEPT ![r] = c] /\ receiver[r].at = "find"
      BY <1>4 DEF FindState
    <2>2. /\ c \in ReceiverCalls /\ c.at = "claim" /\ c.slot = receiver[r].slot /\ c.tries = receiver[r].tries
          /\ c.got = receiver[r].got /\ c.empty = receiver[r].empty /\ c.guarded = receiver[r].guarded
          /\ c.scan = receiver[r].scan
      BY <1>1 DEF ReceiverCalls
    <2> HIDE DEF c
    <2>3. \A i \in Slots1 : threads[i].thread # r /\ ~(i < 1)
      BY <1>4, DatagramsAssumption DEF Own, Slots1
    <2>4. CallIsTrue(r, c, threads)
      BY <1>1, <2>1, <2>2, <2>3 DEF CallIsTrue
    <2> QED
      BY <1>1, <2>1, <2>2, <2>4, CallStepsOnly
  <1>5. CASE EndCall(r)
    <2>1. receiver' = [receiver EXCEPT ![r] = OutsideCall]
      BY <1>5 DEF EndCall
    <2> QED
      BY <1>1, <2>1, OutsideAlwaysTrue, OutsideIsTrue, CallStepsOnly
  <1> QED
    BY <1>2, <1>3, <1>4, <1>5

LEMMA ClaimStateInv ==
    ASSUME DatagramsInv, NEW r \in Receivers, ClaimState(r)
    PROVE  DatagramsInv'
  <1>1. /\ DatagramsTypeOK /\ CallIsTrue(r, receiver[r], threads) /\ receiver[r] \in ReceiverCalls
        /\ redirected' = redirected /\ socket' \in Seq(BOOLEAN) /\ threads \in [Slots1 -> ThreadStates]
        /\ receiver[r].at = "claim" /\ receiver \in [Receivers -> ReceiverCalls]
    BY DEF DatagramsInv, DatagramsTypeOK, ClaimState
  <1>2. PICK i \in 1..(StateSlots + 1) : i = receiver[r].scan
    BY <1>1 DEF ReceiverCalls
  <1>3. CASE i \notin Slots1
    <2> DEFINE c == [receiver[r] EXCEPT !.at = "reset"]
    <2>1. receiver' = [receiver EXCEPT ![r] = c] /\ threads' = threads
      BY <1>1, <1>2, <1>3 DEF ClaimState
    <2>2. /\ c \in ReceiverCalls /\ c.at = "reset" /\ c.slot = receiver[r].slot /\ c.tries = receiver[r].tries
          /\ c.got = receiver[r].got /\ c.empty = receiver[r].empty /\ c.guarded = receiver[r].guarded
      BY <1>1 DEF ReceiverCalls
    <2> HIDE DEF c
    <2>3. \A k \in Slots1 : k < i
      BY <1>3, DatagramsAssumption DEF Slots1
    <2>4. CallIsTrue(r, c, threads)
      BY <1>1, <1>2, <2>2, <2>3 DEF CallIsTrue
    <2> QED
      BY <1>1, <2>1, <2>2, <2>4, CallStepsOnly
  <1>4. CASE i \in Slots1 /\ threads[i].thread = NoOne
    <2> DEFINE c == [receiver[r] EXCEPT !.at = "reset", !.slot = i]
               T == [threads EXCEPT ![i] = [threads[i] EXCEPT !.thread = r]]
    <2>1. receiver' = [receiver EXCEPT ![r] = c] /\ threads' = T
      BY <1>1, <1>2, <1>4 DEF ClaimState
    <2>2. /\ c \in ReceiverCalls /\ c.at = "reset" /\ c.slot = i /\ c.tries = receiver[r].tries
          /\ c.got = receiver[r].got /\ c.empty = receiver[r].empty /\ c.guarded = receiver[r].guarded
      BY <1>1, <1>4 DEF ReceiverCalls
    <2>3. [threads[i] EXCEPT !.thread = r] \in ThreadStates /\ [threads[i] EXCEPT !.thread = r].thread = r
      BY <1>1, <1>4 DEF ThreadStates
    <2>4. /\ T \in [Slots1 -> ThreadStates] /\ T[i].thread = r
          /\ \A k \in Slots1 : k # i => T[k] = threads[k]
      BY <1>1, <1>4, <2>3
    <2> HIDE DEF c, T
    <2>5. \A k \in Slots1 : threads[k].thread # r
      BY <1>1 DEF CallIsTrue
    <2>6. TouchedBy(r, threads, T) /\ \A k, j \in Slots1 : T[k].thread = r /\ T[j].thread = r => k = j
      BY <1>4, <2>4, <2>5 DEF TouchedBy
    <2>7. CallIsTrue(r, c, T)
      BY <1>1, <1>4, <2>2, <2>4, DatagramsAssumption DEF CallIsTrue, Slots1, NoSlot
    <2> QED
      BY <1>1, <2>1, <2>2, <2>4, <2>6, <2>7, CallSteps
  <1>5. CASE i \in Slots1 /\ threads[i].thread # NoOne
    <2> DEFINE c == [receiver[r] EXCEPT !.scan = i + 1]
    <2>1. receiver' = [receiver EXCEPT ![r] = c] /\ threads' = threads
      BY <1>1, <1>2, <1>5 DEF ClaimState
    <2>2. i + 1 \in 1..(StateSlots + 1)
      BY <1>5, DatagramsAssumption DEF Slots1
    <2>3. /\ c \in ReceiverCalls /\ c.at = "claim" /\ c.slot = receiver[r].slot /\ c.tries = receiver[r].tries
          /\ c.got = receiver[r].got /\ c.empty = receiver[r].empty /\ c.guarded = receiver[r].guarded
          /\ c.scan = i + 1
      BY <1>1, <2>2 DEF ReceiverCalls
    <2> HIDE DEF c
    <2>4. \A k \in Slots1 : k < i + 1 => k < i \/ k = i
      BY <1>5, DatagramsAssumption DEF Slots1
    <2>5. CallIsTrue(r, c, threads)
      BY <1>1, <1>2, <1>5, <2>3, <2>4 DEF CallIsTrue
    <2> QED
      BY <1>1, <2>1, <2>3, <2>5, CallStepsOnly
  <1> QED
    BY <1>3, <1>4, <1>5

LEMMA ResetFlagInv ==
    ASSUME DatagramsInv, NEW r \in Receivers, ResetFlag(r)
    PROVE  DatagramsInv'
  <1>1. /\ DatagramsTypeOK /\ CallIsTrue(r, receiver[r], threads) /\ receiver[r] \in ReceiverCalls
        /\ redirected' = redirected /\ socket' \in Seq(BOOLEAN) /\ threads \in [Slots1 -> ThreadStates]
        /\ receiver[r].at = "reset" /\ receiver \in [Receivers -> ReceiverCalls]
        /\ \A i, j \in Slots1 : threads[i].thread = r /\ threads[j].thread = r => i = j
    BY DEF DatagramsInv, DatagramsTypeOK, ResetFlag, OneEntryEach, Own
  <1> DEFINE c == [receiver[r] EXCEPT !.at = "receive"]
  <1>2. receiver' = [receiver EXCEPT ![r] = c]
    BY <1>1 DEF ResetFlag
  <1>3. /\ c \in ReceiverCalls /\ c.at = "receive" /\ c.slot = receiver[r].slot /\ c.tries = receiver[r].tries
        /\ c.got = receiver[r].got /\ c.empty = receiver[r].empty /\ c.guarded = receiver[r].guarded
    BY <1>1 DEF ReceiverCalls
  <1> HIDE DEF c
  <1>4. CASE receiver[r].slot = NoSlot
    <2>1. threads' = threads /\ CallIsTrue(r, c, threads)
      BY <1>1, <1>3, <1>4 DEF ResetFlag, CallIsTrue
    <2> QED
      BY <1>1, <1>2, <1>3, <2>1, CallStepsOnly
  <1>5. CASE receiver[r].slot # NoSlot
    <2>1. PICK i \in Slots1 : i = receiver[r].slot /\ threads[i].thread = r
      BY <1>1, <1>5 DEF CallIsTrue
    <2> DEFINE T == [threads EXCEPT ![i] = [threads[i] EXCEPT !.received = FALSE]]
    <2>2. threads' = T
      BY <1>1, <1>5, <2>1 DEF ResetFlag, Lowered
    <2>3. /\ [threads[i] EXCEPT !.received = FALSE] \in ThreadStates
          /\ [threads[i] EXCEPT !.received = FALSE].thread = r
          /\ [threads[i] EXCEPT !.received = FALSE].received = FALSE
      BY <1>1, <2>1 DEF ThreadStates
    <2>4. /\ T \in [Slots1 -> ThreadStates] /\ T[i].thread = r /\ T[i].received = FALSE
          /\ \A k \in Slots1 : k # i => T[k] = threads[k]
      BY <1>1, <2>3
    <2> HIDE DEF T
    <2>5. TouchedBy(r, threads, T) /\ \A k, j \in Slots1 : T[k].thread = r /\ T[j].thread = r => k = j
      BY <1>1, <2>1, <2>4 DEF TouchedBy
    <2>6. CallIsTrue(r, c, T)
      BY <1>1, <1>3, <2>1, <2>4 DEF CallIsTrue
    <2> QED
      BY <1>1, <1>2, <1>3, <2>2, <2>4, <2>5, <2>6, CallSteps
  <1> QED
    BY <1>4, <1>5

\* The wrapper of recvfrom notes the datagram in one entry, which is the thread's own.
LEMMA NotedTouches ==
    ASSUME DatagramsTypeOK, OneEntryEach, NEW r \in Receivers
    PROVE  /\ Noted(r) \in [Slots1 -> ThreadStates] /\ TouchedBy(r, threads, Noted(r))
           /\ \A i, j \in Slots1 : Noted(r)[i].thread = r /\ Noted(r)[j].thread = r => i = j
           /\ "recvfrom" \in redirected =>
                 \A i \in Slots1 : threads[i].thread = r => Noted(r)[i].thread = r /\ Noted(r)[i].received
  <1> DEFINE mine == [thread |-> r, received |-> TRUE]
  <1>1. mine \in ThreadStates /\ threads \in [Slots1 -> ThreadStates]
    BY DEF DatagramsTypeOK, ThreadStates
  <1>2. \A i \in Slots1 : threads[i].thread = r <=> i \in Own(r)
    BY DEF Own
  <1>3. \A i, j \in Own(r) : i = j
    BY DEF OneEntryEach
  <1>4. CASE "recvfrom" \notin redirected
    BY <1>1, <1>2, <1>3, <1>4 DEF Noted, TouchedBy
  <1>5. CASE "recvfrom" \in redirected /\ Own(r) # {}
    <2>1. /\ Entries(r) = Own(r)
          /\ Noted(r) = [i \in Slots1 |-> IF i \in Own(r) THEN mine ELSE threads[i]]
      BY <1>5 DEF Noted, Entries
    <2> QED
      BY <1>1, <1>2, <1>3, <1>5, <2>1 DEF TouchedBy
  <1>6. CASE "recvfrom" \in redirected /\ Own(r) = {}
    <2> DEFINE E == {i \in Slots1 : threads[i].thread = NoOne /\ \A j \in 1..i - 1 : threads[j].thread # NoOne}
    <2>1. Noted(r) = [i \in Slots1 |-> IF i \in E THEN mine ELSE threads[i]]
      BY <1>6 DEF Noted, Entries
    <2>2. \A i, j \in E : i = j
      <3> SUFFICES ASSUME NEW i \in E, NEW j \in E, i < j PROVE FALSE
        BY DatagramsAssumption DEF Slots1
      <3> QED
        BY DatagramsAssumption DEF Slots1
    <2>3. \A i \in E : threads[i].thread = NoOne
      OBVIOUS
    <2> HIDE DEF E
    <2> QED
      BY <1>1, <1>2, <1>6, <2>1, <2>2, <2>3 DEF TouchedBy
  <1> QED
    BY <1>4, <1>5, <1>6

LEMMA GetPacketInv ==
    ASSUME DatagramsInv, NEW r \in Receivers, GetPacket(r)
    PROVE  DatagramsInv'
  <1>1. /\ DatagramsTypeOK /\ CallIsTrue(r, receiver[r], threads) /\ receiver[r] \in ReceiverCalls
        /\ redirected' = redirected /\ threads \in [Slots1 -> ThreadStates]
        /\ receiver[r].at = "receive" /\ receiver \in [Receivers -> ReceiverCalls] /\ OneEntryEach
    BY DEF DatagramsInv, DatagramsTypeOK, GetPacket
  <1>2. CASE socket = <<>>
    <2> DEFINE c == [receiver[r] EXCEPT !.at = "returned", !.empty = TRUE]
    <2>1. receiver' = [receiver EXCEPT ![r] = c] /\ threads' = threads /\ socket' \in Seq(BOOLEAN)
      BY <1>1, <1>2 DEF GetPacket, DatagramsTypeOK
    <2>2. /\ c \in ReceiverCalls /\ c.at = "returned" /\ c.slot = receiver[r].slot /\ c.tries = receiver[r].tries
          /\ c.got = receiver[r].got /\ c.empty = TRUE /\ c.guarded = receiver[r].guarded
      BY <1>1 DEF ReceiverCalls
    <2> HIDE DEF c
    <2>3. CallIsTrue(r, c, threads)
      BY <1>1, <2>2 DEF CallIsTrue
    <2> QED
      BY <1>1, <2>1, <2>2, <2>3, CallStepsOnly
  <1>3. CASE socket # <<>>
    <2>1. PICK got \in {"packet", "none"} :
            receiver' = [receiver EXCEPT ![r] = [receiver[r] EXCEPT !.at = "returned", !.got = got]]
      <3>1. CASE Head(socket)
        BY <1>1, <1>3, <3>1 DEF GetPacket
      <3>2. CASE ~Head(socket)
        BY <1>1, <1>3, <3>2 DEF GetPacket
      <3> QED
        BY <3>1, <3>2
    <2> DEFINE c == [receiver[r] EXCEPT !.at = "returned", !.got = got]
               T == Noted(r)
    <2>2. threads' = T /\ socket' \in Seq(BOOLEAN)
      <3>1. threads' = T /\ socket' = Tail(socket)
        BY <1>3 DEF GetPacket
      <3>2. socket \in Seq(BOOLEAN)
        BY <1>1 DEF DatagramsTypeOK
      <3> QED
        BY <1>3, <3>1, <3>2
    <2>3. /\ c \in ReceiverCalls /\ c.at = "returned" /\ c.slot = receiver[r].slot /\ c.tries = receiver[r].tries
          /\ c.got = got /\ c.empty = receiver[r].empty /\ c.guarded = receiver[r].guarded
      BY <1>1 DEF ReceiverCalls
    <2>4. receiver' = [receiver EXCEPT ![r] = c]
      BY <2>1
    <2> HIDE DEF c
    <2>5. /\ T \in [Slots1 -> ThreadStates] /\ TouchedBy(r, threads, T)
          /\ \A i, j \in Slots1 : T[i].thread = r /\ T[j].thread = r => i = j
          /\ "recvfrom" \in redirected =>
                \A i \in Slots1 : threads[i].thread = r => T[i].thread = r /\ T[i].received
      BY <1>1, NotedTouches
    <2> HIDE DEF T
    <2>6. c.slot # NoSlot => c.guarded
      BY <1>1, <2>3 DEF CallIsTrue
    <2>7. CallIsTrue(r, c, T)
      <3>1. CASE receiver[r].slot # NoSlot
        <4>1. T[c.slot].thread = r /\ T[c.slot].received /\ c.slot \in Slots1
          BY <1>1, <2>3, <2>5, <2>6, <3>1 DEF CallIsTrue
        <4> QED
          BY <1>1, <2>3, <3>1, <4>1 DEF CallIsTrue
      <3>2. CASE receiver[r].slot = NoSlot
        <4>1. (\A i \in Slots1 : threads[i].thread \notin {r, NoOne}) => T = threads
          BY <1>1, <2>5 DEF TouchedBy
        <4> QED
          BY <1>1, <2>3, <3>2, <4>1 DEF CallIsTrue
      <3> QED
        BY <3>1, <3>2
    <2> QED
      BY <1>1, <2>2, <2>3, <2>4, <2>5, <2>7, CallSteps
  <1> QED
    BY <1>2, <1>3

LEMMA RetryInv ==
    ASSUME DatagramsInv, NEW r \in Receivers, Retry(r)
    PROVE  DatagramsInv'
  <1>1. /\ DatagramsTypeOK /\ CallIsTrue(r, receiver[r], threads) /\ receiver[r] \in ReceiverCalls
        /\ redirected' = redirected /\ threads' = threads /\ socket' \in Seq(BOOLEAN)
        /\ receiver[r].at = "returned" /\ receiver \in [Receivers -> ReceiverCalls]
    BY DEF DatagramsInv, DatagramsTypeOK, Retry
  <1>2. PICK then \in {"reset", "done"} :
          /\ receiver' = [receiver EXCEPT ![r] = [receiver[r] EXCEPT !.at = then, !.tries = @ + 1]]
          /\ then = "reset" <=> Again(r)
    <2>1. CASE Again(r)
      BY <1>1, <2>1 DEF Retry
    <2>2. CASE ~Again(r)
      BY <1>1, <2>2 DEF Retry
    <2> QED
      BY <2>1, <2>2
  <1> DEFINE c == [receiver[r] EXCEPT !.at = then, !.tries = @ + 1]
  <1>3. receiver[r].tries + 1 \in 0..ReceiveLimit /\ receiver[r].tries \in Nat
    BY <1>1, DatagramsAssumption DEF CallIsTrue, ReceiverCalls
  <1>4. /\ c \in ReceiverCalls /\ c.at = then /\ c.slot = receiver[r].slot /\ c.tries = receiver[r].tries + 1
        /\ c.got = receiver[r].got /\ c.empty = receiver[r].empty /\ c.guarded = receiver[r].guarded
    BY <1>1, <1>3 DEF ReceiverCalls
  <1>5. receiver' = [receiver EXCEPT ![r] = c]
    BY <1>2
  <1> HIDE DEF c
  <1>6. CASE then = "reset"
    <2>1. CallIsTrue(r, c, threads)
      BY <1>1, <1>2, <1>3, <1>4, <1>6, DatagramsAssumption DEF CallIsTrue, Again
    <2> QED
      BY <1>1, <1>4, <1>5, <2>1, CallStepsOnly
  <1>7. CASE then = "done"
    <2>1. c.guarded /\ c.got = "none" /\ c.slot # NoSlot /\ ~c.empty => c.tries = ReceiveLimit
      BY <1>1, <1>2, <1>3, <1>4, <1>7, DatagramsAssumption DEF CallIsTrue, Again
    <2>2. CallIsTrue(r, c, threads)
      BY <1>1, <1>4, <1>7, <2>1 DEF CallIsTrue
    <2> QED
      BY <1>1, <1>4, <1>5, <2>2, CallStepsOnly
  <1> QED
    BY <1>6, <1>7

LEMMA DatagramsStepInv == DatagramsInv /\ [DatagramsNext]_datagramVars => DatagramsInv'
  <1> SUFFICES ASSUME DatagramsInv, [DatagramsNext]_datagramVars PROVE DatagramsInv'
    OBVIOUS
  <1>1. CASE InstallDatagramLimit
    <2>1. /\ redirected' \in {{}, {"recvfrom"}, {"recvfrom", "getpacket"}} /\ UNCHANGED <<socket, threads, receiver>>
          /\ redirected # {"recvfrom", "getpacket"}
      <3>1. {} # {"recvfrom", "getpacket"} /\ {"recvfrom"} # {"recvfrom", "getpacket"}
        OBVIOUS
      <3>. QED
        BY <1>1, <3>1 DEF InstallDatagramLimit
    <2>2. DatagramsTypeOK' /\ OneEntryEach'
      BY <2>1 DEF DatagramsInv, DatagramsTypeOK, OneEntryEach, Own
    <2>3. ASSUME NEW r \in Receivers PROVE CallIsTrue(r, receiver[r], threads)'
      BY <2>1 DEF DatagramsInv, CallIsTrue
    <2> QED
      BY <2>2, <2>3 DEF DatagramsInv
  <1>2. CASE Arrive
    <2>1. socket' \in Seq(BOOLEAN) /\ UNCHANGED <<redirected, threads, receiver>>
      BY <1>2 DEF Arrive, DatagramsInv, DatagramsTypeOK
    <2> QED
      BY <2>1 DEF DatagramsInv, DatagramsTypeOK, OneEntryEach, Own, CallIsTrue
  <1>3. CASE UNCHANGED datagramVars
    BY <1>3 DEF datagramVars, DatagramsInv, DatagramsTypeOK, OneEntryEach, Own, CallIsTrue
  <1> QED
    BY <1>1, <1>2, <1>3, AskFindInv, ClaimStateInv, ResetFlagInv, GetPacketInv, RetryInv DEF DatagramsNext

LEMMA DatagramsAreSound == DatagramsInv => DatagramsTypeOK /\ DatagramsSound
  BY DEF DatagramsInv, DatagramsSound, CallIsTrue, NothingMeansNothing, NoSpin

-----------------------------------------------------------------------------
(* Network messages *)

\* While a frame's messages are written, the bits that are set are those of
\* the clients that failed in it, and they are here.
FailedInFrame ==
    /\ frame \in [at : {"packets", "sending"}, failed : SUBSET Clients]
    /\ frame.at = "sending" => pending = frame.failed /\ frame.failed \subseteq here

NetMessagesInv == NetMessagesTypeOK /\ NetMessagesInvariant /\ FailedInFrame

SettingMessages == [kind : {"setConVar"}, server : BOOLEAN,
           entries : Seq([name : STRING, spelling : STRING, ends : BOOLEAN])]

LEMMA NetMessagesInitInv == NetMessagesInit => NetMessagesInv
  <1> SUFFICES ASSUME NetMessagesInit PROVE NetMessagesInv
    OBVIOUS
  <1>1. NetMessagesTypeOK
    BY DEF NetMessagesInit, NetMessagesTypeOK
  <1>2. NetMessagesInvariant
    BY DEF NetMessagesInit, NetMessagesInvariant, OriginalBeforeHook, CommandsAreSane, EntityIsListed,
           NoneLeftOver, NothingHanded
  <1>3. FailedInFrame
    BY DEF NetMessagesInit, FailedInFrame
  <1> QED
    BY <1>1, <1>2, <1>3 DEF NetMessagesInv

\* The settings a handler hands on are as many as it got, in a message of the same kind.
LEMMA HandsSettings ==
    ASSUME NEW m \in SettingMessages
    PROVE  /\ SetConVarHands(m).kind = "setConVar" /\ SetConVarHands(m).server = m.server
           /\ Len(SetConVarHands(m).entries) = Len(m.entries)
           /\ DOMAIN SetConVarHands(m).entries = DOMAIN m.entries
           /\ ~m.server => \A i \in DOMAIN m.entries : SetConVarHands(m).entries[i] = Served(m.entries[i])
  <1> DEFINE e == [i \in DOMAIN m.entries |-> IF m.server THEN m.entries[i] ELSE Served(m.entries[i])]
  <1>1. m.entries \in Seq([name : STRING, spelling : STRING, ends : BOOLEAN]) /\ m.kind = "setConVar"
    BY DEF SettingMessages
  <1>2. SetConVarHands(m) = [m EXCEPT !.entries = e]
    BY DEF SetConVarHands
  <1>3. SetConVarHands(m).entries = e /\ SetConVarHands(m).kind = m.kind /\ SetConVarHands(m).server = m.server
    BY <1>2 DEF SettingMessages
  <1>4. DOMAIN m.entries = 1..Len(m.entries) /\ Len(m.entries) \in Nat
    BY <1>1
  <1>5. Len(e) = Len(m.entries)
    BY <1>4
  <1> QED
    BY <1>1, <1>3, <1>5

\* No name a client is served is one a server may not set.
LEMMA ServedNames ==
    ASSUME layout, NEW e \in [name : STRING, spelling : STRING, ends : BOOLEAN], Served(e).name \in Vars
    PROVE  Served(e).name \in Replicated
  BY NetMessageInputsAssumption DEF Served

\* A step that leaves the installation and the frame alone.
LEMMA InstallAndFrameKept ==
    ASSUME NetMessagesInv, UNCHANGED <<installVars, frameVars>>, markers' \in Nat, value' \in [Vars -> BOOLEAN],
           CommandsAreSane', EntityIsListed'
    PROVE  NetMessagesInv'
  <1>1. NetMessagesTypeOK /\ OriginalBeforeHook /\ NoneLeftOver /\ FailedInFrame
    BY DEF NetMessagesInv, NetMessagesInvariant
  <1>2. UNCHANGED <<kept, hooked, layout, pending, frame, here, seated, disconnects>>
    BY DEF installVars, frameVars
  <1>3. NetMessagesTypeOK'
    BY <1>1, <1>2 DEF NetMessagesTypeOK
  <1>4. OriginalBeforeHook' /\ NoneLeftOver' /\ FailedInFrame'
    BY <1>1, <1>2 DEF OriginalBeforeHook, NoneLeftOver, FailedInFrame
  <1> QED
    BY <1>3, <1>4 DEF NetMessagesInv, NetMessagesInvariant

\* What a message does besides moving no part of the installation or of the frame.
LEMMA ReceiveInv ==
    ASSUME NetMessagesInv, NEW m \in NetMessageInputs, Receive(m)
    PROVE  NetMessagesInv' /\ handed'.kind \notin {"usercmds", "entity"}
  <1>1. UNCHANGED <<installVars, frameVars>>
    BY DEF Receive
  <1>2. \/ Blocked
        \/ EngineHandles(m)
        \/ m.kind = "setConVar" /\ EngineHandles(SetConVarHands(m))
    <2>1. m.kind \in {"screenshot", "setConVar", "move", "stringCmd"}
      BY NetMessageInputsAssumption
    <2> QED
      BY <2>1 DEF Receive
  <1>3. /\ markers' \in Nat /\ value' \in [Vars -> BOOLEAN] /\ handed'.kind \notin {"usercmds", "entity"}
    <2>1. markers \in Nat /\ value \in [Vars -> BOOLEAN]
      BY DEF NetMessagesInv, NetMessagesTypeOK
    <2>2. CASE Blocked
      BY <2>1, <2>2 DEF Blocked, NothingHanded
    <2>3. CASE EngineHandles(m)
      <3>1. m.kind \notin {"usercmds", "entity"}
        BY NetMessageInputsAssumption
      <3>2. markers' \in Nat
        BY <2>1, <2>3 DEF EngineHandles
      <3>3. value' \in [Vars -> BOOLEAN]
        BY <2>1, <2>3 DEF EngineHandles
      <3> QED
        BY <2>3, <3>1, <3>2, <3>3 DEF EngineHandles
    <2>4. CASE m.kind = "setConVar" /\ EngineHandles(SetConVarHands(m))
      <3>1. SetConVarHands(m).kind = "setConVar"
        BY <2>4, HandsSettings, NetMessageInputsAssumption DEF SettingMessages
      <3> QED
        BY <2>1, <2>4, <3>1 DEF EngineHandles
    <2> QED
      BY <1>2, <2>2, <2>3, <2>4
  <1>4. CommandsAreSane' /\ EntityIsListed'
    BY <1>3 DEF CommandsAreSane, EntityIsListed
  <1> QED
    BY <1>1, <1>3, <1>4, InstallAndFrameKept

LEMMA ProcessUsercmdsInv ==
    ASSUME NetMessagesInv, NEW cmds \in [1..MaxUserCmds -> UserCmds], NEW total \in -1..MaxUserCmds + 1,
           ProcessUsercmds(cmds, total)
    PROVE  NetMessagesInv'
  <1>1. UNCHANGED <<installVars, frameVars>> /\ markers' \in Nat /\ value' \in [Vars -> BOOLEAN]
    BY DEF ProcessUsercmds, NetMessagesInv, NetMessagesTypeOK
  <1> DEFINE cs == [i \in DOMAIN cmds |-> IF i \in Checked(total) THEN Sanitized(cmds[i]) ELSE cmds[i]]
  <1>2. handed' = [kind |-> "usercmds", total |-> total, cmds |-> cs]
    BY DEF ProcessUsercmds
  <1>3. handed'.kind = "usercmds" /\ handed'.total = total /\ handed'.cmds = cs
    BY <1>2
  <1>4. DOMAIN cs = 1..MaxUserCmds
    OBVIOUS
  <1>5. ASSUME NEW i \in 1..MaxUserCmds, i <= total
        PROVE  /\ cs[i].vectors # "unreal"
               /\ cs[i].timing = "bogus" => cs[i].vectors = "zero" /\ cs[i].buttons = "none"
    <2>1. i \in Checked(total)
      BY <1>5, NetMessagesAssumption DEF Checked
    <2>2. cs[i] = Sanitized(cmds[i]) /\ cmds[i] \in UserCmds
      BY <1>5, <2>1
    <2> HIDE DEF cs
    <2>3. CASE cmds[i].timing = "good"
      BY <2>2, <2>3 DEF Sanitized, UserCmds
    <2>4. CASE cmds[i].timing # "good"
      BY <2>2, <2>4 DEF Sanitized, UserCmds
    <2> QED
      BY <2>3, <2>4
  <1> HIDE DEF cs
  <1>6. CommandsAreSane' /\ EntityIsListed'
    BY <1>3, <1>4, <1>5 DEF CommandsAreSane, EntityIsListed
  <1> QED
    BY <1>1, <1>6, InstallAndFrameKept

LEMMA GetEntByIndexInv ==
    ASSUME NetMessagesInv, NEW n \in -1..EntityLimit + 1, GetEntByIndex(n)
    PROVE  NetMessagesInv'
  <1>1. UNCHANGED <<installVars, frameVars>> /\ markers' \in Nat /\ value' \in [Vars -> BOOLEAN]
    BY DEF GetEntByIndex, NetMessagesInv, NetMessagesTypeOK
  <1>2. CommandsAreSane' /\ EntityIsListed'
    <2>1. CASE n >= EntityLimit \/ n < 0
      BY <2>1 DEF GetEntByIndex, NothingHanded, CommandsAreSane, EntityIsListed
    <2>2. CASE ~(n >= EntityLimit \/ n < 0)
      <3>1. handed' = [kind |-> "entity", index |-> n] /\ n \in 0..EntityLimit - 1
        BY <2>2, NetMessagesAssumption DEF GetEntByIndex
      <3> QED
        BY <3>1 DEF CommandsAreSane, EntityIsListed
    <2> QED
      BY <2>1, <2>2
  <1> QED
    BY <1>1, <1>2, InstallAndFrameKept

\* The installation and the frame hand nothing on.
LEMMA InstallAndFrameInv ==
    ASSUME NetMessagesInv,
           \/ CheckTables \/ KeepOriginal \/ WriteSlot \/ RunCommands
           \/ BeginSending \/ LocateClients \/ DisconnectBaselineOverflows
           \/ \E c \in Clients : LeaveOrJoin(c) \/ WriteBaselinesFails(c)
    PROVE  NetMessagesInv'
  <1> USE DEF NetMessagesInv, NetMessagesTypeOK, NetMessagesInvariant, FailedInFrame, OriginalBeforeHook,
              CommandsAreSane, EntityIsListed, NoneLeftOver, installVars, frameVars
  <1>1. CASE CheckTables
    BY <1>1 DEF CheckTables
  <1>2. CASE KeepOriginal
    BY <1>2 DEF KeepOriginal
  <1>3. CASE WriteSlot
    <2>1. Hooks[hookInstall] \in ToSet(Hooks)
      BY <1>3 DEF WriteSlot, ToSet
    <2> QED
      BY <1>3, <2>1 DEF WriteSlot, MayWrite
  <1>4. CASE RunCommands
    BY <1>4 DEF RunCommands
  <1>5. CASE BeginSending
    BY <1>5 DEF BeginSending
  <1>6. CASE DisconnectBaselineOverflows
    BY <1>6 DEF DisconnectBaselineOverflows, Remaining, Disconnected
  <1>7. ASSUME NEW c \in Clients, LeaveOrJoin(c)
        PROVE  NetMessagesInv'
    BY <1>7 DEF LeaveOrJoin
  <1>8. ASSUME NEW c \in Clients, WriteBaselinesFails(c)
        PROVE  NetMessagesInv'
    BY <1>8 DEF WriteBaselinesFails
  <1>9. CASE LocateClients
    BY <1>9 DEF LocateClients
  <1> QED
    BY <1>1, <1>2, <1>3, <1>4, <1>5, <1>6, <1>7, <1>8, <1>9

LEMMA NetMessagesStepInv == NetMessagesInv /\ [NetMessagesNext]_netMessageVars => NetMessagesInv'
  <1> SUFFICES ASSUME NetMessagesInv, [NetMessagesNext]_netMessageVars PROVE NetMessagesInv'
    OBVIOUS
  <1>1. CASE UNCHANGED netMessageVars
    BY <1>1 DEF netMessageVars, NetMessagesInv, NetMessagesTypeOK, NetMessagesInvariant, FailedInFrame,
       OriginalBeforeHook, CommandsAreSane, EntityIsListed, NoneLeftOver
  <1>2. CASE NetMessagesNext
    BY <1>2, ReceiveInv, ProcessUsercmdsInv, GetEntByIndexInv, InstallAndFrameInv DEF NetMessagesNext
  <1> QED
    BY <1>1, <1>2

\* A step in the sense of HandlersHold.
MessageHandled ==
    /\ "setConVar" \in hooked /\ layout => \A v \in Vars : value'[v] /\ ~value[v] => v \in Replicated
    /\ "stringCmd" \in hooked /\ markers' > markers => markers' < MaxMarkers
    /\ "setConVar" \in hooked /\ stored' # stored => stored' \in 1..MaxEntries
    /\ frame.at = "sending" /\ frame'.at = "packets" =>
          /\ here \ here' \subseteq frame.failed
          /\ disconnects => frame.failed \cap seated \cap here' = {}

LEMMA ReceiveHandled ==
    ASSUME NetMessagesInv, NEW m \in NetMessageInputs, Receive(m)
    PROVE  MessageHandled
  <1>1. frame' = frame /\ here' = here /\ markers \in Nat /\ value \in [Vars -> BOOLEAN]
    BY DEF Receive, frameVars, NetMessagesInv, NetMessagesTypeOK
  <1>2. m.kind \in {"screenshot", "setConVar", "move", "stringCmd"}
    BY NetMessageInputsAssumption
  <1>3. frame.at = "sending" => frame'.at # "packets"
    BY <1>1
  <1>4. CASE Blocked
    BY <1>1, <1>3, <1>4 DEF Blocked, MessageHandled
  <1>5. CASE m.kind \in {"screenshot", "move"} /\ EngineHandles(m)
    BY <1>1, <1>3, <1>5 DEF EngineHandles, MessageHandled
  <1>6. CASE m.kind = "stringCmd" /\ EngineHandles(m) /\ ("stringCmd" \in hooked => LeavesRoom)
    <2>1. value' = value /\ stored' = stored /\ markers' = markers + 2
      BY <1>6 DEF EngineHandles
    <2>2. "stringCmd" \in hooked => markers' < MaxMarkers
      BY <1>6, <2>1 DEF LeavesRoom
    <2> QED
      BY <1>1, <1>3, <2>1, <2>2 DEF MessageHandled
  <1>7. CASE m.kind = "setConVar" /\ "setConVar" \notin hooked /\ EngineHandles(m)
    <2>1. markers' = markers
      BY <1>7 DEF EngineHandles
    <2> QED
      BY <1>1, <1>3, <1>7, <2>1 DEF MessageHandled
  <1>8. CASE m.kind = "setConVar" /\ SetConVarPasses(m) /\ EngineHandles(SetConVarHands(m))
    <2>1. m \in SettingMessages
      BY <1>8, NetMessageInputsAssumption DEF SettingMessages
    <2> DEFINE h == SetConVarHands(m)
    <2>2. /\ h.kind = "setConVar" /\ h.server = m.server /\ Len(h.entries) = Len(m.entries)
          /\ DOMAIN h.entries = DOMAIN m.entries
          /\ ~m.server => \A i \in DOMAIN m.entries : h.entries[i] = Served(m.entries[i])
      BY <2>1, HandsSettings
    <2>3. EngineHandles(h)
      BY <1>8
    <2>a. \A i \in DOMAIN m.entries : m.entries[i] \in [name : STRING, spelling : STRING, ends : BOOLEAN]
      <3>1. m.entries \in Seq([name : STRING, spelling : STRING, ends : BOOLEAN])
        BY <2>1 DEF SettingMessages
      <3>2. DOMAIN m.entries = 1..Len(m.entries)
        BY <3>1
      <3> QED
        BY <3>1, <3>2, ElementOfSeq
    <2> HIDE DEF h
    <2>4. markers' = markers
      BY <2>2, <2>3 DEF EngineHandles
    <2>5. stored' # stored => stored' \in 1..MaxEntries
      BY <1>8, <2>2, <2>3 DEF EngineHandles, SetConVarPasses
    <2>6. layout => \A v \in Vars : value'[v] /\ ~value[v] => v \in Replicated
      <3> SUFFICES ASSUME layout, NEW v \in Vars, value'[v], ~value[v] PROVE v \in Replicated
        OBVIOUS
      <3>1. ~m.server /\ \E i \in DOMAIN h.entries : h.entries[i].name = v
        BY <1>1, <2>2, <2>3 DEF EngineHandles
      <3>2. PICK i \in DOMAIN m.entries : Served(m.entries[i]).name = v
        BY <2>2, <3>1
      <3> QED
        BY <2>a, <3>2, ServedNames
    <2> QED
      BY <1>1, <1>3, <2>4, <2>5, <2>6 DEF MessageHandled
  <1> QED
    BY <1>2, <1>4, <1>5, <1>6, <1>7, <1>8 DEF Receive

LEMMA NetMessagesStepHandled ==
    NetMessagesInv /\ [NetMessagesNext]_netMessageVars => [MessageHandled]_netMessageVars
  <1> SUFFICES ASSUME NetMessagesInv, NetMessagesNext PROVE MessageHandled
    OBVIOUS
  <1> USE DEF MessageHandled
  <1>1. ASSUME NEW m \in NetMessageInputs, Receive(m) PROVE MessageHandled
    BY <1>1, ReceiveHandled
  <1>2. CASE \/ CheckTables \/ KeepOriginal \/ WriteSlot
             \/ \E n \in -1..EntityLimit + 1 : GetEntByIndex(n)
             \/ \E cmds \in [1..MaxUserCmds -> UserCmds], total \in -1..MaxUserCmds + 1 : ProcessUsercmds(cmds, total)
    <2>1. UNCHANGED <<value, markers, stored, frame>>
      BY <1>2 DEF CheckTables, KeepOriginal, WriteSlot, GetEntByIndex, ProcessUsercmds, frameVars
    <2>2. markers \in Nat
      BY DEF NetMessagesInv, NetMessagesTypeOK
    <2> QED
      BY <2>1, <2>2
  <1>3. CASE RunCommands \/ BeginSending \/ LocateClients \/ \E c \in Clients : LeaveOrJoin(c) \/ WriteBaselinesFails(c)
    <2>1. UNCHANGED <<value, stored>> /\ ~(markers' > markers) /\ ~(frame.at = "sending" /\ frame'.at = "packets")
      BY <1>3 DEF RunCommands, BeginSending, LocateClients, LeaveOrJoin, WriteBaselinesFails, frameVars,
                  NetMessagesInv, NetMessagesTypeOK, FailedInFrame
    <2> QED
      BY <2>1
  <1>4. CASE DisconnectBaselineOverflows
    BY <1>4 DEF DisconnectBaselineOverflows, Disconnected, NetMessagesInv, FailedInFrame, NetMessagesTypeOK
  <1> QED
    BY <1>1, <1>2, <1>3, <1>4 DEF NetMessagesNext

-----------------------------------------------------------------------------
(* Quotas that count in windows of a second (string commands, chat): each  *)
(* thing let through is a record [at, window, n], the n-th of its window.  *)

Times(R) == \A c \in R : c.at \in Nat /\ c.window \in Nat /\ c.n \in Nat

\* What a history says: everything lies within the second its window opened, all
\* of it within a second, and the windows are a second apart.
HistoryIsTrue(R, start, t, second) ==
    /\ IsFiniteSet(R) /\ start <= t /\ Times(R)
    /\ \A c \in R : c.window <= c.at /\ c.at < c.window + second /\ c.at <= t /\ 1 <= c.n
    /\ \A c, d \in R :
          /\ c.at < d.at + second
          /\ c.window = d.window \/ c.window + second <= d.window \/ d.window + second <= c.window
          /\ c.window = d.window /\ c.n = d.n => c = d

\* The count is of what the history has in the window that began at start.
IsCount(R, start, count, second) ==
    /\ \A c \in R : (c.window = start /\ c.n <= count) \/ c.window + second <= start
    /\ \A n \in 1..count : \E c \in R : c.window = start /\ c.n = n

LEMMA NoHistory ==
    ASSUME NEW start \in Nat, NEW t \in Nat, start <= t, NEW second \in Nat
    PROVE  HistoryIsTrue({}, start, t, second) /\ IsCount({}, start, 0, second)
  BY FS_EmptySet DEF HistoryIsTrue, IsCount, Times

LEMMA HistoryLasts ==
    ASSUME NEW R, NEW start \in Nat, NEW t \in Nat, NEW u \in Nat, t <= u, NEW second \in Nat,
           HistoryIsTrue(R, start, t, second)
    PROVE  HistoryIsTrue(R, start, u, second)
  BY DEF HistoryIsTrue, Times

LEMMA PartOfHistory ==
    ASSUME NEW R, NEW S \in SUBSET R, NEW start \in Nat, NEW t \in Nat, NEW second \in Nat,
           HistoryIsTrue(R, start, t, second)
    PROVE  HistoryIsTrue(S, start, t, second)
  <1>1. IsFiniteSet(S)
    BY FS_Subset DEF HistoryIsTrue
  <1> QED
    BY <1>1 DEF HistoryIsTrue, Times

Since(R, t, second) == {c \in R : c.at > t - second}
OpensOrCounts(start, count, newStart, newCount, t, second) ==
    \/ newStart = t /\ newCount = 1 /\ t >= start + second
    \/ newStart = start /\ newCount = count + 1 /\ t < start + second
IsTheNext(e, newStart, newCount, t) == e.at = t /\ e.window = newStart /\ e.n = newCount

\* One more, in the window that is open or in one that opens now, with what is
\* left of the last second.
LEMMA HistoryGrows ==
    ASSUME NEW second \in Nat \ {0}, NEW t \in Nat, NEW start \in Nat, NEW count \in Nat,
           NEW R, HistoryIsTrue(R, start, t, second), IsCount(R, start, count, second),
           NEW newStart \in Nat, NEW newCount \in Nat,
           OpensOrCounts(start, count, newStart, newCount, t, second),
           NEW e, IsTheNext(e, newStart, newCount, t)
    PROVE  /\ HistoryIsTrue(Since(R, t, second) \cup {e}, newStart, t, second)
           /\ IsCount(Since(R, t, second) \cup {e}, newStart, newCount, second)
  <1> USE DEF OpensOrCounts, IsTheNext
  <1>a. PICK L : L = Since(R, t, second) /\ L = {c \in R : c.at > t - second}
    BY DEF Since
  <1>1. Times(R) /\ Times(L \cup {e})
    BY <1>a DEF HistoryIsTrue, Times
  <1>2. \A c \in L : /\ c \in R /\ c.at > t - second /\ c.at <= t /\ c.window <= c.at
                     /\ (c.window = newStart /\ c.n < newCount) \/ c.window + second <= newStart
    <2> SUFFICES ASSUME NEW c \in L
                 PROVE  (c.window = newStart /\ c.n < newCount) \/ c.window + second <= newStart
      BY <1>a DEF HistoryIsTrue
    <2>1. (c.window = start /\ c.n <= count) \/ c.window + second <= start
      BY <1>a DEF IsCount
    <2>2. c.window \in Nat /\ c.n \in Nat
      BY <1>1, <1>a DEF Times
    <2> QED
      BY <2>1, <2>2
  <1>3. newStart <= t /\ t < newStart + second /\ 1 <= newCount
    BY DEF HistoryIsTrue
  <1>4. HistoryIsTrue(L \cup {e}, newStart, t, second)
    <2>1. IsFiniteSet(L \cup {e})
      <3>1. IsFiniteSet(R) /\ L \in SUBSET R
        BY <1>a DEF HistoryIsTrue
      <3>2. IsFiniteSet(L)
        BY <3>1, FS_Subset
      <3> QED
        BY <3>2, FS_AddElement
    <2>2. \A c \in L \cup {e} : c.window <= c.at /\ c.at < c.window + second /\ c.at <= t /\ 1 <= c.n
      <3>1. \A c \in L : c.window <= c.at /\ c.at < c.window + second /\ c.at <= t /\ 1 <= c.n
        BY <1>a DEF HistoryIsTrue
      <3> QED
        BY <1>3, <3>1
    <2>3. ASSUME NEW c \in L \cup {e}, NEW d \in L \cup {e}
          PROVE  /\ c.at < d.at + second
                 /\ c.window = d.window \/ c.window + second <= d.window \/ d.window + second <= c.window
                 /\ c.window = d.window /\ c.n = d.n => c = d
      <3>1. CASE c \in L /\ d \in L
        BY <1>2, <1>a, <3>1 DEF HistoryIsTrue
      <3>2. CASE c = e /\ d \in L
        <4>1. d.at \in Nat /\ d.window \in Nat /\ d.n \in Nat
          BY <1>1, <3>2 DEF Times
        <4> QED
          BY <1>2, <3>2, <4>1
      <3>3. CASE c \in L /\ d = e
        <4>1. c.at \in Nat /\ c.window \in Nat /\ c.n \in Nat
          BY <1>1, <3>3 DEF Times
        <4> QED
          BY <1>2, <3>3, <4>1
      <3>4. CASE c = e /\ d = e
        BY <3>4
      <3> QED
        BY <3>1, <3>2, <3>3, <3>4
    <2> QED
      BY <1>1, <1>3, <2>1, <2>2, <2>3 DEF HistoryIsTrue
  <1>5. IsCount(L \cup {e}, newStart, newCount, second)
    <2>1. \A c \in L \cup {e} : (c.window = newStart /\ c.n <= newCount) \/ c.window + second <= newStart
      <3>1. \A c \in L : c.n \in Nat
        BY <1>1, <1>a DEF Times
      <3> QED
        BY <1>2, <3>1
    <2>2. ASSUME NEW n \in 1..newCount PROVE \E c \in L \cup {e} : c.window = newStart /\ c.n = n
      <3>1. CASE n = newCount
        BY <3>1
      <3>2. CASE n # newCount
        <4>1. newStart = start /\ t < start + second /\ n \in 1..count
          BY <3>2
        <4>2. PICK c \in R : c.window = start /\ c.n = n
          BY <4>1 DEF IsCount
        <4>3. c.at \in Nat /\ c.window <= c.at
          BY DEF HistoryIsTrue, Times
        <4>4. c \in L
          BY <1>a, <4>1, <4>2, <4>3
        <4> QED
          BY <4>1, <4>2, <4>4
      <3> QED
        BY <3>1, <3>2
    <2> QED
      BY <2>1, <2>2 DEF IsCount
  <1> QED
    BY <1>a, <1>4, <1>5

\* A history of a whole count has at least so many.
LEMMA CountIsBelow ==
    ASSUME NEW R, IsFiniteSet(R), NEW start, NEW count \in Nat, NEW second, IsCount(R, start, count, second)
    PROVE  count <= Cardinality(R)
  <1>1. PICK f : f \in [1..count -> R] /\ \A n \in 1..count : f[n].n = n
    <2>1. \A n \in 1..count : \E c \in R : c.n = n
      BY DEF IsCount
    <2> DEFINE f == [n \in 1..count |-> CHOOSE c \in R : c.n = n]
    <2>2. \A n \in 1..count : f[n] \in R /\ f[n].n = n
      BY <2>1
    <2> QED
      BY <2>2
  <1>2. f \in Injection(1..count, R)
    BY <1>1 DEF Injection, IsInjective
  <1>3. IsFiniteSet(1..count) /\ Cardinality(1..count) = count
    BY FS_Interval
  <1> QED
    BY <1>2, <1>3, FS_Injection

\* What lies within a second is of at most two windows.
LEMMA AtMostTwice ==
    ASSUME NEW S, NEW start \in Nat, NEW t \in Nat, NEW second \in Nat \ {0}, NEW limit \in Nat,
           HistoryIsTrue(S, start, t, second), \A c \in S : c.n <= limit
    PROVE  Cardinality(S) <= 2 * limit
  <1>1. /\ IsFiniteSet(S)
        /\ \A c \in S : /\ c.n \in 1..limit /\ c.at \in Nat /\ c.window \in Nat
                        /\ c.window <= c.at /\ c.at < c.window + second
    BY DEF HistoryIsTrue, Times
  <1>2. \A c, d, e \in S : c.window = d.window \/ c.window = e.window \/ d.window = e.window
    <2> SUFFICES ASSUME NEW c \in S, NEW d \in S, NEW e \in S
                 PROVE  c.window = d.window \/ c.window = e.window \/ d.window = e.window
      OBVIOUS
    <2>1. /\ c.at < d.at + second /\ c.at < e.at + second /\ d.at < e.at + second
          /\ d.at < c.at + second /\ e.at < c.at + second /\ e.at < d.at + second
          /\ c.window = d.window \/ c.window + second <= d.window \/ d.window + second <= c.window
          /\ c.window = e.window \/ c.window + second <= e.window \/ e.window + second <= c.window
          /\ d.window = e.window \/ d.window + second <= e.window \/ e.window + second <= d.window
      BY DEF HistoryIsTrue
    <2> QED
      BY <1>1, <2>1
  <1>3. PICK w : S = {} \/ \E c \in S : c.window = w
    OBVIOUS
  <1> DEFINE f == [c \in S |-> IF c.window = w THEN c.n ELSE limit + c.n]
  <1>4. \A c \in S : f[c] \in 1..(2 * limit)
    BY <1>1
  <1>5. ASSUME NEW c \in S, NEW d \in S, f[c] = f[d] PROVE c = d
    <2>1. c.n = d.n /\ (c.window = w <=> d.window = w)
      BY <1>1, <1>5
    <2>2. c.window = d.window
      BY <1>2, <1>3, <2>1
    <2> QED
      BY <2>1, <2>2 DEF HistoryIsTrue
  <1>6. f \in Injection(S, 1..(2 * limit))
    BY <1>4, <1>5 DEF Injection, IsInjective
  <1>7. IsFiniteSet(1..(2 * limit)) /\ Cardinality(1..(2 * limit)) = 2 * limit
    BY FS_Interval
  <1> HIDE DEF f
  <1> QED
    BY <1>1, <1>6, <1>7, FS_Injection

LEMMA WindowOpens ==
    ASSUME NEW R, NEW start \in Nat, NEW count \in Nat, NEW t \in Nat, NEW second \in Nat, t >= start + second,
           HistoryIsTrue(R, start, t, second), IsCount(R, start, count, second)
    PROVE  HistoryIsTrue(R, t, t, second) /\ IsCount(R, t, 0, second)
  <1>1. \A c \in R : c.window \in Nat
    BY DEF HistoryIsTrue, Times
  <1> QED
    BY <1>1 DEF HistoryIsTrue, IsCount

\* What counts in a window that is open is of the last second.
LEMMA CountedLately ==
    ASSUME NEW R, NEW start \in Nat, NEW count \in Nat, NEW t \in Nat, NEW second \in Nat, t < start + second,
           HistoryIsTrue(R, start, t, second), IsCount(R, start, count, second)
    PROVE  IsFiniteSet(Since(R, t, second)) /\ count <= Cardinality(Since(R, t, second))
  <1>1. IsFiniteSet(Since(R, t, second))
    BY FS_Subset DEF HistoryIsTrue, Since
  <1>2. IsCount(Since(R, t, second), start, count, second)
    <2>1. ASSUME NEW n \in 1..count PROVE \E c \in Since(R, t, second) : c.window = start /\ c.n = n
      <3>1. PICK c \in R : c.window = start /\ c.n = n
        BY DEF IsCount
      <3>2. c.at \in Nat /\ c.window <= c.at
        BY DEF HistoryIsTrue, Times
      <3> QED
        BY <3>1, <3>2 DEF Since
    <2> QED
      BY <2>1 DEF IsCount, Since
  <1> QED
    BY <1>1, <1>2, CountIsBelow

-----------------------------------------------------------------------------
(* String commands *)

HasKicked(R) == \E c \in R : c.did \in TooMany

QuotaIsTrue(R, q, t) ==
    IF ~CountsCommands THEN R = {}
    ELSE /\ HistoryIsTrue(R, q.start, t, QuotaSecond)
         /\ \A c \in R : c.did \notin TooMany => c.n <= quota
         /\ ~HasKicked(R) => IsCount(R, q.start, q.count, QuotaSecond)
         /\ HasKicked(R) => q.count = 0 /\ Cardinality(R) > quota

LastSound ==
    /\ remoteFlag \subseteq {"removed", "engine", "cheat"}
    /\ guardedSites = {"installing"} => last.guarded = FALSE
    /\ RemoteRunsOnlyMarked

CommandsInv ==
    /\ StringCommandsTypeOK /\ LastSound
    /\ \A s \in CommandSlots : QuotaIsTrue(recent[s], quotas[s], time)

-----------------------------------------------------------------------------
(* A command counted *)

\* The slot's history with one more command, as the guard counts it.
LEMMA CommandCounts ==
    ASSUME StringCommandsTypeOK, NEW s \in CommandSlots, CountsCommands, NEW did \in Outcomes,
           QuotaIsTrue(recent[s], quotas[s], time),
           did \notin TooMany => Counted(s).count <= quota
    PROVE  \E R \in SUBSET Commands, p \in QuotaStates :
              /\ R = Lately(s) \cup {Command(s, did)} /\ p = Counted(s)
              /\ HistoryIsTrue(R, p.start, time, QuotaSecond)
              /\ IsCount(R, p.start, p.count, QuotaSecond)
              /\ HasKicked(R) <=> did \in TooMany
              /\ \A c \in R : c.did \notin TooMany => c.n <= quota
  <1>1. PICK R \in SUBSET Commands, q \in QuotaStates : R = recent[s] /\ q = quotas[s]
    BY DEF StringCommandsTypeOK
  <1>2. /\ time \in 0..MaxCommandTime /\ time \in Nat /\ QuotaSecond \in Nat \ {0}
        /\ q.start \in 0..MaxCommandTime /\ q.start \in Nat /\ q.count \in Nat /\ MaxCommandTime \in Nat
    BY StringCommandsAssumption DEF StringCommandsTypeOK, QuotaStates
  <1>3. PICK p \in QuotaStates :
          /\ p = Counted(s) /\ p.start \in Nat /\ p.count \in Nat
          /\ OpensOrCounts(q.start, q.count, p.start, p.count, time, QuotaSecond)
    <2>1. CASE time - q.start >= QuotaSecond
      <3>1. Counted(s) = [start |-> time, count |-> 1]
        BY <1>1, <2>1 DEF Counted
      <3> QED
        BY <1>2, <2>1, <3>1 DEF QuotaStates, OpensOrCounts
    <2>2. CASE ~(time - q.start >= QuotaSecond)
      <3>1. Counted(s) = [start |-> q.start, count |-> q.count + 1]
        BY <1>1, <2>2 DEF Counted
      <3> QED
        BY <1>2, <2>2, <3>1 DEF QuotaStates, OpensOrCounts
    <2> QED
      BY <2>1, <2>2
  <1>4. PICK e \in Commands :
          e = Command(s, did) /\ e.at = time /\ e.window = p.start /\ e.n = p.count /\ e.did = did
    <2>1. Command(s, did) = [at |-> time, window |-> p.start, n |-> p.count, did |-> did]
      BY <1>3 DEF Command
    <2>2. p.start \in 0..MaxCommandTime
      BY DEF QuotaStates
    <2> QED
      BY <1>2, <1>3, <2>1, <2>2 DEF Commands
  <1>5. PICK K \in SUBSET R :
          /\ HistoryIsTrue(K, q.start, time, QuotaSecond) /\ IsCount(K, q.start, q.count, QuotaSecond)
          /\ Lately(s) = {c \in K : c.at > time - QuotaSecond} /\ ~HasKicked(K)
    <2>1. CASE HasKicked(R)
      <3>1. q.count = 0 /\ q.start <= time /\ Lately(s) = {} /\ ~HasKicked({})
        BY <1>1, <2>1 DEF QuotaIsTrue, HistoryIsTrue, Lately, HasKicked
      <3>2. HistoryIsTrue({}, q.start, time, QuotaSecond) /\ IsCount({}, q.start, 0, QuotaSecond)
        BY <1>2, <3>1, NoHistory
      <3> QED
        BY <3>1, <3>2
    <2>2. CASE ~HasKicked(R)
      BY <1>1, <2>2 DEF QuotaIsTrue, Lately, HasKicked
    <2> QED
      BY <2>1, <2>2
  <1>6. PICK L : L = Lately(s) /\ L = {c \in K : c.at > time - QuotaSecond} /\ L \in SUBSET Commands
    BY <1>5
  <1>a. Since(K, time, QuotaSecond) = L /\ IsTheNext(e, p.start, p.count, time)
    BY <1>4, <1>6 DEF Since, IsTheNext
  <1>7. /\ HistoryIsTrue(L \cup {e}, p.start, time, QuotaSecond)
        /\ IsCount(L \cup {e}, p.start, p.count, QuotaSecond)
    <2>1. /\ HistoryIsTrue(Since(K, time, QuotaSecond) \cup {e}, p.start, time, QuotaSecond)
          /\ IsCount(Since(K, time, QuotaSecond) \cup {e}, p.start, p.count, QuotaSecond)
      BY <1>2, <1>3, <1>5, <1>a, HistoryGrows
    <2> QED
      BY <2>1, <1>a
  <1>8. HasKicked(L \cup {e}) <=> did \in TooMany
    BY <1>4, <1>5, <1>6 DEF HasKicked
  <1>9. \A c \in L \cup {e} : c.did \notin TooMany => c.n <= quota
    BY <1>1, <1>3, <1>4, <1>6 DEF QuotaIsTrue
  <1> QED
    BY <1>3, <1>4, <1>6, <1>7, <1>8, <1>9

LEMMA HandledIsTrue ==
    ASSUME CommandsInv, NEW s \in CommandSlots, NEW k \in CommandKinds, NEW did \in Outcomes,
           Handled(s, k, did), quota' = quota, located' = located, time' = time,
           did \notin TooMany => (CountsCommands => Counted(s).count <= quota) /\
                                 quotas' = IF CountsCommands THEN [quotas EXCEPT ![s] = Counted(s)] ELSE quotas,
           did \in TooMany => CountsCommands /\ Counted(s).count > quota /\
                             quotas' = [quotas EXCEPT ![s] = [Counted(s) EXCEPT !.count = 0]]
    PROVE  /\ quotas' \in [CommandSlots -> QuotaStates] /\ recent' \in [CommandSlots -> SUBSET Commands]
           /\ \A u \in CommandSlots : QuotaIsTrue(recent[u], quotas[u], time)'
  <1>1. /\ StringCommandsTypeOK /\ \A u \in CommandSlots : QuotaIsTrue(recent[u], quotas[u], time)
        /\ quotas \in [CommandSlots -> QuotaStates] /\ recent \in [CommandSlots -> SUBSET Commands]
    BY DEF CommandsInv, StringCommandsTypeOK
  <1>c. CountsCommands' <=> CountsCommands
    BY DEF CountsCommands
  <1>2. CASE ~CountsCommands
    BY <1>1, <1>2, <1>c DEF Handled, QuotaIsTrue
  <1>3. CASE CountsCommands
    <2>2. PICK R \in SUBSET Commands, p \in QuotaStates :
            /\ R = Lately(s) \cup {Command(s, did)} /\ p = Counted(s)
            /\ HistoryIsTrue(R, p.start, time, QuotaSecond)
            /\ IsCount(R, p.start, p.count, QuotaSecond)
            /\ HasKicked(R) <=> did \in TooMany
            /\ \A c \in R : c.did \notin TooMany => c.n <= quota
      BY <1>1, <1>3, CommandCounts
    <2>3. recent' = [recent EXCEPT ![s] = R]
      BY <1>3, <2>2 DEF Handled
    <2>4. /\ recent' \in [CommandSlots -> SUBSET Commands] /\ recent'[s] = R
          /\ \A u \in CommandSlots : u # s => recent'[u] = recent[u]
      BY <1>1, <2>3
    <2>5. PICK q \in QuotaStates :
            /\ quotas' = [quotas EXCEPT ![s] = q] /\ q.start = p.start
            /\ did \notin TooMany => q = p
            /\ did \in TooMany => q.count = 0 /\ p.count > quota
      <3>1. CASE did \in TooMany
        <4>1. /\ [p EXCEPT !.count = 0] \in QuotaStates
              /\ [p EXCEPT !.count = 0].start = p.start /\ [p EXCEPT !.count = 0].count = 0
          BY DEF QuotaStates
        <4>2. quotas' = [quotas EXCEPT ![s] = [p EXCEPT !.count = 0]] /\ p.count > quota
          BY <2>2, <3>1
        <4> QED
          BY <3>1, <4>1, <4>2
      <3>2. CASE did \notin TooMany
        BY <1>3, <2>2, <3>2
      <3> QED
        BY <3>1, <3>2
    <2>6. /\ quotas' \in [CommandSlots -> QuotaStates] /\ quotas'[s] = q
          /\ \A u \in CommandSlots : u # s => quotas'[u] = quotas[u]
      BY <1>1, <2>5
    <2>7. QuotaIsTrue(R, q, time)
      <3>1. HistoryIsTrue(R, q.start, time, QuotaSecond)
        BY <2>2, <2>5
      <3>2. did \notin TooMany => IsCount(R, q.start, q.count, QuotaSecond)
        BY <2>2, <2>5
      <3>3. did \in TooMany => Cardinality(R) > quota
        <4>1. p.count \in Nat /\ quota \in Int /\ IsFiniteSet(R)
          BY <1>1, <2>2, StringCommandsAssumption DEF QuotaStates, StringCommandsTypeOK, HistoryIsTrue
        <4>2. p.count <= Cardinality(R) /\ Cardinality(R) \in Nat
          BY <2>2, <4>1, CountIsBelow, FS_CardinalityType
        <4> QED
          BY <2>5, <4>1, <4>2
      <3> QED
        BY <1>3, <2>2, <2>5, <3>1, <3>2, <3>3 DEF QuotaIsTrue
    <2>8. ASSUME NEW u \in CommandSlots PROVE QuotaIsTrue(recent[u], quotas[u], time)'
      <3>1. QuotaIsTrue(recent'[u], quotas'[u], time)
        BY <1>1, <2>4, <2>6, <2>7
      <3> QED
        BY <1>c, <3>1 DEF QuotaIsTrue, HistoryIsTrue, IsCount, Times, HasKicked
    <2> QED
      BY <2>4, <2>6, <2>8
  <1> QED
    BY <1>2, <1>3

-----------------------------------------------------------------------------
(* The steps *)

LEMMA CommandsInitInv == StringCommandsInit => CommandsInv
  <1> SUFFICES ASSUME StringCommandsInit PROVE CommandsInv
    OBVIOUS
  <1>1. quotas \in [CommandSlots -> QuotaStates] /\ recent = [s \in CommandSlots |-> {}]
    BY StringCommandsAssumption DEF StringCommandsInit, QuotaStates
  <1>2. StringCommandsTypeOK
    <2>1. "removed" \in ConCommands
      BY DEF ConCommands, CommandKinds
    <2>3. remoteFlag \subseteq ConCommands /\ guardedSites = {"installing"}
      BY <2>1 DEF StringCommandsInit
    <2>2. time \in QuotaSecond..MaxCommandTime
      BY StringCommandsAssumption DEF StringCommandsInit
    <2> QED
      <3>1. inSlot \in [CommandSlots -> CommandPlayers \cup {"nobody"}] /\ recent \in [CommandSlots -> SUBSET Commands]
        BY <1>1 DEF StringCommandsInit
      <3>2. guardedSites \in (SUBSET CallSites) \cup {{"installing"}}
        BY <2>3
      <3>3. quota \in CommandQuotas /\ cheats \in BOOLEAN /\ flagsFixed \in BOOLEAN /\ remoteRuleOn \in BOOLEAN
            /\ located \subseteq {"slots", "disconnect"}
        BY DEF StringCommandsInit
      <3> QED
        BY <1>1, <2>2, <2>3, <3>1, <3>2, <3>3 DEF StringCommandsTypeOK
  <1>3. LastSound
    BY DEF LastSound, StringCommandsInit, RemoteRunsOnlyMarked
  <1>4. ASSUME NEW s \in CommandSlots PROVE QuotaIsTrue(recent[s], quotas[s], time)
    <2>1. recent[s] = {} /\ quotas[s].start = 0 /\ quotas[s].count = 0 /\ 0 <= time
      BY <1>1, StringCommandsAssumption DEF StringCommandsInit
    <2>2. /\ HistoryIsTrue({}, 0, time, QuotaSecond) /\ IsCount({}, 0, 0, QuotaSecond) /\ ~HasKicked({})
      <3>1. time \in Nat /\ QuotaSecond \in Nat
        BY StringCommandsAssumption DEF StringCommandsInit
      <3> QED
        BY <2>1, <3>1, NoHistory DEF HasKicked
    <2> QED
      BY <2>1, <2>2 DEF QuotaIsTrue
  <1> QED
    BY <1>2, <1>3, <1>4 DEF CommandsInv

\* What stays true while the guard counts nothing.
LEMMA QuotasAreLeft ==
    ASSUME CommandsInv, recent' = recent, quotas' = quotas, quota' = quota, located' = located, time' \in Nat, time' >= time
    PROVE  \A s \in CommandSlots : QuotaIsTrue(recent[s], quotas[s], time)'
  <1> SUFFICES ASSUME NEW s \in CommandSlots PROVE QuotaIsTrue(recent[s], quotas[s], time)'
    OBVIOUS
  <1>1. PICK R \in SUBSET Commands, q \in QuotaStates :
          /\ R = recent[s] /\ q = quotas[s] /\ QuotaIsTrue(R, q, time) /\ time \in Nat /\ q.start \in Nat
          /\ \A c \in R : c.at \in Nat
    BY StringCommandsAssumption DEF CommandsInv, StringCommandsTypeOK, QuotaStates, Commands
  <1>2. HistoryIsTrue(R, q.start, time, QuotaSecond) => HistoryIsTrue(R, q.start, time', QuotaSecond)
    BY <1>1, StringCommandsAssumption, HistoryLasts
  <1>3. QuotaIsTrue(R, q, time')
    BY <1>1, <1>2 DEF QuotaIsTrue
  <1> QED
    BY <1>1, <1>3 DEF QuotaIsTrue, HistoryIsTrue, IsCount, Times, HasKicked, CountsCommands

LEMMA CommandInv ==
    ASSUME CommandsInv, NEW s \in CommandSlots, NEW k \in CommandKinds, NEW site \in CallSites,
           StringCommand(s, k, site)
    PROVE  CommandsInv'
  <1>1. /\ StringCommandsTypeOK /\ LastSound /\ guardedSites # {"installing"}
        /\ UNCHANGED <<located, remoteRuleOn, guardedSites, quota, cheats, time>>
        /\ time \in Nat /\ inSlot \in [CommandSlots -> CommandPlayers \cup {"nobody"}]
    BY StringCommandsAssumption DEF CommandsInv, StringCommand, StringCommandsTypeOK
  <1>2. CASE Unguarded(s, k, site)
    <2>1. \A u \in CommandSlots : QuotaIsTrue(recent[u], quotas[u], time)'
      BY <1>1, <1>2, QuotasAreLeft DEF Unguarded
    <2>2. StringCommandsTypeOK'
      BY <1>1, <1>2 DEF StringCommandsTypeOK, Unguarded
    <2>3. LastSound'
      BY <1>1, <1>2 DEF LastSound, Unguarded, RemoteRunsOnlyMarked, HostsOwn
    <2> QED
      BY <2>1, <2>2, <2>3 DEF CommandsInv
  <1>3. CASE Disconnects(s, k, site)
    <2>1. /\ \A u \in CommandSlots : QuotaIsTrue(recent[u], quotas[u], time)'
          /\ quotas' \in [CommandSlots -> QuotaStates] /\ recent' \in [CommandSlots -> SUBSET Commands]
      <3>1. PICK did \in TooMany : Handled(s, k, did)
        BY <1>3 DEF Disconnects, TooMany
      <3>2. /\ CountsCommands /\ Counted(s).count > quota
            /\ quotas' = [quotas EXCEPT ![s] = [Counted(s) EXCEPT !.count = 0]]
        BY <1>3 DEF Disconnects
      <3> QED
        BY <1>1, <3>1, <3>2, HandledIsTrue DEF Outcomes
    <2>a. inSlot' \in [CommandSlots -> CommandPlayers \cup {"nobody"}]
      BY <1>1, <1>3 DEF Disconnects
    <2>2. StringCommandsTypeOK'
      BY <1>1, <1>3, <2>1, <2>a DEF StringCommandsTypeOK, Disconnects
    <2>3. LastSound'
      BY <1>1, <1>3 DEF LastSound, Disconnects, Handled, RemoteRunsOnlyMarked, HostsOwn, TooMany
    <2> QED
      BY <2>1, <2>2, <2>3 DEF CommandsInv
  <1>4. CASE Guarded(s, k, site)
    <2>1. PICK did \in Outcomes \ TooMany :
            /\ Handled(s, k, did)
            /\ RefusesCommand(s, k) <=> did = "refused"
      BY <1>4 DEF Guarded, Outcomes, TooMany
    <2>2. /\ \A u \in CommandSlots : QuotaIsTrue(recent[u], quotas[u], time)'
          /\ quotas' \in [CommandSlots -> QuotaStates] /\ recent' \in [CommandSlots -> SUBSET Commands]
      <3>1. did \notin TooMany /\ did \in Outcomes
        BY <2>1
      <3>2. /\ CountsCommands => Counted(s).count <= quota
            /\ quotas' = IF CountsCommands THEN [quotas EXCEPT ![s] = Counted(s)] ELSE quotas
            /\ quota' = quota /\ located' = located /\ time' = time
        BY <1>1, <1>4 DEF Guarded
      <3> QED
        BY <2>1, <3>1, <3>2, HandledIsTrue
    <2>3. FixedFlags \subseteq {"engine", "cheat"}
      BY <1>1 DEF FixedFlags, LastSound
    <2>4. remoteFlag' \subseteq {"removed", "engine", "cheat"} /\ remoteFlag' \subseteq ConCommands
      BY <1>1, <1>4, <2>3 DEF Guarded, LastSound, StringCommandsTypeOK, ConCommands, CommandKinds
    <2>5. flagsFixed' \in BOOLEAN
      BY <1>4 DEF Guarded
    <2>6. StringCommandsTypeOK'
      BY <1>1, <1>4, <2>2, <2>4, <2>5 DEF StringCommandsTypeOK, Guarded
    <2>7. RemoteRunsOnlyMarked'
      <3>1. last'.slot = s /\ last'.by = inSlot[s] /\ last'.kind = k /\ last'.did = did
        BY <2>1 DEF Handled
      <3>2. remoteRuleOn /\ did # "refused" =>
              IsHostClient(s) \/ k \in {"engine", "cheat", "convar", "script"}
        BY <2>1, <2>3 DEF RefusesCommand, ConCommands
      <3>3. did = "refused" => ~IsHostClient(s)
        BY <2>1 DEF RefusesCommand
      <3> QED
        BY <1>1, <3>1, <3>2, <3>3 DEF RemoteRunsOnlyMarked, IsHostClient, HostsOwn
    <2>8. LastSound'
      BY <1>1, <2>4, <2>7 DEF LastSound
    <2> QED
      BY <2>2, <2>6, <2>8 DEF CommandsInv
  <1> QED
    BY <1>2, <1>3, <1>4 DEF StringCommand

LEMMA CommandsStepInv == CommandsInv /\ [StringCommandsNext]_stringCommandsVars => CommandsInv'
  <1> SUFFICES ASSUME CommandsInv, [StringCommandsNext]_stringCommandsVars PROVE CommandsInv'
    OBVIOUS
  <1>1. /\ StringCommandsTypeOK /\ LastSound /\ time \in Nat
        /\ inSlot \in [CommandSlots -> CommandPlayers \cup {"nobody"}]
    BY StringCommandsAssumption DEF CommandsInv, StringCommandsTypeOK
  <1>2. CASE InstallStringCommandGuard
    <2>1. \A s \in CommandSlots : QuotaIsTrue(recent[s], quotas[s], time)'
      BY <1>1, <1>2, QuotasAreLeft DEF InstallStringCommandGuard
    <2>2. StringCommandsTypeOK'
      BY <1>1, <1>2 DEF StringCommandsTypeOK, InstallStringCommandGuard
    <2>3. LastSound'
      BY <1>1, <1>2 DEF LastSound, InstallStringCommandGuard, RemoteRunsOnlyMarked, HostsOwn
    <2> QED
      BY <2>1, <2>2, <2>3 DEF CommandsInv
  <1>3. CASE CommandTick
    <2>1. time' \in QuotaSecond..MaxCommandTime /\ time' \in Nat /\ time' >= time
      BY <1>1, <1>3, StringCommandsAssumption DEF StringCommandsTypeOK, CommandTick
    <2>2. \A s \in CommandSlots : QuotaIsTrue(recent[s], quotas[s], time)'
      BY <1>1, <1>3, <2>1, QuotasAreLeft DEF CommandTick
    <2>3. StringCommandsTypeOK'
      BY <1>1, <1>3, <2>1 DEF StringCommandsTypeOK, CommandTick
    <2>4. LastSound'
      BY <1>1, <1>3 DEF LastSound, CommandTick, RemoteRunsOnlyMarked, HostsOwn
    <2> QED
      BY <2>2, <2>3, <2>4 DEF CommandsInv
  <1>4. ASSUME NEW s \in CommandSlots, JoinOrLeave(s) PROVE CommandsInv'
    <2>1. \A u \in CommandSlots : QuotaIsTrue(recent[u], quotas[u], time)'
      BY <1>1, <1>4, QuotasAreLeft DEF JoinOrLeave
    <2>2. StringCommandsTypeOK'
      <3>1. inSlot' \in [CommandSlots -> CommandPlayers \cup {"nobody"}]
        BY <1>1, <1>4 DEF JoinOrLeave
      <3> QED
        BY <1>1, <1>4, <3>1 DEF StringCommandsTypeOK, JoinOrLeave
    <2>3. LastSound'
      BY <1>1, <1>4 DEF LastSound, JoinOrLeave, RemoteRunsOnlyMarked, HostsOwn
    <2> QED
      BY <2>1, <2>2, <2>3 DEF CommandsInv
  <1>5. CASE UNCHANGED stringCommandsVars
    <2>1. \A s \in CommandSlots : QuotaIsTrue(recent[s], quotas[s], time)'
      BY <1>1, <1>5, QuotasAreLeft DEF stringCommandsVars
    <2>2. StringCommandsTypeOK' /\ LastSound'
      BY <1>1, <1>5 DEF StringCommandsTypeOK, LastSound, RemoteRunsOnlyMarked, HostsOwn, stringCommandsVars
    <2> QED
      BY <2>1, <2>2 DEF CommandsInv
  <1> QED
    BY <1>2, <1>3, <1>4, <1>5, CommandInv DEF StringCommandsNext

-----------------------------------------------------------------------------
(* What it implies *)

LEMMA CommandsAreSound == CommandsInv => StringCommandsTypeOK /\ StringCommandsSound
  <1> SUFFICES ASSUME CommandsInv PROVE StringCommandsTypeOK /\ StringCommandsSound
    OBVIOUS
  <1>1. StringCommandsTypeOK /\ RemoteRunsOnlyMarked
    BY DEF CommandsInv, LastSound
  <1>2. quota \in Nat \cup {-1} /\ \A s \in CommandSlots : recent[s] \in SUBSET Commands
    BY <1>1, StringCommandsAssumption DEF StringCommandsTypeOK
  <1>3. \A s \in CommandSlots : QuotaIsTrue(recent[s], quotas[s], time)
    BY DEF CommandsInv
  <1>4. QuotaHolds
    <2> SUFFICES ASSUME CountsCommands, NEW s \in CommandSlots
                 PROVE  Cardinality({c \in recent[s] : c.did = "ran"}) <= 2 * quota
      BY DEF QuotaHolds
    <2>1. PICK S \in SUBSET recent[s] : S = {c \in recent[s] : c.did = "ran"}
      OBVIOUS
    <2>2. HistoryIsTrue(recent[s], quotas[s].start, time, QuotaSecond) /\ \A c \in S : c.n <= quota
      BY <1>2, <1>3, <2>1 DEF QuotaIsTrue, TooMany
    <2>3. quota \in Nat /\ quotas[s].start \in Nat /\ time \in Nat /\ QuotaSecond \in Nat \ {0}
      BY <1>1, <1>2, StringCommandsAssumption DEF StringCommandsTypeOK, QuotaStates, CountsCommands
    <2>4. HistoryIsTrue(S, quotas[s].start, time, QuotaSecond)
      BY <2>2, <2>3, PartOfHistory
    <2> QED
      BY <2>1, <2>2, <2>3, <2>4, AtMostTwice
  <1>5. KickedForCause
    <2> SUFFICES ASSUME NEW s \in CommandSlots, NEW c \in recent[s], c.did \in TooMany
                 PROVE  CountsCommands /\ Cardinality(recent[s]) > quota
      BY DEF KickedForCause
    <2>1. QuotaIsTrue(recent[s], quotas[s], time) /\ HasKicked(recent[s]) /\ recent[s] # {}
      BY <1>3 DEF HasKicked
    <2> QED
      BY <2>1 DEF QuotaIsTrue
  <1> QED
    BY <1>1, <1>4, <1>5 DEF StringCommandsSound

-----------------------------------------------------------------------------
(* The server's chat *)

LimitIsTrue(R, w, t) ==
    /\ HistoryIsTrue(R, w.start, t, ChatSecond) /\ IsCount(R, w.start, w.count, ChatSecond)
    /\ \A c \in R : c.n <= ChatLimit

\* A message on the wire says what its sender meant, as the client reads it.
MeantMessages ==
    {m \in WireMessages :
        /\ m.meant = [from |-> SenderId(m), type |-> TypeOf(m), team |-> m.team]
        /\ m.meant.type # 0 => m.inbox >= kCustomMessageIndexBit \/ m.inbox = 0}

ChatInv ==
    /\ ChatTypeOK /\ wire \in Seq(MeantMessages)
    /\ \A s \in Senders : LimitIsTrue(passed[s], windows[s], now)
    /\ LimitedForCause /\ ShownAsMeant /\ CustomOnlyByScript

LEMMA ChatConstants ==
    /\ ChatSecond \in Nat \ {0} /\ ChatLimit \in Nat /\ MaxChatTime \in Nat
    /\ ChatTypeOK => now \in 0..MaxChatTime /\ now \in Nat
    /\ \A w \in ChatWindows : w.start \in 0..MaxChatTime /\ w.start \in Nat /\ w.count \in Nat /\ w.count <= ChatLimit
  BY ServerChatAssumption DEF ChatTypeOK, ChatWindows

LEMMA ChatInitInv == ChatInit => ChatInv
  <1> SUFFICES ASSUME ChatInit PROVE ChatInv
    OBVIOUS
  <1>1. windows \in [Senders -> ChatWindows] /\ \A s \in Senders : windows[s] = [start |-> 0, count |-> 0]
    BY ChatConstants DEF ChatInit, ChatWindows
  <1>2. wire \in Seq(MeantMessages) /\ wire \in Seq(WireMessages)
    BY DEF ChatInit
  <1>3. ChatTypeOK
    <2>1. now \in ChatSecond..MaxChatTime /\ said \in 0..MaxSaid
      BY ServerChatAssumption DEF ChatInit
    <2>2. passed \in [Senders -> SUBSET PassedMessages] /\ withScript \subseteq ScriptMessages
      BY DEF ChatInit
    <2> QED
      BY <1>1, <1>2, <2>1, <2>2 DEF ChatTypeOK, ChatInit
  <1>4. ASSUME NEW s \in Senders PROVE LimitIsTrue(passed[s], windows[s], now)
    <2>1. /\ passed[s] = {} /\ windows[s].start = 0 /\ windows[s].count = 0
          /\ now \in Nat /\ ChatSecond \in Nat
      BY <1>1, <1>3, ChatConstants DEF ChatInit
    <2>2. HistoryIsTrue({}, 0, now, ChatSecond) /\ IsCount({}, 0, 0, ChatSecond)
      BY <2>1, NoHistory
    <2> QED
      BY <2>1, <2>2 DEF LimitIsTrue
  <1>5. LimitedForCause /\ ShownAsMeant /\ CustomOnlyByScript
    BY DEF ChatInit, LimitedForCause, ShownAsMeant, CustomOnlyByScript
  <1> QED
    BY <1>2, <1>3, <1>4, <1>5 DEF ChatInv

-----------------------------------------------------------------------------
(* What is sent is what was meant *)

LEMMA SayTextMeans ==
    ASSUME ChatTypeOK, wire \in Seq(MeantMessages), NEW id, NEW body \in Bodies, NEW team \in BOOLEAN
    PROVE  SayText(id, body, team) \in Seq(MeantMessages)
  <1>1. CASE id \notin present
    BY <1>1 DEF SayText
  <1>2. CASE id \in present
    <2>1. id \in 1..127
      BY <1>2, ServerChatAssumption DEF ChatTypeOK
    <2>2. PICK m \in WireMessages :
            /\ m = Message(id, NoType, body, team, [from |-> id, type |-> 0, team |-> team])
            /\ m.inbox = id /\ m.team = team /\ m.meant = [from |-> id, type |-> 0, team |-> team]
      <3>1. [from |-> id, type |-> 0, team |-> team] \in Intents /\ id \in 0..255
        BY <2>1 DEF Intents
      <3>2. NoType \in (-128..127) \cup {NoType}
        OBVIOUS
      <3>3. PICK meant \in Intents : meant = [from |-> id, type |-> 0, team |-> team]
        BY <3>1
      <3>4. PICK m \in WireMessages :
              m = [inbox |-> id, type |-> NoType, body |-> body, team |-> team, meant |-> meant]
        BY <3>1, <3>2 DEF WireMessages
      <3>5. /\ m = Message(id, NoType, body, team, [from |-> id, type |-> 0, team |-> team])
            /\ m.inbox = id /\ m.team = team /\ m.meant = meant
        BY <3>3, <3>4 DEF Message
      <3> QED
        BY <3>3, <3>5
    <2>3. SenderId(m) = id
      <3>1. \A i \in 1..127 : i % 128 = i
        OBVIOUS
      <3> QED
        BY <2>1, <2>2, <3>1 DEF SenderId, kCustomMessageIndexBit
    <2>4. TypeOf(m) = 0
      BY <2>1, <2>2, <2>3 DEF TypeOf, IsCustom, kCustomMessageIndexBit
    <2>5. m \in MeantMessages
      BY <2>2, <2>3, <2>4 DEF MeantMessages
    <2> QED
      BY <1>2, <2>2, <2>5 DEF SayText
  <1> QED
    BY <1>1, <1>2

LEMMA BroadcastMeans ==
    ASSUME NEW s \in Senders, NEW type \in MessageTypes, NEW body \in Bodies, NEW team \in BOOLEAN
    PROVE  Message(FromPlayerId(s - 1), Byte(type), body, team,
                   [from |-> (s - 1) + 1, type |-> Byte(type), team |-> team]) \in MeantMessages
  <1>1. s \in 0..127 /\ type \in Int
    BY ServerChatAssumption
  <1>2. Byte(type) \in -128..127
    <2>1. type % 256 \in 0..255
      BY <1>1
    <2> QED
      BY <2>1 DEF Byte
  <1>3. PICK inbox \in 0..255 :
          /\ inbox = FromPlayerId(s - 1) /\ inbox % 128 = s
          /\ (s = 0 /\ inbox = 0) \/ inbox >= 128
    <2>1. CASE s = 0
      BY <2>1 DEF FromPlayerId
    <2>2. CASE s # 0
      <3>1. FromPlayerId(s - 1) = s + 128
        BY <1>1, <2>2 DEF FromPlayerId, kCustomMessageIndexBit
      <3>2. (s + 128) % 128 = s
        BY <1>1
      <3> QED
        BY <1>1, <3>1, <3>2
    <2> QED
      BY <2>1, <2>2
  <1>4. PICK t \in -128..127 : t = Byte(type)
    BY <1>2
  <1>5. PICK m \in WireMessages :
          /\ m = Message(inbox, t, body, team, [from |-> s, type |-> t, team |-> team])
          /\ m.inbox = inbox /\ m.type = t /\ m.team = team /\ m.meant = [from |-> s, type |-> t, team |-> team]
    <2>1. [from |-> s, type |-> t, team |-> team] \in Intents
      BY <1>1 DEF Intents
    <2>2. t \in (-128..127) \cup {NoType}
      OBVIOUS
    <2>3. PICK meant \in Intents : meant = [from |-> s, type |-> t, team |-> team]
      BY <2>1
    <2>4. PICK m \in WireMessages :
            m = [inbox |-> inbox, type |-> t, body |-> body, team |-> team, meant |-> meant]
      BY <2>2 DEF WireMessages
    <2>5. /\ m = Message(inbox, t, body, team, [from |-> s, type |-> t, team |-> team])
          /\ m.inbox = inbox /\ m.type = t /\ m.team = team /\ m.meant = meant
      BY <2>3, <2>4 DEF Message
    <2> QED
      BY <2>3, <2>5
  <1>6. SenderId(m) = s /\ TypeOf(m) = t
    BY <1>3, <1>5 DEF SenderId, TypeOf, IsCustom, kCustomMessageIndexBit
  <1>7. m \in MeantMessages
    BY <1>3, <1>5, <1>6 DEF MeantMessages, kCustomMessageIndexBit
  <1>8. (s - 1) + 1 = s
    BY <1>1
  <1> QED
    BY <1>3, <1>4, <1>5, <1>7, <1>8

LEMMA MeantTypes == Seq(MeantMessages) \subseteq Seq(WireMessages)
  BY SeqMonotonic DEF MeantMessages

-----------------------------------------------------------------------------
(* The limit *)

\* Blank messages and those over the limit change no count.
LEMMA DroppedLimits ==
    ASSUME ChatInv, NEW s \in Senders, s # 0, NEW body \in Bodies, CheckChatLimits(s, body),
           body = "blank" \/ ~WithinLimit(s), passed' = passed, now' = now
    PROVE  /\ windows' \in [Senders -> ChatWindows]
           /\ \A u \in Senders : LimitIsTrue(passed[u], windows[u], now)'
  <1>1. /\ ChatTypeOK /\ \A u \in Senders : LimitIsTrue(passed[u], windows[u], now)
        /\ windows \in [Senders -> ChatWindows] /\ now \in 0..MaxChatTime /\ now \in Nat
    BY ChatConstants DEF ChatInv, ChatTypeOK
  <1>2. CASE body = "blank"
    <2>1. windows' = windows
      BY <1>2 DEF CheckChatLimits, Counts
    <2> QED
      BY <1>1, <2>1 DEF LimitIsTrue, HistoryIsTrue, IsCount, Times
  <1>3. CASE body # "blank"
    <2>1. PICK w \in ChatWindows : w = windows[s] /\ LimitIsTrue(passed[s], w, now)
      BY <1>1
    <2>2. PICK v \in ChatWindows :
            /\ v = Window(s)
            /\ v = w \/ (v.start = now /\ v.count = 0 /\ now >= w.start + ChatSecond)
      <3>1. CASE now - w.start >= ChatSecond
        <4>1. Window(s) = [start |-> now, count |-> 0]
          BY <2>1, <3>1 DEF Window
        <4> QED
          BY <1>1, <3>1, <4>1, ChatConstants DEF ChatWindows
      <3>2. CASE ~(now - w.start >= ChatSecond)
        BY <2>1, <3>2 DEF Window
      <3> QED
        BY <3>1, <3>2
    <2>3. windows' = [windows EXCEPT ![s] = v]
      <3>1. [v EXCEPT !.count = v.count] = v
        BY DEF ChatWindows
      <3> QED
        BY <1>3, <2>2, <3>1 DEF CheckChatLimits, Counts, Unlimited
    <2>4. /\ windows' \in [Senders -> ChatWindows] /\ windows'[s] = v
          /\ \A u \in Senders : u # s => windows'[u] = windows[u]
      BY <1>1, <2>3
    <2>5. LimitIsTrue(passed[s], v, now)
      <3>1. CASE v = w
        BY <2>1, <3>1
      <3>2. CASE v.start = now /\ v.count = 0 /\ now >= w.start + ChatSecond
        BY <1>1, <2>1, <3>2, ChatConstants, WindowOpens DEF LimitIsTrue
      <3> QED
        BY <2>2, <3>1, <3>2
    <2>6. ASSUME NEW u \in Senders PROVE LimitIsTrue(passed[u], windows[u], now)'
      <3>1. LimitIsTrue(passed[u], windows'[u], now)
        BY <1>1, <2>4, <2>5
      <3> QED
        BY <3>1 DEF LimitIsTrue, HistoryIsTrue, IsCount, Times
    <2> QED
      BY <2>4, <2>6
  <1> QED
    BY <1>2, <1>3

\* One that goes on is counted.
LEMMA GoneOnLimits ==
    ASSUME ChatInv, NEW s \in Senders, s # 0, NEW body \in Bodies, body # "blank", CheckChatLimits(s, body),
           WithinLimit(s), GoesOn(s), now' = now
    PROVE  /\ windows' \in [Senders -> ChatWindows] /\ passed' \in [Senders -> SUBSET PassedMessages]
           /\ \A u \in Senders : LimitIsTrue(passed[u], windows[u], now)'
  <1>1. /\ ChatTypeOK /\ \A u \in Senders : LimitIsTrue(passed[u], windows[u], now)
        /\ windows \in [Senders -> ChatWindows] /\ now \in 0..MaxChatTime /\ now \in Nat
        /\ passed \in [Senders -> SUBSET PassedMessages]
    BY ChatConstants DEF ChatInv, ChatTypeOK
  <1>2. PICK w \in ChatWindows, R \in SUBSET PassedMessages :
          w = windows[s] /\ R = passed[s] /\ LimitIsTrue(R, w, now)
    BY <1>1
  <1>3. PICK v \in ChatWindows :
          /\ v = [Window(s) EXCEPT !.count = @ + 1] /\ Window(s).count + 1 = v.count /\ Window(s).start = v.start
          /\ OpensOrCounts(w.start, w.count, v.start, v.count, now, ChatSecond)
    <2>1. CASE now - w.start >= ChatSecond
      <3>1. Window(s) = [start |-> now, count |-> 0]
        BY <1>2, <2>1 DEF Window
      <3>2. 1 <= ChatLimit
        BY <3>1, ChatConstants DEF WithinLimit, Unlimited
      <3>3. [start |-> now, count |-> 1] \in ChatWindows
        BY <1>1, <3>2, ChatConstants DEF ChatWindows
      <3>4. OpensOrCounts(w.start, w.count, now, 1, now, ChatSecond)
        BY <1>1, <2>1, ChatConstants DEF OpensOrCounts
      <3> QED
        BY <3>1, <3>3, <3>4
    <2>2. CASE ~(now - w.start >= ChatSecond)
      <3>1. Window(s) = w
        BY <1>2, <2>2 DEF Window
      <3>2. w.count + 1 \in 0..ChatLimit
        BY <3>1, ChatConstants DEF WithinLimit, Unlimited
      <3>3. /\ [w EXCEPT !.count = w.count + 1] \in ChatWindows
            /\ [w EXCEPT !.count = w.count + 1].start = w.start
            /\ [w EXCEPT !.count = w.count + 1].count = w.count + 1
        BY <3>2 DEF ChatWindows
      <3>4. OpensOrCounts(w.start, w.count, w.start, w.count + 1, now, ChatSecond)
        BY <1>1, <2>2, ChatConstants DEF OpensOrCounts
      <3> QED
        BY <3>1, <3>3, <3>4
    <2> QED
      BY <2>1, <2>2
  <1>4. windows' = [windows EXCEPT ![s] = v]
    BY <1>3 DEF CheckChatLimits, Counts, Unlimited
  <1>5. PICK e \in PassedMessages : e = PassedNow(s) /\ IsTheNext(e, v.start, v.count, now) /\ e.n = v.count
    <2>1. PassedNow(s) = [at |-> now, window |-> v.start, n |-> v.count]
      BY <1>3 DEF PassedNow
    <2>2. v.start \in 0..MaxChatTime /\ v.count \in Nat
      BY ChatConstants
    <2> QED
      BY <1>1, <2>1, <2>2 DEF PassedMessages, IsTheNext
  <1>6. PICK L \in SUBSET PassedMessages : L = Since(R, now, ChatSecond) \cup {e} /\ L = PassedLately(s) \cup {PassedNow(s)}
    BY <1>2, <1>5 DEF PassedLately, Since
  <1>7. passed' = [passed EXCEPT ![s] = L]
    BY <1>6 DEF GoesOn
  <1>8. LimitIsTrue(L, v, now)
    <2>1. /\ HistoryIsTrue(Since(R, now, ChatSecond) \cup {e}, v.start, now, ChatSecond)
          /\ IsCount(Since(R, now, ChatSecond) \cup {e}, v.start, v.count, ChatSecond)
      BY <1>1, <1>2, <1>3, <1>5, ChatConstants, HistoryGrows DEF LimitIsTrue
    <2>2. \A c \in L : c.n <= ChatLimit
      BY <1>2, <1>5, <1>6, ChatConstants DEF LimitIsTrue, Since
    <2> QED
      BY <1>6, <2>1, <2>2 DEF LimitIsTrue
  <1>9. /\ windows' \in [Senders -> ChatWindows] /\ windows'[s] = v
        /\ \A u \in Senders : u # s => windows'[u] = windows[u]
    BY <1>1, <1>4
  <1>10. /\ passed' \in [Senders -> SUBSET PassedMessages] /\ passed'[s] = L
         /\ \A u \in Senders : u # s => passed'[u] = passed[u]
    BY <1>1, <1>7
  <1>11. ASSUME NEW u \in Senders PROVE LimitIsTrue(passed[u], windows[u], now)'
    <2>1. LimitIsTrue(passed'[u], windows'[u], now)
      BY <1>1, <1>8, <1>9, <1>10
    <2> QED
      BY <2>1 DEF LimitIsTrue, HistoryIsTrue, IsCount, Times
  <1> QED
    BY <1>9, <1>10, <1>11

\* Over the limit, the limit's worth went on within the second.
LEMMA LimitedHas ==
    ASSUME ChatInv, NEW s \in Senders, ~WithinLimit(s)
    PROVE  Cardinality(PassedLately(s)) >= ChatLimit
  <1>1. PICK w \in ChatWindows : /\ w = windows[s] /\ LimitIsTrue(passed[s], w, now) /\ now \in Nat
                                 /\ w.start \in Nat /\ w.count \in Nat
    BY ChatConstants DEF ChatInv, ChatTypeOK
  <1>2. PICK L : L = PassedLately(s) /\ L = Since(passed[s], now, ChatSecond)
    BY DEF PassedLately, Since
  <1>3. CASE now - w.start >= ChatSecond
    <2>1. ChatLimit = 0
      BY <1>1, <1>3, ChatConstants DEF WithinLimit, Window
    <2>2. IsFiniteSet(L)
      BY <1>1, <1>2, FS_Subset DEF Since, LimitIsTrue, HistoryIsTrue
    <2> QED
      BY <1>2, <2>1, <2>2, FS_CardinalityType
  <1>4. CASE ~(now - w.start >= ChatSecond)
    <2>1. w.count >= ChatLimit /\ now < w.start + ChatSecond
      BY <1>1, <1>4, ChatConstants DEF WithinLimit, Window
    <2>2. IsFiniteSet(L) /\ w.count <= Cardinality(L)
      BY <1>1, <1>2, <2>1, ChatConstants, CountedLately DEF LimitIsTrue
    <2> QED
      BY <1>1, <1>2, <2>1, <2>2, FS_CardinalityType, ChatConstants
  <1> QED
    BY <1>3, <1>4

LEMMA LimitsAreLeft ==
    ASSUME ChatInv, windows' = windows, passed' = passed, now' \in Nat, now' >= now
    PROVE  \A s \in Senders : LimitIsTrue(passed[s], windows[s], now)'
  <1> SUFFICES ASSUME NEW s \in Senders PROVE LimitIsTrue(passed[s], windows[s], now)'
    OBVIOUS
  <1>1. PICK w \in ChatWindows : /\ w = windows[s] /\ LimitIsTrue(passed[s], w, now) /\ now \in Nat
                                 /\ w.start \in Nat /\ w.count \in Nat
    BY ChatConstants DEF ChatInv, ChatTypeOK
  <1>2. LimitIsTrue(passed[s], w, now')
    BY <1>1, ChatConstants, HistoryLasts DEF LimitIsTrue
  <1> QED
    BY <1>1, <1>2 DEF LimitIsTrue, HistoryIsTrue, IsCount, Times

-----------------------------------------------------------------------------
(* The steps *)

LEMMA SayInv ==
    ASSUME ChatInv, NEW s \in Senders, NEW body \in Bodies, NEW team \in BOOLEAN,
           RuntimeServerSayText(s, body, team)
    PROVE  ChatInv'
  <1>1. /\ ChatTypeOK /\ wire \in Seq(MeantMessages) /\ s # 0 /\ s \in 1..127
        /\ UNCHANGED <<serverHook, broadcastReady, clientHook, serverScript, clientScript, present, now>>
        /\ now \in Nat /\ said' \in 0..MaxSaid
    BY ServerChatAssumption, ChatConstants DEF ChatInv, ChatTypeOK, RuntimeServerSayText, hooks, around
  <1>2. SayText(s, body, team) \in Seq(MeantMessages)
    BY <1>1, SayTextMeans
  <1>3. wire' \in Seq(MeantMessages)
    BY <1>1, <1>2 DEF RuntimeServerSayText, DropBlank, DropOverLimit, ToScript, ToVanilla, Unhooked
  <1>4. withScript' \subseteq ScriptMessages
    <2>1. [index |-> s - 1, team |-> team] \in ScriptMessages
      BY <1>1 DEF ScriptMessages
    <2> QED
      BY <1>1, <2>1 DEF RuntimeServerSayText, DropBlank, DropOverLimit, ToScript, ToVanilla, Unhooked, ChatTypeOK
  <1>5. /\ windows' \in [Senders -> ChatWindows] /\ passed' \in [Senders -> SUBSET PassedMessages]
        /\ \A u \in Senders : LimitIsTrue(passed[u], windows[u], now)'
    <2>1. CASE DropBlank(s, body, team) \/ DropOverLimit(s, body, team)
      BY <1>1, <2>1, DroppedLimits DEF DropBlank, DropOverLimit, ChatTypeOK
    <2>2. CASE ToScript(s, body, team) \/ ToVanilla(s, body, team)
      BY <1>1, <2>2, GoneOnLimits DEF ToScript, ToVanilla
    <2>3. CASE Unhooked(s, body, team)
      BY <1>1, <2>3, LimitsAreLeft DEF Unhooked, ChatTypeOK
    <2> QED
      BY <2>1, <2>2, <2>3 DEF RuntimeServerSayText
  <1>6. outcome'.is # "line" /\ (outcome'.is = "limited" => outcome'.lately >= ChatLimit)
    <2>1. CASE DropOverLimit(s, body, team)
      BY <2>1, LimitedHas DEF DropOverLimit
    <2>2. CASE ~DropOverLimit(s, body, team)
      <3>1. PICK is \in {"blank", "with script", "sent"} : outcome' = [is |-> is]
        BY <2>2 DEF RuntimeServerSayText, DropBlank, ToScript, ToVanilla, Unhooked
      <3> QED
        BY <3>1
    <2> QED
      BY <2>1, <2>2
  <1>7. LimitedForCause' /\ ShownAsMeant' /\ CustomOnlyByScript'
    BY <1>6 DEF LimitedForCause, ShownAsMeant, CustomOnlyByScript
  <1>8. ChatTypeOK'
    BY <1>1, <1>3, <1>4, <1>5, MeantTypes DEF ChatTypeOK
  <1> QED
    BY <1>3, <1>5, <1>7, <1>8 DEF ChatInv

LEMMA ScriptSendsInv ==
    ASSUME ChatInv,
           \/ \E m \in withScript : ServerChatSend(m)
           \/ \E s \in Senders, type \in MessageTypes, body \in Bodies, team, toUs \in BOOLEAN :
                  ServerChatBroadcast(s - 1, type, body, team, toUs)
    PROVE  ChatInv'
  <1>1. /\ ChatTypeOK /\ wire \in Seq(MeantMessages) /\ now \in Nat
        /\ UNCHANGED <<serverHook, broadcastReady, clientHook, serverScript, clientScript, present, now, windows, passed>>
    BY ChatConstants DEF ChatInv, ServerChatSend, ServerChatBroadcast, hooks, around
  <1>2. wire' \in Seq(MeantMessages) /\ withScript' \subseteq ScriptMessages /\ said' \in 0..MaxSaid
    <2>1. ASSUME NEW m \in withScript, ServerChatSend(m)
          PROVE  wire' \in Seq(MeantMessages) /\ withScript' \subseteq ScriptMessages /\ said' \in 0..MaxSaid
      <3>1. m.team \in BOOLEAN /\ "words" \in Bodies
        BY <1>1 DEF ChatTypeOK, ScriptMessages, Bodies
      <3>2. SayText((m.index + 1) % kCustomMessageIndexBit, "words", m.team) \in Seq(MeantMessages)
        BY <1>1, <3>1, SayTextMeans
      <3> QED
        BY <1>1, <2>1, <3>2 DEF ServerChatSend, ChatTypeOK
    <2>2. ASSUME NEW s \in Senders, NEW type \in MessageTypes, NEW body \in Bodies, NEW team \in BOOLEAN,
                 NEW toUs \in BOOLEAN, ServerChatBroadcast(s - 1, type, body, team, toUs)
          PROVE  wire' \in Seq(MeantMessages) /\ withScript' \subseteq ScriptMessages /\ said' \in 0..MaxSaid
      <3>1. said' \in 0..MaxSaid /\ withScript' = withScript
        <4>1. said \in 0..MaxSaid /\ said < MaxSaid /\ said' = said + 1 /\ withScript' = withScript
          BY <1>1, <2>2 DEF ServerChatBroadcast, ChatTypeOK
        <4> QED
          BY <4>1, ServerChatAssumption
      <3>2. wire' = wire \/ wire' = Append(wire, Message(FromPlayerId(s - 1), Byte(type), body, team,
                                                   [from |-> (s - 1) + 1, type |-> Byte(type), team |-> team]))
        BY <2>2 DEF ServerChatBroadcast
      <3>3. wire' \in Seq(MeantMessages)
        BY <1>1, <3>2, BroadcastMeans
      <3> QED
        BY <1>1, <3>1, <3>3 DEF ChatTypeOK
    <2> QED
      BY <2>1, <2>2
  <1>3. outcome'.is = "sent" \/ outcome'.is = "not sent"
    <2>1. PICK is \in {"sent", "not sent"} : outcome' = [is |-> is]
      BY DEF ServerChatSend, ServerChatBroadcast
    <2> QED
      BY <2>1
  <1>4. LimitedForCause' /\ ShownAsMeant' /\ CustomOnlyByScript'
    BY <1>3 DEF LimitedForCause, ShownAsMeant, CustomOnlyByScript
  <1>5. ChatTypeOK'
    BY <1>1, <1>2, MeantTypes DEF ChatTypeOK
  <1>6. \A u \in Senders : LimitIsTrue(passed[u], windows[u], now)'
    BY <1>1, LimitsAreLeft
  <1> QED
    BY <1>2, <1>4, <1>5, <1>6 DEF ChatInv

LEMMA ReceivedInv ==
    ASSUME ChatInv, ClientChatReceived
    PROVE  ChatInv'
  <1>1. /\ ChatTypeOK /\ wire \in Seq(MeantMessages) /\ now \in Nat /\ wire # <<>> /\ wire' = Tail(wire)
        /\ UNCHANGED <<serverHook, broadcastReady, clientHook, serverScript, clientScript, present, now,
                       windows, passed, withScript, said>>
    BY ChatConstants DEF ChatInv, ClientChatReceived, hooks, around
  <1>2. wire' \in Seq(MeantMessages)
    BY <1>1
  <1>3. PICK m \in MeantMessages : m = Head(wire)
    BY <1>1
  <1>4. LimitedForCause' /\ ShownAsMeant' /\ CustomOnlyByScript'
    <2>1. CASE outcome' = [is |-> "not shown"]
      <3>1. outcome'.is = "not shown"
        BY <2>1
      <3> QED
        BY <3>1 DEF LimitedForCause, ShownAsMeant, CustomOnlyByScript
    <2>2. CASE outcome' # [is |-> "not shown"]
      <3>1. PICK by \in {"script", "vanilla"} :
              /\ outcome' = Line(by, m)
              /\ by = "vanilla" => m.inbox < kCustomMessageIndexBit /\ m.inbox # 0
        BY <1>3, <2>2 DEF ClientChatReceived
      <3>2. /\ outcome'.is = "line" /\ outcome'.by = by /\ outcome'.from = SenderId(m)
            /\ outcome'.type = TypeOf(m) /\ outcome'.team = m.team /\ outcome'.meant = m.meant
        BY <3>1 DEF Line
      <3>3. /\ m.meant = [from |-> SenderId(m), type |-> TypeOf(m), team |-> m.team]
            /\ m.meant.type # 0 => m.inbox >= kCustomMessageIndexBit \/ m.inbox = 0
            /\ m.inbox \in 0..255
        BY DEF MeantMessages, WireMessages
      <3>4. ShownAsMeant' /\ LimitedForCause'
        BY <3>2, <3>3 DEF ShownAsMeant, LimitedForCause
      <3>5. CustomOnlyByScript'
        BY <3>1, <3>2, <3>3 DEF CustomOnlyByScript, kCustomMessageIndexBit
      <3> QED
        BY <3>4, <3>5
    <2> QED
      BY <2>1, <2>2
  <1>5. ChatTypeOK'
    BY <1>1, <1>2, MeantTypes DEF ChatTypeOK
  <1>6. \A u \in Senders : LimitIsTrue(passed[u], windows[u], now)'
    BY <1>1, LimitsAreLeft
  <1> QED
    BY <1>2, <1>4, <1>5, <1>6 DEF ChatInv

LEMMA AroundChatInv ==
    ASSUME ChatInv, \/ InstallServerChat \/ InstallClientChat \/ ChatTick \/ ChatVms
                    \/ (\E s \in Senders \ {0} : PlayerLeaves(s)) \/ UNCHANGED chatVars
    PROVE  ChatInv'
  <1>1. ChatTypeOK /\ wire \in Seq(MeantMessages) /\ now \in Nat /\ now <= MaxChatTime
    BY ChatConstants DEF ChatInv
  <1>2. /\ wire' = wire /\ windows' = windows /\ passed' = passed /\ said' = said
        /\ outcome' = outcome /\ now' \in {now, now + 1} /\ (now' = now \/ now < MaxChatTime)
        /\ withScript' \in {withScript, {}} /\ present' \subseteq present
    BY DEF InstallServerChat, InstallClientChat, ChatTick, ChatVms, PlayerLeaves, chatVars, hooks, around
  <1>3. /\ serverHook' \in {"none", "installed", "refused"} /\ broadcastReady' \in BOOLEAN /\ clientHook' \in BOOLEAN
        /\ serverScript' \in BOOLEAN /\ clientScript' \in BOOLEAN
    BY <1>1 DEF ChatTypeOK, InstallServerChat, InstallClientChat, ChatTick, ChatVms, PlayerLeaves, chatVars,
                hooks, around
  <1>4. now' \in ChatSecond..MaxChatTime /\ now' \in Nat /\ now' >= now
    BY <1>1, <1>2, ServerChatAssumption DEF ChatTypeOK
  <1>5. ChatTypeOK'
    BY <1>1, <1>2, <1>3, <1>4 DEF ChatTypeOK
  <1>6. \A u \in Senders : LimitIsTrue(passed[u], windows[u], now)'
    BY <1>2, <1>4, LimitsAreLeft
  <1>7. LimitedForCause' /\ ShownAsMeant' /\ CustomOnlyByScript'
    BY <1>2 DEF ChatInv, LimitedForCause, ShownAsMeant, CustomOnlyByScript
  <1> QED
    BY <1>1, <1>2, <1>5, <1>6, <1>7 DEF ChatInv

LEMMA ChatStepInv == ChatInv /\ [ChatNext]_chatVars => ChatInv'
  BY SayInv, ScriptSendsInv, ReceivedInv, AroundChatInv DEF ChatNext

LEMMA ChatIsSoundly == ChatInv => ChatTypeOK /\ ChatSound
  <1> SUFFICES ASSUME ChatInv PROVE ChatTypeOK /\ ChatSound
    OBVIOUS
  <1>1. LimitHolds
    <2> SUFFICES ASSUME NEW s \in Senders PROVE Cardinality(passed[s]) <= 2 * ChatLimit
      BY DEF LimitHolds
    <2>1. PICK w \in ChatWindows : /\ w = windows[s] /\ LimitIsTrue(passed[s], w, now) /\ now \in Nat
                                   /\ w.start \in Nat
      BY ChatConstants DEF ChatInv, ChatTypeOK
    <2> QED
      BY <2>1, ChatConstants, AtMostTwice DEF LimitIsTrue
  <1> QED
    BY <1>1 DEF ChatInv, ChatSound

-----------------------------------------------------------------------------
(* Sequences of sequences, one behind the other.                            *)

LEMMA JoinedThere ==
    ASSUME NEW T, NEW ss \in Seq(Seq(T)), Len(ss) # 0
    PROVE  \E f : /\ FlattenSeq(ss) = f[Len(ss)] /\ f[1] = ss[1]
                  /\ \A n \in 2..Len(ss) : f[n] = f[n - 1] \o ss[n]
  <1> DEFINE N == Len(ss)
             step == [n \in 1..N |-> [c \in Seq(T) |-> c \o ss[n]]]
             Rec(g) == [n \in 1..N |-> IF n = 1 THEN ss[n] ELSE g[n - 1] \o ss[n]]
  <1>1. N \in Nat /\ N # 0 /\ <<>> \in Seq(T) /\ \A n \in 1..N : ss[n] \in Seq(T)
    BY ElementOfSeq
  <1>2. \A n \in 1..N, c \in Seq(T) : step[n][c] = c \o ss[n] /\ c \o ss[n] \in Seq(T)
    BY <1>1, ConcatProperties
  <1>3. step \in [1..N -> [Seq(T) -> Seq(T)]]
    BY <1>2
  <1>4. PICK f : Walked(Seq(T), f, <<>>, step, N)
    <2> HIDE DEF step, N
    <2>. QED
      BY <1>1, <1>3, WalkThere
  <1> DEFINE h == [n \in 1..N |-> f[n]]
  <1>5. h = Rec(h)
    <2>1. ASSUME NEW n \in 1..N
          PROVE  h[n] = Rec(h)[n]
      <3>0. n - 1 \in 0..N /\ f[n] = step[n][f[n - 1]] /\ f[n - 1] \in Seq(T)
        <4>1. n - 1 \in 0..N
          BY <1>1
        <4>. QED
          BY <1>4, <4>1 DEF Walked
      <3>1. CASE n = 1
        <4>1. f[0] = <<>>
          BY <1>4 DEF Walked
        <4>2. f[n] = <<>> \o ss[n]
          <5>1. n - 1 = 0 /\ <<>> \in Seq(T)
            BY <1>1, <3>1
          <5>2. step[n][<<>>] = <<>> \o ss[n]
            BY <1>2, <5>1
          <5>3. f[n] = step[n][<<>>]
            BY <3>0, <4>1, <5>1
          <5>. QED
            BY <5>2, <5>3
        <4>3. f[n] = ss[n]
          BY <1>1, <4>2, ConcatEmptySeq
        <4>. QED
          BY <3>1, <4>3
      <3>2. CASE n # 1
        <4>1. n - 1 \in 1..N
          BY <1>1, <3>2
        <4>2. f[n] = f[n - 1] \o ss[n]
          BY <1>2, <3>0
        <4>. QED
          BY <3>2, <4>1, <4>2
      <3>. QED
        BY <3>1, <3>2
    <2>. QED
      BY <2>1
  <1>6. PICK g : g = CHOOSE p : p = Rec(p)
    OBVIOUS
  <1>7. FlattenSeq(ss) = g[N]
    BY <1>1, <1>6 DEF FlattenSeq
  <1>8. g = Rec(g)
    <2> HIDE DEF Rec, h
    <2>. QED
      BY <1>5, <1>6, Zenon
  <1>9. \A n \in 1..N : g[n] = IF n = 1 THEN ss[n] ELSE g[n - 1] \o ss[n]
    <2>1. \A n \in 1..N : g[n] = Rec(g)[n]
      <3> HIDE DEF Rec
      <3>. QED
        BY <1>8, Zenon
    <2>. QED
      BY <2>1
  <1> HIDE DEF Rec
  <1>10. g[1] = ss[1]
    <2>1. 1 \in 1..N
      BY <1>1
    <2>. QED
      BY <1>9, <2>1
  <1>11. ASSUME NEW n \in 2..N
         PROVE  g[n] = g[n - 1] \o ss[n]
    <2>1. n \in 1..N /\ n # 1
      BY <1>1
    <2>. QED
      BY <1>9, <2>1
  <1>. QED
    BY <1>7, <1>10, <1>11

LEMMA JoinedNone == FlattenSeq(<<>>) = <<>>
  <1>1. Len(<<>>) = 0
    OBVIOUS
  <1>. QED
    BY <1>1 DEF FlattenSeq

\* One sequence more.
LEMMA JoinedMore ==
    ASSUME NEW T, NEW ss \in Seq(Seq(T)), NEW tt \in Seq(Seq(T)), Len(tt) = Len(ss) + 1,
           \A i \in 1..Len(ss) : tt[i] = ss[i]
    PROVE  FlattenSeq(tt) = FlattenSeq(ss) \o tt[Len(tt)]
  <1> DEFINE N == Len(ss)
  <1>1. N \in Nat /\ tt[N + 1] \in Seq(T)
    BY ElementOfSeq
  <1>2. PICK g : /\ FlattenSeq(tt) = g[N + 1] /\ g[1] = tt[1]
                 /\ \A n \in 2..N + 1 : g[n] = g[n - 1] \o tt[n]
    <2>1. Len(tt) = N + 1 /\ Len(tt) # 0
      BY <1>1
    <2>2. \E g : /\ FlattenSeq(tt) = g[Len(tt)] /\ g[1] = tt[1]
                 /\ \A n \in 2..Len(tt) : g[n] = g[n - 1] \o tt[n]
      BY <2>1, JoinedThere
    <2>. QED
      BY <2>1, <2>2
  <1>3. CASE N = 0
    <2>1. FlattenSeq(ss) = <<>>
      BY <1>3, JoinedNone DEF FlattenSeq
    <2>2. FlattenSeq(tt) = tt[1]
      BY <1>2, <1>3
    <2>3. <<>> \o tt[1] = tt[1]
      BY <1>1, <1>3, ConcatEmptySeq
    <2>4. Len(tt) = 1
      BY <1>3
    <2>. QED
      BY <2>1, <2>2, <2>3, <2>4
  <1>4. CASE N # 0
    <2>1. PICK f : /\ FlattenSeq(ss) = f[N] /\ f[1] = ss[1]
                   /\ \A n \in 2..N : f[n] = f[n - 1] \o ss[n]
      BY <1>4, JoinedThere
    <2> HIDE DEF N
    <2>2. {0} \cup {n \in 1..N : f[n] = g[n]} = 0..N
      <3> DEFINE G == {0} \cup {n \in 1..N : f[n] = g[n]}
      <3>1. 0 \in G /\ G \in SUBSET (0..N)
        BY <1>1
      <3>2. ASSUME NEW n \in 1..N, n - 1 \in G PROVE n \in G
        <4>1. CASE n = 1
          BY <1>2, <2>1, <4>1 DEF N
        <4>2. CASE n # 1
          <5>1. n \in 2..N /\ n \in 2..N + 1 /\ f[n - 1] = g[n - 1] /\ tt[n] = ss[n]
            BY <1>1, <3>2, <4>2 DEF N
          <5>. QED
            BY <1>2, <2>1, <5>1
        <4>. QED
          BY <4>1, <4>2
      <3> HIDE DEF G
      <3>3. G = 0..N
        BY <1>1, <3>1, <3>2, FromBelow
      <3>. QED
        BY <3>3 DEF G
    <2>3. N \in 1..N /\ N \in 0..N /\ N # 0 /\ N + 1 \in 2..N + 1 /\ (N + 1) - 1 = N
      BY <1>1, <1>4
    <2>4. f[N] = g[N]
      BY <2>2, <2>3
    <2>5. g[N + 1] = g[N] \o tt[N + 1]
      BY <1>2, <2>3
    <2>6. Len(tt) = N + 1
      BY DEF N
    <2>. QED
      BY <1>2, <2>1, <2>4, <2>5, <2>6
  <1>. QED
    BY <1>3, <1>4

LEMMA JoinedAppend ==
    ASSUME NEW T, NEW ss \in Seq(Seq(T)), NEW s \in Seq(T)
    PROVE  FlattenSeq(Append(ss, s)) = FlattenSeq(ss) \o s
  <1>1. PICK tt : tt = Append(ss, s)
    OBVIOUS
  <1>2. /\ tt \in Seq(Seq(T)) /\ Len(tt) = Len(ss) + 1 /\ tt[Len(ss) + 1] = s
        /\ \A i \in 1..Len(ss) : tt[i] = ss[i]
    BY <1>1, AppendProperties
  <1>3. FlattenSeq(tt) = FlattenSeq(ss) \o tt[Len(tt)]
    BY <1>2, JoinedMore
  <1>. QED
    BY <1>1, <1>2, <1>3

LEMMA JoinedType == \A T : \A ss \in Seq(Seq(T)) : FlattenSeq(ss) \in Seq(T)
  <1> SUFFICES ASSUME NEW T PROVE \A ss \in Seq(Seq(T)) : FlattenSeq(ss) \in Seq(T)
    OBVIOUS
  <1> DEFINE G == {ss \in Seq(Seq(T)) : FlattenSeq(ss) \in Seq(T)}
  <1>1. <<>> \in G
    <2>1. <<>> \in Seq(Seq(T)) /\ <<>> \in Seq(T)
      OBVIOUS
    <2>. QED
      BY <2>1, JoinedNone, Zenon
  <1>2. ASSUME NEW s \in Seq(Seq(T)), NEW e \in Seq(T), s \in G PROVE Append(s, e) \in G
    <2>1. Append(s, e) \in Seq(Seq(T)) /\ FlattenSeq(s) \in Seq(T)
      BY <1>2
    <2>2. FlattenSeq(s) \o e \in Seq(T)
      BY <2>1, ConcatProperties
    <2>. QED
      BY <2>1, <2>2, JoinedAppend, Zenon
  <1>3. \A ss \in Seq(Seq(T)) : ss \in G
    <2> HIDE DEF G
    <2>. QED
      BY <1>1, <1>2, EverySeq, Zenon
  <1>. QED
    BY <1>3

LEMMA JoinAssociative == \A T : \A x, y, z \in Seq(T) : (x \o y) \o z = x \o (y \o z)
  BY ConcatAssociative

\* Of two such sequences, one behind the other.
LEMMA JoinedBoth ==
    \A T : \A ss, tt \in Seq(Seq(T)) : FlattenSeq(ss \o tt) = FlattenSeq(ss) \o FlattenSeq(tt)
  <1> SUFFICES ASSUME NEW T, NEW ss \in Seq(Seq(T)), NEW tt \in Seq(Seq(T))
               PROVE  FlattenSeq(ss \o tt) = FlattenSeq(ss) \o FlattenSeq(tt)
    OBVIOUS
  <1> DEFINE G == {u \in Seq(Seq(T)) : FlattenSeq(ss \o u) = FlattenSeq(ss) \o FlattenSeq(u)}
  <1>1. <<>> \in G
    <2>1. <<>> \in Seq(Seq(T)) /\ ss \o <<>> = ss /\ FlattenSeq(ss) \in Seq(T)
      BY ConcatEmptySeq, JoinedType
    <2>2. FlattenSeq(ss) \o <<>> = FlattenSeq(ss)
      BY <2>1, ConcatEmptySeq
    <2>. QED
      BY <2>1, <2>2, JoinedNone, Zenon
  <1>2. ASSUME NEW u \in Seq(Seq(T)), NEW e \in Seq(T), u \in G PROVE Append(u, e) \in G
    <2>1. Append(u, e) \in Seq(Seq(T)) /\ ss \o u \in Seq(Seq(T)) /\ ss \o Append(u, e) = Append(ss \o u, e)
      OBVIOUS
    <2>2. FlattenSeq(ss \o u) = FlattenSeq(ss) \o FlattenSeq(u)
      BY <1>2
    <2>3. FlattenSeq(Append(ss \o u, e)) = FlattenSeq(ss \o u) \o e
      BY <2>1, JoinedAppend, Zenon
    <2>4. FlattenSeq(Append(u, e)) = FlattenSeq(u) \o e
      BY JoinedAppend, Zenon
    <2>5. (FlattenSeq(ss) \o FlattenSeq(u)) \o e = FlattenSeq(ss) \o (FlattenSeq(u) \o e)
      <3>1. FlattenSeq(ss) \in Seq(T) /\ FlattenSeq(u) \in Seq(T)
        BY JoinedType, Zenon
      <3>2. PICK x, y : x = FlattenSeq(ss) /\ y = FlattenSeq(u)
        OBVIOUS
      <3>3. (x \o y) \o e = x \o (y \o e)
        <4>1. x \in Seq(T) /\ y \in Seq(T) /\ e \in Seq(T)
          BY <3>1, <3>2
        <4> HIDE DEF G
        <4>. QED
          BY ONLY <4>1, JoinAssociative
      <3>. QED
        BY <3>2, <3>3
    <2>6. FlattenSeq(ss \o Append(u, e)) = FlattenSeq(ss) \o FlattenSeq(Append(u, e))
      BY <2>1, <2>2, <2>3, <2>4, <2>5, Zenon
    <2>. QED
      BY <2>1, <2>6, Zenon
  <1>3. tt \in G
    <2> HIDE DEF G
    <2>. QED
      BY <1>1, <1>2, EverySeq, Zenon
  <1>. QED
    BY <1>3

-----------------------------------------------------------------------------
(* The keyboard (ChatKeyboard): what the two conversions make of a text     *)

Characters == {"a", "space", "pair", "broken", "rep"}
KeyUnits == {"a", "space", "high", "low", "rep"}

LEMMA Utf16Starts == Utf16Of(<<>>) = <<>>
  <1>1. [i \in DOMAIN <<>> |-> Utf16Units(<<>>[i])] = <<>>
    OBVIOUS
  <1>. QED
    BY <1>1, JoinedNone DEF Utf16Of

LEMMA Utf16UnitsType == \A x \in Characters : Utf16Units(x) \in Seq(KeyUnits)
  <1> SUFFICES ASSUME NEW x \in Characters PROVE Utf16Units(x) \in Seq(KeyUnits)
    OBVIOUS
  <1>1. /\ <<"high", "low">> \in Seq(KeyUnits) /\ <<"rep", "rep", "rep">> \in Seq(KeyUnits)
        /\ \A y \in KeyUnits : <<y>> \in Seq(KeyUnits)
    BY DEF KeyUnits
  <1>2. CASE x = "pair" \/ x = "broken"
    BY <1>1, <1>2 DEF Utf16Units
  <1>3. CASE x # "pair" /\ x # "broken"
    <2>1. x \in KeyUnits /\ Utf16Units(x) = <<x>>
      BY <1>3 DEF Characters, KeyUnits, Utf16Units
    <2>. QED
      BY <1>1, <2>1
  <1>. QED
    BY <1>2, <1>3

LEMMA Utf16Parts ==
    ASSUME NEW c \in Seq(Characters)
    PROVE  /\ [i \in DOMAIN c |-> Utf16Units(c[i])] \in Seq(Seq(KeyUnits))
           /\ Len([i \in DOMAIN c |-> Utf16Units(c[i])]) = Len(c)
           /\ \A i \in 1..Len(c) : [j \in DOMAIN c |-> Utf16Units(c[j])][i] = Utf16Units(c[i])
  <1>1. \A i \in 1..Len(c) : c[i] \in Characters
    BY ElementOfSeq
  <1>2. \A x \in Characters : Utf16Units(x) \in Seq(KeyUnits)
    BY Utf16UnitsType
  <1>3. DOMAIN c = 1..Len(c) /\ Len(c) \in Nat
    OBVIOUS
  <1>. QED
    BY <1>1, <1>2, <1>3

LEMMA Utf16Type == \A c \in Seq(Characters) : Utf16Of(c) \in Seq(KeyUnits)
  <1> SUFFICES ASSUME NEW c \in Seq(Characters) PROVE Utf16Of(c) \in Seq(KeyUnits)
    OBVIOUS
  <1>1. PICK ss : ss = [i \in DOMAIN c |-> Utf16Units(c[i])]
    OBVIOUS
  <1>2. ss \in Seq(Seq(KeyUnits))
    BY <1>1, Utf16Parts
  <1>3. FlattenSeq(ss) \in Seq(KeyUnits)
    BY <1>2, JoinedType, Zenon
  <1>. QED
    BY <1>1, <1>3 DEF Utf16Of

\* Two texts, one behind the other.
LEMMA Utf16Both == \A c, d \in Seq(Characters) : Utf16Of(c \o d) = Utf16Of(c) \o Utf16Of(d)
  <1> SUFFICES ASSUME NEW c \in Seq(Characters), NEW d \in Seq(Characters)
               PROVE  Utf16Of(c \o d) = Utf16Of(c) \o Utf16Of(d)
    OBVIOUS
  <1>1. PICK cc, dd, ee, e : /\ cc = [i \in DOMAIN c |-> Utf16Units(c[i])] /\ dd = [i \in DOMAIN d |-> Utf16Units(d[i])]
                             /\ e = c \o d /\ ee = [i \in DOMAIN e |-> Utf16Units(e[i])]
    OBVIOUS
  <1>2. /\ cc \in Seq(Seq(KeyUnits)) /\ Len(cc) = Len(c) /\ \A i \in 1..Len(c) : cc[i] = Utf16Units(c[i])
        /\ dd \in Seq(Seq(KeyUnits)) /\ Len(dd) = Len(d) /\ \A i \in 1..Len(d) : dd[i] = Utf16Units(d[i])
    BY <1>1, Utf16Parts
  <1>3. /\ e \in Seq(Characters) /\ Len(e) = Len(c) + Len(d) /\ Len(c) \in Nat /\ Len(d) \in Nat
        /\ \A i \in 1..Len(c) + Len(d) : e[i] = IF i <= Len(c) THEN c[i] ELSE d[i - Len(c)]
    BY <1>1, ConcatProperties
  <1>4. /\ ee \in Seq(Seq(KeyUnits)) /\ Len(ee) = Len(e) /\ \A i \in 1..Len(e) : ee[i] = Utf16Units(e[i])
    BY <1>1, <1>3, Utf16Parts
  <1>5. ee = cc \o dd
    <2>0. PICK S : S = Seq(KeyUnits)
      OBVIOUS
    <2>5. cc \in Seq(S) /\ dd \in Seq(S) /\ Len(cc) = Len(c) /\ Len(dd) = Len(d)
      BY <1>2, <2>0
    <2>6. /\ cc \o dd \in Seq(S) /\ Len(cc \o dd) = Len(cc) + Len(dd)
          /\ \A i \in 1..Len(cc) + Len(dd) : (cc \o dd)[i] = IF i <= Len(cc) THEN cc[i] ELSE dd[i - Len(cc)]
      BY ONLY <2>5, ConcatProperties
    <2>1. cc \o dd \in Seq(S) /\ Len(cc \o dd) = Len(c) + Len(d)
      BY <2>5, <2>6, Zenon
    <2>2. \A i \in 1..Len(c) + Len(d) : (cc \o dd)[i] = IF i <= Len(c) THEN cc[i] ELSE dd[i - Len(c)]
      BY <2>5, <2>6, Zenon
    <2>3. ASSUME NEW i \in 1..Len(c) + Len(d) PROVE ee[i] = (cc \o dd)[i]
      <3>1. CASE i <= Len(c)
        <4>1. i \in 1..Len(c)
          BY <1>3, <3>1
        <4>. QED
          BY <1>2, <1>3, <1>4, <2>2, <3>1, <4>1
      <3>2. CASE ~(i <= Len(c))
        <4>1. i - Len(c) \in 1..Len(d)
          BY <1>3, <3>2
        <4>. QED
          BY <1>2, <1>3, <1>4, <2>2, <3>2, <4>1
      <3>. QED
        BY <3>1, <3>2
    <2>. QED
      BY <1>3, <1>4, <2>0, <2>1, <2>3, SeqEqual
  <1>6. FlattenSeq(cc \o dd) = FlattenSeq(cc) \o FlattenSeq(dd)
    BY <1>2, JoinedBoth, Zenon
  <1>. QED
    BY <1>1, <1>5, <1>6 DEF Utf16Of

LEMMA Utf16One == \A x \in Characters : Utf16Of(<<x>>) = Utf16Units(x) /\ Utf16Units(x) \in Seq(KeyUnits)
  <1> SUFFICES ASSUME NEW x \in Characters PROVE Utf16Of(<<x>>) = Utf16Units(x) /\ Utf16Units(x) \in Seq(KeyUnits)
    OBVIOUS
  <1>1. PICK u : u = Utf16Units(x)
    OBVIOUS
  <1>2. u \in Seq(KeyUnits)
    BY <1>1, Utf16UnitsType
  <1>3. [i \in DOMAIN <<x>> |-> Utf16Units(<<x>>[i])] = Append(<<>>, u)
    BY <1>1
  <1>4. <<>> \in Seq(Seq(KeyUnits)) /\ <<>> \in Seq(KeyUnits)
    OBVIOUS
  <1>5. FlattenSeq(Append(<<>>, u)) = FlattenSeq(<<>>) \o u
    BY <1>2, <1>4, JoinedAppend
  <1>6. FlattenSeq(<<>>) \o u = u
    BY <1>2, JoinedNone, ConcatEmptySeq
  <1>. QED
    BY <1>1, <1>2, <1>3, <1>5, <1>6 DEF Utf16Of

LEMMA Utf16More == \A c \in Seq(Characters), x \in Characters : Utf16Of(Append(c, x)) = Utf16Of(c) \o Utf16Units(x)
  <1> SUFFICES ASSUME NEW c \in Seq(Characters), NEW x \in Characters
               PROVE  Utf16Of(Append(c, x)) = Utf16Of(c) \o Utf16Units(x)
    OBVIOUS
  <1>1. Append(c, x) = c \o <<x>> /\ <<x>> \in Seq(Characters)
    OBVIOUS
  <1>2. Utf16Of(c \o <<x>>) = Utf16Of(c) \o Utf16Of(<<x>>)
    BY <1>1, Utf16Both, Zenon
  <1>. QED
    BY <1>1, <1>2, Utf16One

LEMMA Utf8Starts == Utf16ToUtf8(<<>>) = <<>>
  <1>1. [i \in DOMAIN <<>> |-> Utf8At(<<>>, i)] = <<>>
    OBVIOUS
  <1>. QED
    BY <1>1, JoinedNone DEF Utf16ToUtf8

LEMMA Utf8Parts ==
    ASSUME NEW t \in Seq(KeyUnits)
    PROVE  /\ [i \in DOMAIN t |-> Utf8At(t, i)] \in Seq(Seq(Characters))
           /\ Len([i \in DOMAIN t |-> Utf8At(t, i)]) = Len(t)
           /\ \A i \in 1..Len(t) : [j \in DOMAIN t |-> Utf8At(t, j)][i] = Utf8At(t, i)
           /\ \A i \in 1..Len(t) : Utf8At(t, i) \in Seq(Characters)
  <1>1. \A i \in 1..Len(t) : t[i] \in KeyUnits
    BY ElementOfSeq
  <1>2. \A i \in 1..Len(t) : Utf8At(t, i) \in Seq(Characters)
    <2>1. ASSUME NEW i \in 1..Len(t) PROVE Utf8At(t, i) \in Seq(Characters)
      <3>1. Utf8At(t, i) \in {<<"pair">>, <<>>, <<"broken">>} \cup {<<x>> : x \in KeyUnits \ {"high", "low"}}
        BY <1>1 DEF Utf8At
      <3>2. \A x \in KeyUnits \ {"high", "low"} : <<x>> \in Seq(Characters)
        BY DEF KeyUnits, Characters
      <3>3. <<"pair">> \in Seq(Characters) /\ <<>> \in Seq(Characters) /\ <<"broken">> \in Seq(Characters)
        BY DEF Characters
      <3>. QED
        BY <3>1, <3>2, <3>3
    <2>. QED
      BY <2>1
  <1>3. DOMAIN t = 1..Len(t) /\ Len(t) \in Nat
    OBVIOUS
  <1>. QED
    BY <1>2, <1>3

LEMMA Utf8Type == \A t \in Seq(KeyUnits) : Utf16ToUtf8(t) \in Seq(Characters)
  <1> SUFFICES ASSUME NEW t \in Seq(KeyUnits) PROVE Utf16ToUtf8(t) \in Seq(Characters)
    OBVIOUS
  <1>1. PICK ss : ss = [i \in DOMAIN t |-> Utf8At(t, i)]
    OBVIOUS
  <1>2. ss \in Seq(Seq(Characters))
    BY <1>1, Utf8Parts
  <1>3. FlattenSeq(ss) \in Seq(Characters)
    BY <1>2, JoinedType, Zenon
  <1>. QED
    BY <1>1, <1>3 DEF Utf16ToUtf8

\* One unit more, but the second of a pair.
LEMMA Utf8More ==
    ASSUME NEW t \in Seq(KeyUnits), NEW u \in KeyUnits, ~(u = "low" /\ Len(t) > 0 /\ t[Len(t)] = "high")
    PROVE  Utf16ToUtf8(Append(t, u)) =
               Utf16ToUtf8(t) \o (IF u \in {"high", "low"} THEN <<"broken">> ELSE <<u>>)
  <1>1. PICK n, s : n = Len(t) /\ s = Append(t, u)
    OBVIOUS
  <1>2. /\ n \in Nat /\ s \in Seq(KeyUnits) /\ Len(s) = n + 1 /\ s[n + 1] = u /\ \A i \in 1..n : s[i] = t[i]
    BY <1>1, AppendProperties
  <1>3. \A i : PairAt(s, i) <=> PairAt(t, i)
    <2>1. ASSUME NEW i, PairAt(t, i) PROVE PairAt(s, i)
      BY <1>1, <1>2, <2>1 DEF PairAt
    <2>2. ASSUME NEW i, PairAt(s, i) PROVE PairAt(t, i)
      <3>1. i \in 1..n /\ s[i] = "high" /\ s[i + 1] = "low"
        BY <1>2, <2>2 DEF PairAt
      <3>2. i # n
        BY <1>1, <1>2, <3>1
      <3>3. i \in 1..n - 1 /\ i \in 1..n /\ i + 1 \in 1..n
        BY <1>2, <3>1, <3>2
      <3>. QED
        BY <1>1, <1>2, <3>1, <3>3 DEF PairAt
    <2>. QED
      BY <2>1, <2>2
  <1>4. \A i \in 1..n : Utf8At(s, i) = Utf8At(t, i)
    BY <1>2, <1>3 DEF Utf8At
  <1>5. Utf8At(s, n + 1) = IF u \in {"high", "low"} THEN <<"broken">> ELSE <<u>>
    <2>1. ~PairAt(t, n + 1) /\ ~PairAt(t, n)
      BY <1>1, <1>2 DEF PairAt
    <2>2. ~PairAt(s, n + 1) /\ ~PairAt(s, n + 1 - 1)
      BY <1>2, <1>3, <2>1
    <2>. QED
      BY <1>2, <2>2 DEF Utf8At
  <1>6. PICK ss, tt : ss = [i \in DOMAIN s |-> Utf8At(s, i)] /\ tt = [i \in DOMAIN t |-> Utf8At(t, i)]
    OBVIOUS
  <1>7. /\ ss \in Seq(Seq(Characters)) /\ Len(ss) = n + 1 /\ ss[n + 1] = Utf8At(s, n + 1)
        /\ tt \in Seq(Seq(Characters)) /\ Len(tt) = n /\ \A i \in 1..n : ss[i] = tt[i]
    <2>1. ss \in Seq(Seq(Characters)) /\ Len(ss) = n + 1 /\ \A i \in 1..n + 1 : ss[i] = Utf8At(s, i)
      BY <1>2, <1>6, Utf8Parts
    <2>2. tt \in Seq(Seq(Characters)) /\ Len(tt) = n /\ \A i \in 1..n : tt[i] = Utf8At(t, i)
      BY <1>1, <1>6, Utf8Parts
    <2>3. n + 1 \in 1..n + 1 /\ \A i \in 1..n : i \in 1..n + 1
      BY <1>2
    <2>. QED
      BY <1>4, <2>1, <2>2, <2>3
  <1>8. FlattenSeq(ss) = FlattenSeq(tt) \o ss[n + 1]
    BY <1>7, JoinedMore
  <1>. QED
    BY <1>1, <1>5, <1>6, <1>7, <1>8 DEF Utf16ToUtf8

\* A pair more.
LEMMA Utf8Pair ==
    ASSUME NEW t \in Seq(KeyUnits)
    PROVE  Utf16ToUtf8(Append(Append(t, "high"), "low")) = Utf16ToUtf8(t) \o <<"pair">>
  <1>1. PICK n, s : n = Len(t) /\ s = Append(Append(t, "high"), "low")
    OBVIOUS
  <1>2. /\ n \in Nat /\ s \in Seq(KeyUnits) /\ Len(s) = n + 2 /\ s[n + 1] = "high" /\ s[n + 2] = "low"
        /\ \A i \in 1..n : s[i] = t[i]
    BY <1>1 DEF KeyUnits
  <1>3. \A i \in 0..n : PairAt(s, i) <=> PairAt(t, i)
    <2>1. ASSUME NEW i \in 0..n PROVE PairAt(s, i) <=> PairAt(t, i)
      <3>1. CASE i = n
        <4>1. ~PairAt(t, i)
          BY <1>1, <1>2, <3>1 DEF PairAt
        <4>2. ~PairAt(s, i)
          BY <1>2, <3>1 DEF PairAt
        <4>. QED
          BY <4>1, <4>2
      <3>2. CASE i # n /\ i # 0
        <4>1. i \in 1..n /\ i + 1 \in 1..n /\ i \in 1..n - 1 /\ i \in 1..n + 2 - 1
          BY <1>2, <3>2
        <4>. QED
          BY <1>1, <1>2, <4>1 DEF PairAt
      <3>3. CASE i = 0
        BY <1>2, <3>3 DEF PairAt
      <3>. QED
        BY <3>1, <3>2, <3>3
    <2>. QED
      BY <2>1
  <1>4. \A i \in 1..n : Utf8At(s, i) = Utf8At(t, i)
    <2>1. ASSUME NEW i \in 1..n PROVE Utf8At(s, i) = Utf8At(t, i)
      <3>1. i \in 0..n /\ i - 1 \in 0..n
        BY <1>2
      <3>. QED
        BY <1>2, <1>3, <3>1 DEF Utf8At
    <2>. QED
      BY <2>1
  <1>5. PairAt(s, n + 1) /\ ~PairAt(s, n + 2)
    BY <1>2 DEF PairAt
  <1>6. Utf8At(s, n + 1) = <<"pair">> /\ Utf8At(s, n + 2) = <<>>
    <2>1. Utf8At(s, n + 1) = <<"pair">>
      <3>1. ~PairAt(s, (n + 1) - 1)
        BY <1>2 DEF PairAt
      <3>. QED
        BY <1>5, <3>1 DEF Utf8At
    <2>2. PairAt(s, (n + 2) - 1)
      BY <1>2 DEF PairAt
    <2>3. Utf8At(s, n + 2) = <<>>
      BY <1>5, <2>2 DEF Utf8At
    <2>. QED
      BY <2>1, <2>3
  <1>7. PICK ss, tt, mm : /\ ss = [i \in DOMAIN s |-> Utf8At(s, i)] /\ tt = [i \in DOMAIN t |-> Utf8At(t, i)]
                          /\ mm = Append(tt, <<"pair">>)
    OBVIOUS
  <1>8. /\ ss \in Seq(Seq(Characters)) /\ Len(ss) = n + 2 /\ ss[n + 2] = <<>> /\ ss[n + 1] = <<"pair">>
        /\ tt \in Seq(Seq(Characters)) /\ Len(tt) = n /\ \A i \in 1..n : ss[i] = tt[i]
    <2>1. ss \in Seq(Seq(Characters)) /\ Len(ss) = n + 2 /\ \A i \in 1..n + 2 : ss[i] = Utf8At(s, i)
      BY <1>2, <1>7, Utf8Parts
    <2>2. tt \in Seq(Seq(Characters)) /\ Len(tt) = n /\ \A i \in 1..n : tt[i] = Utf8At(t, i)
      BY <1>1, <1>7, Utf8Parts
    <2>3. n + 1 \in 1..n + 2 /\ n + 2 \in 1..n + 2 /\ \A i \in 1..n : i \in 1..n + 2
      BY <1>2
    <2>. QED
      BY <1>4, <1>6, <2>1, <2>2, <2>3
  <1>9. <<"pair">> \in Seq(Characters)
    BY DEF Characters
  <1>10. /\ mm \in Seq(Seq(Characters)) /\ Len(mm) = n + 1 /\ mm[n + 1] = <<"pair">> /\ \A i \in 1..n : mm[i] = tt[i]
    <2>1. PICK S, p : S = Seq(Characters) /\ p = <<"pair">>
      OBVIOUS
    <2>2. tt \in Seq(S) /\ p \in S /\ mm = Append(tt, p) /\ Len(tt) = n
      BY <1>7, <1>8, <1>9, <2>1
    <2>3. mm \in Seq(S) /\ Len(mm) = n + 1 /\ mm[n + 1] = p /\ \A i \in 1..n : mm[i] = tt[i]
      BY ONLY <2>2
    <2>. QED
      BY <2>1, <2>3
  <1>11. FlattenSeq(mm) = FlattenSeq(tt) \o <<"pair">>
    BY <1>7, <1>8, <1>9, JoinedAppend
  <1>12. FlattenSeq(ss) = FlattenSeq(mm) \o <<>>
    <2>1. Len(ss) = Len(mm) + 1
      BY <1>2, <1>8, <1>10
    <2>2. \A i \in 1..n : ss[i] = mm[i]
      BY <1>8, <1>10
    <2>3. \A i \in 1..n + 1 : i = n + 1 \/ i \in 1..n
      BY <1>2
    <2>4. ss[n + 1] = mm[n + 1]
      BY <1>8, <1>10
    <2>5. \A i \in 1..Len(mm) : ss[i] = mm[i]
      BY <1>10, <2>2, <2>3, <2>4
    <2>6. ss[Len(ss)] = <<>>
      BY <1>8
    <2>7. FlattenSeq(ss) = FlattenSeq(mm) \o ss[Len(ss)]
      BY <1>8, <1>10, <2>1, <2>5, JoinedMore
    <2>. QED
      BY <2>6, <2>7
  <1>13. FlattenSeq(mm) \o <<>> = FlattenSeq(mm)
    <2>1. FlattenSeq(mm) \in Seq(Characters)
      BY <1>10, JoinedType, Zenon
    <2>. QED
      BY <2>1, ConcatEmptySeq
  <1>. QED
    BY <1>1, <1>7, <1>11, <1>12, <1>13 DEF Utf16ToUtf8

Unbroken(c) == \A i \in 1..Len(c) : c[i] # "broken"

\* A text of the keyboard that becomes UTF-8 without a broken pair is what it
\* was when it is turned back.
LEMMA Utf16Back == \A t \in Seq(KeyUnits) : Unbroken(Utf16ToUtf8(t)) => Utf16Of(Utf16ToUtf8(t)) = t
  <1> DEFINE Back(t) == Unbroken(Utf16ToUtf8(t)) => Utf16Of(Utf16ToUtf8(t)) = t
             Good == {t \in Seq(KeyUnits) : Back(t) /\ \A s \in Seq(KeyUnits), u \in KeyUnits : t = Append(s, u) => Back(s)}
  <1>1. <<>> \in Good
    <2>1. <<>> \in Seq(KeyUnits) /\ Utf16Of(Utf16ToUtf8(<<>>)) = <<>>
      BY Utf8Starts, Utf16Starts
    <2>2. \A s \in Seq(KeyUnits), u \in KeyUnits : <<>> # Append(s, u)
      BY AppendProperties
    <2>. QED
      BY <2>1, <2>2
  <1>2. ASSUME NEW t \in Seq(KeyUnits), NEW u \in KeyUnits, t \in Good PROVE Append(t, u) \in Good
    <2>1. PICK n, c : n = Append(t, u) /\ c = Utf16ToUtf8(t)
      OBVIOUS
    <2>2. n \in Seq(KeyUnits) /\ c \in Seq(Characters)
      BY <2>1, Utf8Type, Zenon, AppendProperties
    <2>3. Back(t) /\ \A s \in Seq(KeyUnits), v \in KeyUnits : t = Append(s, v) => Back(s)
      BY <1>2
    <2>4. Back(n)
      <3>1. CASE u = "low" /\ Len(t) > 0 /\ t[Len(t)] = "high"
        <4>1. PICK s \in Seq(KeyUnits), v \in KeyUnits : t = Append(s, v)
          <5>1. t # <<>>
            BY <3>1
          <5>. QED
            BY <5>1, SequenceEmptyOrAppend
        <4>2. v = "high"
          BY <3>1, <4>1, AppendProperties
        <4>3. Back(s)
          BY <2>3, <4>1
        <4>4. PICK d : d = Utf16ToUtf8(s)
          OBVIOUS
        <4>5. d \in Seq(Characters) /\ "pair" \in Characters
          BY <4>4, Utf8Type, Zenon DEF Characters
        <4>6. Utf16ToUtf8(n) = d \o <<"pair">>
          BY <2>1, <3>1, <4>1, <4>2, <4>4, Utf8Pair
        <4>7. d \o <<"pair">> = Append(d, "pair")
          BY <4>5, AppendIsConcat
        <4>8. Unbroken(Append(d, "pair")) => Unbroken(d)
          <5>1. /\ Len(Append(d, "pair")) = Len(d) + 1 /\ Len(d) \in Nat
                /\ \A i \in 1..Len(d) : Append(d, "pair")[i] = d[i]
            BY <4>5, AppendProperties
          <5>. QED
            BY <5>1 DEF Unbroken
        <4>9. Utf16Of(Append(d, "pair")) = Utf16Of(d) \o <<"high", "low">>
          BY <4>5, Utf16More DEF Utf16Units
        <4>10. s \o <<"high", "low">> = n
          BY <2>1, <3>1, <4>1, <4>2
        <4>. QED
          BY <4>3, <4>4, <4>6, <4>7, <4>8, <4>9, <4>10
      <3>2. CASE ~(u = "low" /\ Len(t) > 0 /\ t[Len(t)] = "high")
        <4>1. PICK x : x = IF u \in {"high", "low"} THEN "broken" ELSE u
          OBVIOUS
        <4>2. x \in Characters /\ (u \notin {"high", "low"} => Utf16Units(x) = <<u>>)
          BY <4>1 DEF Characters, KeyUnits, Utf16Units
        <4>3. Utf16ToUtf8(n) = Append(c, x)
          <5>1. Utf16ToUtf8(n) = c \o (IF u \in {"high", "low"} THEN <<"broken">> ELSE <<u>>)
            BY <2>1, <3>2, Utf8More
          <5>2. (IF u \in {"high", "low"} THEN <<"broken">> ELSE <<u>>) = <<x>>
            BY <4>1
          <5>3. Append(c, x) = c \o <<x>>
            BY <2>2, <4>2, AppendIsConcat
          <5>. QED
            BY <5>1, <5>2, <5>3
        <4>4. /\ Len(Append(c, x)) = Len(c) + 1 /\ Len(c) \in Nat /\ Append(c, x)[Len(c) + 1] = x
              /\ \A i \in 1..Len(c) : Append(c, x)[i] = c[i]
          BY <2>2, <4>2, AppendProperties
        <4>5. Unbroken(Append(c, x)) => Unbroken(c) /\ x # "broken"
          BY <4>4 DEF Unbroken
        <4>6. Utf16Of(Append(c, x)) = Utf16Of(c) \o Utf16Units(x)
          BY <2>2, <4>2, Utf16More
        <4>7. t \o <<u>> = n
          BY <2>1, AppendIsConcat
        <4>. QED
          BY <2>1, <2>3, <4>1, <4>2, <4>3, <4>5, <4>6, <4>7
      <3>. QED
        BY <3>1, <3>2
    <2>5. ASSUME NEW s \in Seq(KeyUnits), NEW v \in KeyUnits, n = Append(s, v) PROVE Back(s)
      <3>1. s = t
        <4>1. Append(s, v) = Append(t, u)
          BY <2>1, <2>5
        <4>2. Append(s, v) = Append(t, u) <=> s = t /\ v = u
          BY AppendInjective
        <4>. QED
          BY <4>1, <4>2
      <3>. QED
        BY <2>3, <3>1
    <2>. QED
      BY <2>1, <2>2, <2>4, <2>5
  <1> HIDE DEF Good
  <1>3. \A t \in Seq(KeyUnits) : t \in Good
    BY <1>1, <1>2, EverySeq
  <1>. QED
    BY <1>3 DEF Good

\* And what was turned into UTF-16 is what it was in UTF-8.
LEMMA Utf8Back == \A c \in Seq(Characters) : Unbroken(c) => Utf16ToUtf8(Utf16Of(c)) = c
  <1> DEFINE Good == {c \in Seq(Characters) : Unbroken(c) => Utf16ToUtf8(Utf16Of(c)) = c}
  <1>1. <<>> \in Good
    BY Utf8Starts, Utf16Starts
  <1>2. ASSUME NEW c \in Seq(Characters), NEW x \in Characters, c \in Good PROVE Append(c, x) \in Good
    <2>1. PICK n, t : n = Append(c, x) /\ t = Utf16Of(c)
      OBVIOUS
    <2>2. t \in Seq(KeyUnits) /\ Utf16Of(n) = t \o Utf16Units(x)
      BY <2>1, Utf16Type, Utf16More, Zenon
    <2>3. n \in Seq(Characters) /\ Len(n) = Len(c) + 1 /\ Len(c) \in Nat /\ n[Len(c) + 1] = x
          /\ \A i \in 1..Len(c) : n[i] = c[i]
      BY <2>1, AppendProperties
    <2>4. Unbroken(n) => Unbroken(c) /\ x # "broken"
      BY <2>3 DEF Unbroken
    <2>5. n = c \o <<x>>
      BY <2>1, AppendIsConcat
    <2>6. CASE x = "pair"
      <3>1. Utf16Of(n) = Append(Append(t, "high"), "low")
        BY <2>2, <2>6 DEF Utf16Units
      <3>2. Utf16ToUtf8(Append(Append(t, "high"), "low")) = Utf16ToUtf8(t) \o <<"pair">>
        BY <2>2, Utf8Pair
      <3>. QED
        BY <1>2, <2>1, <2>3, <2>4, <2>5, <2>6, <3>1, <3>2
    <2>7. CASE x \notin {"pair", "broken"}
      <3>0. x \in KeyUnits /\ x \notin {"high", "low"} /\ Utf16Units(x) = <<x>>
        BY <2>7 DEF Characters, KeyUnits, Utf16Units
      <3>1. Utf16Of(n) = Append(t, x)
        BY <2>2, <3>0, AppendIsConcat
      <3>2. Utf16ToUtf8(Append(t, x)) = Utf16ToUtf8(t) \o <<x>>
        BY <2>2, <3>0, Utf8More
      <3>. QED
        BY <1>2, <2>1, <2>3, <2>4, <2>5, <3>1, <3>2
    <2>8. CASE x = "broken"
      BY <2>1, <2>3, <2>4, <2>8
    <2>. QED
      BY <2>6, <2>7, <2>8
  <1> HIDE DEF Good
  <1>3. \A c \in Seq(Characters) : c \in Good
    BY <1>1, <1>2, EverySeq
  <1>. QED
    BY <1>3 DEF Good

\* What strip leaves: the text between its ends' spaces.
Inked(m) == m = <<>> \/ (m[1] # "space" /\ m[Len(m)] # "space")

LEMMA StripIs ==
    ASSUME NEW T, NEW x \in Seq(T), NEW m \in Seq(T), NEW y \in Seq(T), Blank(x), Blank(y), Inked(m)
    PROVE  strip((x \o m) \o y) = m
  <1>1. PICK a, b, c, t : a = Len(x) /\ b = Len(m) /\ c = Len(y) /\ t = (x \o m) \o y
    OBVIOUS
  <1>2. a \in Nat /\ b \in Nat /\ c \in Nat
    BY <1>1
  <1>3. /\ t \in Seq(T) /\ Len(t) = a + b + c
        /\ \A i \in 1..a + b + c : t[i] = IF i <= a THEN x[i] ELSE IF i <= a + b THEN m[i - a] ELSE y[i - (a + b)]
    <2>1. PICK w : w = x \o m
      OBVIOUS
    <2>2. w \in Seq(T) /\ Len(w) = a + b /\ \A i \in 1..a + b : w[i] = IF i <= a THEN x[i] ELSE m[i - a]
      BY <1>1, <2>1, ConcatProperties
    <2>3. t \in Seq(T) /\ Len(t) = a + b + c /\ \A i \in 1..a + b + c : t[i] = IF i <= a + b THEN w[i] ELSE y[i - (a + b)]
      BY <1>1, <2>1, <2>2, ConcatProperties
    <2>4. ASSUME NEW i \in 1..a + b + c
          PROVE  t[i] = IF i <= a THEN x[i] ELSE IF i <= a + b THEN m[i - a] ELSE y[i - (a + b)]
      BY <1>2, <2>2, <2>3
    <2>. QED
      BY <2>3, <2>4
  <1>4. (\A i \in 1..a : x[i] = "space") /\ (\A i \in 1..c : y[i] = "space")
    <2>1. DOMAIN x = 1..a /\ DOMAIN y = 1..c
      BY <1>1
    <2>. QED
      BY <2>1 DEF Blank
  <1>5. PICK ink : ink = {i \in 1..a + b + c : t[i] # "space"}
    OBVIOUS
  <1>6. strip(t) = IF ink = {} THEN <<>>
                   ELSE SubSeq(t, CHOOSE i \in ink : \A j \in ink : i <= j, CHOOSE i \in ink : \A j \in ink : i >= j)
    BY <1>3, <1>5 DEF strip
  <1>7. \A i \in ink : i \in a + 1..a + b
    <2>1. ASSUME NEW i \in 1..a + b + c, t[i] # "space" PROVE i \in a + 1..a + b
      <3>1. CASE i <= a
        <4>1. t[i] = x[i] /\ i \in 1..a
          BY <1>2, <1>3, <3>1
        <4>. QED
          BY <1>4, <2>1, <4>1
      <3>2. CASE i > a + b
        <4>1. t[i] = y[i - (a + b)] /\ i - (a + b) \in 1..c
          BY <1>2, <1>3, <3>2
        <4>. QED
          BY <1>4, <2>1, <4>1
      <3>. QED
        BY <1>2, <3>1, <3>2
    <2>. QED
      BY <1>5, <2>1
  <1>8. CASE m = <<>>
    <2>1. b = 0
      BY <1>1, <1>8
    <2>2. ink = {}
      BY <1>2, <1>7, <2>1
    <2>. QED
      BY <1>1, <1>6, <1>8, <2>2
  <1>9. CASE m # <<>>
    <2>1. b >= 1 /\ m[1] # "space" /\ m[b] # "space"
      BY <1>1, <1>9 DEF Inked
    <2>2. a + 1 \in ink /\ a + b \in ink
      <3>1. a + 1 \in 1..a + b + c /\ t[a + 1] = m[1] /\ a + b \in 1..a + b + c /\ t[a + b] = m[b]
        BY <1>2, <1>3, <2>1
      <3>. QED
        BY <1>5, <2>1, <3>1
    <2>3. (CHOOSE i \in ink : \A j \in ink : i <= j) = a + 1
      <3>1. \A j \in ink : a + 1 <= j
        BY <1>2, <1>7
      <3>2. \A i \in ink : (\A j \in ink : i <= j) => i = a + 1
        BY <1>2, <1>7, <2>2, <3>1
      <3>. QED
        BY <2>2, <3>1, <3>2
    <2>4. (CHOOSE i \in ink : \A j \in ink : i >= j) = a + b
      <3>1. \A j \in ink : a + b >= j
        BY <1>2, <1>7
      <3>2. \A i \in ink : (\A j \in ink : i >= j) => i = a + b
        BY <1>2, <1>7, <2>2, <3>1
      <3>. QED
        BY <2>2, <3>1, <3>2
    <2>5. strip(t) = SubSeq(t, a + 1, a + b)
      BY <1>6, <2>2, <2>3, <2>4
    <2>6. SubSeq(t, a + 1, a + b) = m
      <3>1. PICK s : s = SubSeq(t, a + 1, a + b)
        OBVIOUS
      <3>2. s \in Seq(T) /\ Len(s) = b /\ \A i \in 1..b : s[i] = t[a + i]
        <4>1. a + 1 \in Int /\ a + b \in Int /\ a + 1 <= a + b
          BY <1>2, <2>1
        <4>2. \A i \in a + 1..a + b : t[i] \in T
          <5>1. \A i \in 1..a + b + c : t[i] \in T
            BY <1>3, ElementOfSeq
          <5>2. \A i \in a + 1..a + b : i \in 1..a + b + c
            BY <1>2
          <5>. QED
            BY <5>1, <5>2
        <4>3. PICK p, q : p = a + 1 /\ q = a + b
          OBVIOUS
        <4>4. p \in Int /\ q \in Int /\ s = SubSeq(t, p, q) /\ \A i \in p..q : t[i] \in T
          BY <3>1, <4>1, <4>2, <4>3
        <4>5. /\ s \in Seq(T) /\ Len(s) = IF p <= q THEN q - p + 1 ELSE 0
              /\ \A i \in 1..q - p + 1 : s[i] = t[p + i - 1]
          BY <4>4, SubSeqProperties
        <4>. QED
          BY <1>2, <4>1, <4>3, <4>5
      <3>3. \A i \in 1..b : s[i] = m[i]
        <4>1. ASSUME NEW i \in 1..b PROVE t[a + i] = m[i]
          <5>1. a + i \in 1..a + b + c /\ ~(a + i <= a) /\ a + i <= a + b /\ (a + i) - a = i
            BY <1>2
          <5>. QED
            BY <1>3, <5>1
        <4>. QED
          BY <3>2, <4>1
      <3>. QED
        BY <1>1, <3>1, <3>2, <3>3, SeqEqual
    <2>. QED
      BY <1>1, <2>5, <2>6
  <1>. QED
    BY <1>8, <1>9

LEMMA StripParts ==
    ASSUME NEW T, NEW c \in Seq(T)
    PROVE  \E x, m, y \in Seq(T) : Blank(x) /\ Blank(y) /\ Inked(m) /\ c = (x \o m) \o y /\ strip(c) = m
  <1> SUFFICES \E x, m, y \in Seq(T) : Blank(x) /\ Blank(y) /\ Inked(m) /\ c = (x \o m) \o y
    BY StripIs
  <1>1. PICK n : n = Len(c) /\ n \in Nat
    OBVIOUS
  <1> DEFINE ink == {i \in 1..n : c[i] # "space"}
  <1>2. CASE ink = {}
    <2>1. Blank(c)
      BY <1>1, <1>2 DEF Blank
    <2>2. <<>> \in Seq(T) /\ Blank(<<>>) /\ Inked(<<>>)
      BY DEF Blank, Inked
    <2>3. (c \o <<>>) \o <<>> = c
      BY ConcatEmptySeq
    <2>. QED
      BY <2>1, <2>2, <2>3
  <1>3. CASE ink # {}
    <2>1. PICK a \in ink : \A j \in ink : a <= j
      <3>1. ink \in SUBSET Nat
        BY <1>1
      <3> HIDE DEF ink
      <3>. QED
        BY <1>3, <3>1, LeastOf
    <2>2. PICK b \in ink : \A j \in ink : j <= b
      <3> DEFINE back == {n - i : i \in ink}
      <3>1. back \in SUBSET Nat /\ back # {}
        BY <1>1, <1>3
      <3>2. PICK k \in back : \A j \in back : k <= j
        <4> HIDE DEF back
        <4>. QED
          BY <3>1, LeastOf
      <3>3. PICK b \in ink : k = n - b
        BY <3>2
      <3>4. \A j \in ink : n - b <= n - j
        BY <3>2, <3>3
      <3>5. \A j \in ink : j <= b
        BY <1>1, <3>3, <3>4
      <3>. QED
        BY <3>3, <3>5
    <2>3. /\ a \in 1..n /\ b \in 1..n /\ a <= b /\ c[a] # "space" /\ c[b] # "space"
          /\ \A i \in 1..n : c[i] # "space" => a <= i /\ i <= b
      BY <2>1, <2>2
    <2> HIDE DEF ink
    <2>4. PICK x, m, y, w : x = SubSeq(c, 1, a - 1) /\ m = SubSeq(c, a, b) /\ y = SubSeq(c, b + 1, n) /\ w = SubSeq(c, 1, b)
      OBVIOUS
    <2>5. \A i \in 1..n : c[i] \in T
      BY <1>1, ElementOfSeq
    <2>6. x \in Seq(T) /\ Len(x) = a - 1 /\ \A i \in 1..a - 1 : x[i] = c[i]
      <3>1. 1 \in Int /\ a - 1 \in Int /\ \A i \in 1..a - 1 : c[i] \in T
        BY <1>1, <2>3, <2>5
      <3>2. /\ x \in Seq(T) /\ Len(x) = IF 1 <= a - 1 THEN a - 1 - 1 + 1 ELSE 0
            /\ \A i \in 1..a - 1 - 1 + 1 : x[i] = c[1 + i - 1]
        BY <2>4, <3>1, SubSeqProperties
      <3>. QED
        BY <1>1, <2>3, <3>2
    <2>7. m \in Seq(T) /\ Len(m) = b - a + 1 /\ \A i \in 1..b - a + 1 : m[i] = c[a + i - 1]
      <3>1. a \in Int /\ b \in Int /\ \A i \in a..b : c[i] \in T
        BY <1>1, <2>3, <2>5
      <3>2. /\ m \in Seq(T) /\ Len(m) = IF a <= b THEN b - a + 1 ELSE 0
            /\ \A i \in 1..b - a + 1 : m[i] = c[a + i - 1]
        BY <2>4, <3>1, SubSeqProperties
      <3>. QED
        BY <1>1, <2>3, <3>2
    <2>8. y \in Seq(T) /\ Len(y) = n - b /\ \A i \in 1..n - b : y[i] = c[b + i]
      <3>1. b + 1 \in Int /\ n \in Int /\ \A i \in b + 1..n : c[i] \in T
        BY <1>1, <2>3, <2>5
      <3>2. /\ y \in Seq(T) /\ Len(y) = IF b + 1 <= n THEN n - (b + 1) + 1 ELSE 0
            /\ \A i \in 1..n - (b + 1) + 1 : y[i] = c[b + 1 + i - 1]
        BY <2>4, <3>1, SubSeqProperties
      <3>. QED
        BY <1>1, <2>3, <3>2
    <2>9. Blank(x) /\ Blank(y)
      <3>1. \A i \in 1..a - 1 : x[i] = "space"
        BY <1>1, <2>3, <2>6
      <3>2. \A i \in 1..n - b : y[i] = "space"
        BY <1>1, <2>3, <2>8
      <3>. QED
        BY <2>6, <2>8, <3>1, <3>2 DEF Blank
    <2>10. Inked(m)
      <3>1. m[1] = c[a] /\ m[b - a + 1] = c[b]
        BY <1>1, <2>3, <2>7
      <3>. QED
        BY <2>3, <2>7, <3>1 DEF Inked
    <2>11. (x \o m) \o y = c
      <3>1. x \o m = w
        <4>1. 1 \in 1..Len(c) + 1 /\ a - 1 \in 1 - 1..Len(c) /\ b \in a - 1..Len(c) /\ (a - 1) + 1 = a
          BY <1>1, <2>3
        <4>2. SubSeq(c, 1, a - 1) \o SubSeq(c, (a - 1) + 1, b) = SubSeq(c, 1, b)
          BY <4>1, ConcatAdjacentSubSeq
        <4>. QED
          BY <2>4, <4>1, <4>2
      <3>2. w \o y = c
        <4>1. 1 \in 1..Len(c) + 1 /\ b \in 1 - 1..Len(c) /\ n \in b..Len(c)
          BY <1>1, <2>3
        <4>2. SubSeq(c, 1, b) \o SubSeq(c, b + 1, n) = SubSeq(c, 1, n)
          BY <4>1, ConcatAdjacentSubSeq
        <4>3. SubSeq(c, 1, n) = c
          BY <1>1, SubSeqFull
        <4>. QED
          BY <2>4, <4>2, <4>3
      <3>. QED
        BY <3>1, <3>2
    <2>. QED
      BY <2>6, <2>7, <2>8, <2>9, <2>10, <2>11
  <1>. QED
    BY <1>2, <1>3

LEMMA StripType == \A T : \A c \in Seq(T) : strip(c) \in Seq(T)
  BY StripParts

\* Turned into UTF-16, spaces stay what they are and nothing else becomes one.
LEMMA Utf16Blank == \A c \in Seq(Characters) : Blank(c) => Utf16Of(c) = c
  <1> DEFINE Good == {c \in Seq(Characters) : Blank(c) => Utf16Of(c) = c}
  <1>1. <<>> \in Good
    BY Utf16Starts
  <1>2. ASSUME NEW c \in Seq(Characters), NEW x \in Characters, c \in Good PROVE Append(c, x) \in Good
    <2>1. PICK n : n = Append(c, x)
      OBVIOUS
    <2>2. n \in Seq(Characters) /\ Len(n) = Len(c) + 1 /\ Len(c) \in Nat /\ n[Len(c) + 1] = x
          /\ (\A i \in 1..Len(c) : n[i] = c[i]) /\ n = c \o <<x>>
      BY <2>1, AppendProperties, AppendIsConcat
    <2>3. DOMAIN n = 1..Len(c) + 1 /\ DOMAIN c = 1..Len(c)
      BY <2>2
    <2>4. Blank(n) => Blank(c) /\ x = "space"
      BY <2>2, <2>3 DEF Blank
    <2>5. x = "space" => Utf16Units(x) = <<x>>
      BY DEF Utf16Units
    <2>6. Utf16Of(n) = Utf16Of(c) \o Utf16Units(x)
      BY <2>1, Utf16More
    <2>. QED
      BY <1>2, <2>1, <2>2, <2>4, <2>5, <2>6
  <1> HIDE DEF Good
  <1>3. \A c \in Seq(Characters) : c \in Good
    BY <1>1, <1>2, EverySeq
  <1>. QED
    BY <1>3 DEF Good

LEMMA Utf16Inked == \A m \in Seq(Characters) : Inked(m) => Inked(Utf16Of(m))
  <1> SUFFICES ASSUME NEW m \in Seq(Characters), Inked(m) PROVE Inked(Utf16Of(m))
    OBVIOUS
  <1>1. CASE m = <<>>
    BY <1>1, Utf16Starts DEF Inked
  <1>2. CASE m # <<>>
    <2>1. m[1] # "space" /\ m[Len(m)] # "space"
      BY <1>2 DEF Inked
    <2>2. \A x \in Characters : x # "space" =>
              /\ Utf16Units(x) \in Seq(KeyUnits) /\ Len(Utf16Units(x)) \in Nat \ {0}
              /\ Utf16Units(x)[1] # "space" /\ Utf16Units(x)[Len(Utf16Units(x))] # "space"
      <3>1. ASSUME NEW x \in Characters, x # "space"
            PROVE  /\ Len(Utf16Units(x)) \in Nat \ {0}
                   /\ Utf16Units(x)[1] # "space" /\ Utf16Units(x)[Len(Utf16Units(x))] # "space"
        <4>1. CASE x = "pair"
          BY <4>1 DEF Utf16Units
        <4>2. CASE x = "broken"
          BY <4>2 DEF Utf16Units
        <4>3. CASE x # "pair" /\ x # "broken"
          BY <3>1, <4>3 DEF Utf16Units
        <4>. QED
          BY <4>1, <4>2, <4>3
      <3>. QED
        BY <3>1, Utf16UnitsType
    <2>3. PICK u : u = Utf16Of(m)
      OBVIOUS
    <2>4. u \in Seq(KeyUnits) /\ Len(u) \in Nat \ {0} /\ u[Len(u)] # "space"
      <3>1. PICK s \in Seq(Characters), x \in Characters : m = Append(s, x)
        BY <1>2, SequenceEmptyOrAppend
      <3>2. x = m[Len(m)]
        BY <3>1, AppendProperties
      <3>3. PICK v, w : v = Utf16Of(s) /\ w = Utf16Units(x)
        OBVIOUS
      <3>4. v \in Seq(KeyUnits) /\ w \in Seq(KeyUnits) /\ Len(w) \in Nat \ {0} /\ w[Len(w)] # "space"
        BY <2>1, <2>2, <3>2, <3>3, Utf16Type
      <3>5. u = v \o w
        BY <2>3, <3>1, <3>3, Utf16More
      <3>6. /\ u \in Seq(KeyUnits) /\ Len(u) = Len(v) + Len(w) /\ Len(v) \in Nat
            /\ \A i \in 1..Len(v) + Len(w) : u[i] = IF i <= Len(v) THEN v[i] ELSE w[i - Len(v)]
        BY <3>4, <3>5, ConcatProperties
      <3>7. u[Len(v) + Len(w)] = w[Len(w)]
        BY <3>4, <3>6
      <3>. QED
        BY <3>4, <3>6, <3>7
    <2>5. u[1] # "space"
      <3>1. PICK h, t : h = Head(m) /\ t = Tail(m)
        OBVIOUS
      <3>2. h \in Characters /\ t \in Seq(Characters) /\ h = m[1] /\ m = <<h>> \o t
        <4>1. h \in Characters /\ t \in Seq(Characters) /\ h = m[1]
          BY <1>2, <3>1, HeadTailProperties
        <4>2. m = <<h>> \o t
          <5>1. SubSeq(m, 1, Len(m)) = <<m[1]>> \o SubSeq(m, 2, Len(m))
            <6>1. Len(m) \in Nat \ {0}
              BY <1>2, EmptySeq
            <6>2. 1 \in 1..Len(m) /\ Len(m) \in 1..Len(m)
              BY <6>1
            <6>3. SubSeq(m, 1, Len(m)) = <<m[1]>> \o SubSeq(m, 1 + 1, Len(m))
              BY <6>2, SubSeqRecursiveFirst
            <6>. QED
              BY <6>3
          <5>2. t = SubSeq(m, 2, Len(m))
            BY <1>2, <3>1, TailIsSubSeq
          <5>. QED
            BY <4>1, <5>1, <5>2, SubSeqFull
        <4>. QED
          BY <4>1, <4>2
      <3>3. PICK v, w : v = Utf16Units(h) /\ w = Utf16Of(t)
        OBVIOUS
      <3>4. v \in Seq(KeyUnits) /\ w \in Seq(KeyUnits) /\ Len(v) \in Nat \ {0} /\ v[1] # "space"
        BY <2>1, <2>2, <3>2, <3>3, Utf16Type
      <3>5. u = v \o w
        <4>1. <<h>> \in Seq(Characters)
          BY <3>2
        <4>2. Utf16Of(<<h>> \o t) = Utf16Of(<<h>>) \o Utf16Of(t)
          BY <3>2, <4>1, Utf16Both, Zenon
        <4>. QED
          BY <2>3, <3>2, <3>3, <4>2, Utf16One
      <3>6. \A i \in 1..Len(v) + Len(w) : u[i] = IF i <= Len(v) THEN v[i] ELSE w[i - Len(v)]
        BY <3>4, <3>5, ConcatProperties
      <3>7. Len(w) \in Nat
        BY <3>4
      <3>8. u[1] = v[1]
        BY <3>4, <3>6, <3>7
      <3>. QED
        BY <3>4, <3>8
    <2>. QED
      BY <2>3, <2>4, <2>5 DEF Inked
  <1>. QED
    BY <1>1, <1>2

\* Stripping is the same before and behind the conversion.
LEMMA Utf16Stripped == \A c \in Seq(Characters) : Utf16Of(strip(c)) = strip(Utf16Of(c))
  <1> SUFFICES ASSUME NEW c \in Seq(Characters) PROVE Utf16Of(strip(c)) = strip(Utf16Of(c))
    OBVIOUS
  <1>1. PICK x \in Seq(Characters), m \in Seq(Characters), y \in Seq(Characters) :
            Blank(x) /\ Blank(y) /\ Inked(m) /\ c = (x \o m) \o y /\ strip(c) = m
    BY StripParts
  <1>2. PICK u : u = Utf16Of(m)
    OBVIOUS
  <1>3. u \in Seq(KeyUnits) /\ Inked(u)
    BY <1>1, <1>2, Utf16Type, Utf16Inked
  <1>4. Utf16Of(x) = x /\ Utf16Of(y) = y /\ x \in Seq(KeyUnits) /\ y \in Seq(KeyUnits)
    BY <1>1, Utf16Blank, Utf16Type
  <1>5. Utf16Of(c) = (x \o u) \o y
    <2>1. x \o m \in Seq(Characters)
      BY ConcatProperties
    <2>2. Utf16Of((x \o m) \o y) = Utf16Of(x \o m) \o Utf16Of(y)
      BY <2>1, Utf16Both, Zenon
    <2>3. Utf16Of(x \o m) = Utf16Of(x) \o Utf16Of(m)
      BY Utf16Both, Zenon
    <2>. QED
      BY <1>1, <1>2, <1>4, <2>2, <2>3
  <1>6. strip((x \o u) \o y) = u
    BY <1>1, <1>3, <1>4, StripIs
  <1>. QED
    BY <1>1, <1>2, <1>5, <1>6

\* What strip takes is no broken pair.
LEMMA StripUnbroken == \A c \in Seq(Characters) : Unbroken(strip(c)) => Unbroken(c)
  <1> SUFFICES ASSUME NEW c \in Seq(Characters), Unbroken(strip(c)) PROVE Unbroken(c)
    OBVIOUS
  <1>1. PICK x \in Seq(Characters), m \in Seq(Characters), y \in Seq(Characters) :
            Blank(x) /\ Blank(y) /\ Inked(m) /\ c = (x \o m) \o y /\ strip(c) = m
    BY StripParts
  <1>2. PICK w : w = x \o m
    OBVIOUS
  <1>3. \A i \in 1..Len(x) : x[i] # "broken"
    <2>1. DOMAIN x = 1..Len(x)
      OBVIOUS
    <2>. QED
      BY <1>1, <2>1 DEF Blank
  <1>4. \A i \in 1..Len(y) : y[i] # "broken"
    <2>1. DOMAIN y = 1..Len(y)
      OBVIOUS
    <2>. QED
      BY <1>1, <2>1 DEF Blank
  <1>5. \A i \in 1..Len(m) : m[i] # "broken"
    BY <1>1 DEF Unbroken
  <1>6. w \in Seq(Characters) /\ Len(w) = Len(x) + Len(m) /\ \A i \in 1..Len(w) : w[i] # "broken"
    <2>1. /\ w \in Seq(Characters) /\ Len(w) = Len(x) + Len(m) /\ Len(x) \in Nat /\ Len(m) \in Nat
          /\ \A i \in 1..Len(x) + Len(m) : w[i] = IF i <= Len(x) THEN x[i] ELSE m[i - Len(x)]
      BY <1>2, ConcatProperties
    <2>2. ASSUME NEW i \in 1..Len(w) PROVE w[i] # "broken"
      <3>1. CASE i <= Len(x)
        BY <1>3, <2>1, <3>1
      <3>2. CASE ~(i <= Len(x))
        <4>1. i - Len(x) \in 1..Len(m) /\ w[i] = m[i - Len(x)]
          BY <2>1, <3>2
        <4>. QED
          BY <1>5, <4>1
      <3>. QED
        BY <3>1, <3>2
    <2>. QED
      BY <2>1, <2>2
  <1>7. \A i \in 1..Len(c) : c[i] # "broken"
    <2>1. /\ Len(c) = Len(w) + Len(y) /\ Len(w) \in Nat /\ Len(y) \in Nat
          /\ \A i \in 1..Len(w) + Len(y) : c[i] = IF i <= Len(w) THEN w[i] ELSE y[i - Len(w)]
      BY <1>1, <1>2, <1>6, ConcatProperties
    <2>2. ASSUME NEW i \in 1..Len(c) PROVE c[i] # "broken"
      <3>1. CASE i <= Len(w)
        BY <1>6, <2>1, <3>1
      <3>2. CASE ~(i <= Len(w))
        <4>1. i - Len(w) \in 1..Len(y) /\ c[i] = y[i - Len(w)]
          BY <2>1, <3>2
        <4>. QED
          BY <1>4, <4>1
      <3>. QED
        BY <3>1, <3>2
    <2>. QED
      BY <2>2
  <1>. QED
    BY <1>7 DEF Unbroken

\* The dialog's text is an option's while nobody has typed, and the flags say
\* whose the dialog is.
KeyboardInv ==
    /\ dialog \in [is : {"none", "running", "finished", "cancelled"},
                   asker : {"nobody", "chat"} \cup EditedOptions, text : Seq(KeyUnits)]
    /\ chatOpen \in BOOLEAN /\ inputOpen \in BOOLEAN /\ waiting \subseteq EditedOptions \cup {"chat"}
    /\ option \in [EditedOptions -> Seq(Characters)]
    /\ OneKeyboard /\ NothingEmpty
    /\ dialog.is = "running" /\ dialog.asker \in EditedOptions => dialog.text = InitialText(dialog.asker)

LEMMA OptionsDiffer == "chat" \notin EditedOptions /\ "nobody" \notin EditedOptions /\ TextLimit \in Nat \ {0}
  BY ChatKeyboardAssumption DEF ChatKeyboardAssumption

LEMMA CutUnits == \A u \in Seq(KeyUnits) : /\ SubSeq(u, 1, IF Len(u) < TextLimit THEN Len(u) ELSE TextLimit) \in Seq(KeyUnits)
                                           /\ Len(u) <= TextLimit => SubSeq(u, 1, IF Len(u) < TextLimit THEN Len(u) ELSE TextLimit) = u
  <1> SUFFICES ASSUME NEW u \in Seq(KeyUnits)
               PROVE  /\ SubSeq(u, 1, IF Len(u) < TextLimit THEN Len(u) ELSE TextLimit) \in Seq(KeyUnits)
                      /\ Len(u) <= TextLimit => SubSeq(u, 1, IF Len(u) < TextLimit THEN Len(u) ELSE TextLimit) = u
    OBVIOUS
  <1>1. PICK n, k : n = Len(u) /\ k = IF Len(u) < TextLimit THEN Len(u) ELSE TextLimit
    OBVIOUS
  <1>2. n \in Nat /\ k \in Nat /\ k <= n /\ (n <= TextLimit => k = n)
    BY <1>1, OptionsDiffer
  <1>3. SubSeq(u, 1, k) \in Seq(KeyUnits)
    <2>1. 1 \in Int /\ k \in Int /\ \A i \in 1..k : u[i] \in KeyUnits
      <3>1. \A i \in 1..n : u[i] \in KeyUnits
        BY <1>1, ElementOfSeq
      <3>. QED
        BY <1>2, <3>1
    <2>. QED
      BY <2>1, SubSeqProperties
  <1>4. SubSeq(u, 1, n) = u
    BY <1>1, SubSeqFull
  <1>. QED
    BY <1>1, <1>2, <1>3, <1>4

LEMMA InitialIs ==
    ASSUME option \in [EditedOptions -> Seq(Characters)], NEW o \in EditedOptions
    PROVE  /\ InitialText(o) \in Seq(KeyUnits)
           /\ o # Secret /\ Len(Utf16Of(option[o])) <= TextLimit => InitialText(o) = Utf16Of(option[o])
  <1>1. PICK u : u = IF o = Secret THEN <<>> ELSE Utf16Of(option[o])
    OBVIOUS
  <1>2. u \in Seq(KeyUnits)
    <2>1. option[o] \in Seq(Characters) /\ <<>> \in Seq(KeyUnits)
      OBVIOUS
    <2>2. Utf16Of(option[o]) \in Seq(KeyUnits)
      BY <2>1, Utf16Type, Zenon
    <2>. QED
      BY <1>1, <2>1, <2>2
  <1>3. InitialText(o) = SubSeq(u, 1, IF Len(u) < TextLimit THEN Len(u) ELSE TextLimit)
    BY <1>1 DEF InitialText
  <1>4. /\ SubSeq(u, 1, IF Len(u) < TextLimit THEN Len(u) ELSE TextLimit) \in Seq(KeyUnits)
        /\ Len(u) <= TextLimit => SubSeq(u, 1, IF Len(u) < TextLimit THEN Len(u) ELSE TextLimit) = u
    BY <1>2, CutUnits, Zenon
  <1>5. o # Secret => u = Utf16Of(option[o])
    BY <1>1
  <1>. QED
    BY <1>3, <1>4, <1>5, Zenon

LEMMA KeyboardStarts == KeyboardInit => KeyboardInv
  <1> SUFFICES ASSUME KeyboardInit PROVE KeyboardInv
    OBVIOUS
  <1>1. /\ dialog = NoDialog /\ chatOpen = FALSE /\ inputOpen = FALSE /\ waiting = {} /\ sentText = {}
        /\ option \in [EditedOptions -> {<<"a">>, <<"pair">>, <<"a", "pair">>}]
    BY DEF KeyboardInit
  <1>2. \A c \in {<<"a">>, <<"pair">>, <<"a", "pair">>} : c \in Seq(Characters) /\ c # <<>>
    <2>1. "a" \in Characters /\ "pair" \in Characters
      BY DEF Characters
    <2>2. /\ <<"a">> \in Seq(Characters) /\ <<"pair">> \in Seq(Characters) /\ <<"a", "pair">> \in Seq(Characters)
          /\ <<"a">> # <<>> /\ <<"pair">> # <<>> /\ <<"a", "pair">> # <<>>
      BY <2>1
    <2>. QED
      BY <2>2
  <1>3. option \in [EditedOptions -> Seq(Characters)]
    BY <1>1, <1>2
  <1>4. NothingEmpty
    BY <1>1, <1>2 DEF NothingEmpty
  <1>5. OneKeyboard
    BY <1>1, OptionsDiffer DEF OneKeyboard, NoDialog
  <1>6. /\ dialog \in [is : {"none", "running", "finished", "cancelled"},
                       asker : {"nobody", "chat"} \cup EditedOptions, text : Seq(KeyUnits)]
        /\ dialog.is # "running"
    BY <1>1 DEF NoDialog
  <1>. QED
    BY <1>1, <1>3, <1>4, <1>5, <1>6 DEF KeyboardInv

LEMMA KeyboardTyped == ASSUME KeyboardInv PROVE Typed \in Seq(Characters)
  <1>1. dialog.text \in Seq(KeyUnits)
    BY DEF KeyboardInv
  <1>2. Utf16ToUtf8(dialog.text) \in Seq(Characters) /\ <<>> \in Seq(Characters)
    BY <1>1, Utf8Type, Zenon, EmptySeq
  <1>. QED
    BY <1>2 DEF Typed

\* A menu's thread that waits has the keyboard.
LEMMA WhoWaits ==
    ASSUME KeyboardInv
    PROVE  /\ "chat" \in waiting => chatOpen /\ ~inputOpen /\ waiting = {"chat"}
           /\ \A o \in EditedOptions : o \in waiting => inputOpen /\ ~chatOpen /\ waiting = {o} /\ dialog.asker = o
           /\ ~IsOpen => waiting = {} /\ dialog.asker = "nobody"
  <1>1. dialog.asker \in {"nobody", "chat"} \cup EditedOptions
    BY DEF KeyboardInv
  <1>. QED
    BY <1>1, OptionsDiffer DEF KeyboardInv, OneKeyboard, IsOpen

LEMMA OpenChatInv ==
    ASSUME KeyboardInv, NEW team \in BOOLEAN, OpenChatKeyboard(team)
    PROVE  KeyboardInv'
  <1>1. /\ ~IsOpen /\ inputOpen' = inputOpen /\ option' = option /\ sentText' = sentText
        /\ \/ dialog' = [is |-> "running", asker |-> "chat", text |-> <<>>] /\ chatOpen' = TRUE /\ waiting' = waiting \cup {"chat"}
           \/ chatOpen' = FALSE /\ dialog' = dialog /\ waiting' = waiting
    BY DEF OpenChatKeyboard, textInput
  <1>2. ~chatOpen /\ ~inputOpen /\ dialog.asker = "nobody"
    BY <1>1, WhoWaits DEF IsOpen
  <1>3. waiting = {}
    BY <1>1, WhoWaits
  <1>4. NothingEmpty'
    BY <1>1 DEF KeyboardInv, NothingEmpty
  <1>5. CASE dialog' = [is |-> "running", asker |-> "chat", text |-> <<>>] /\ chatOpen' = TRUE /\ waiting' = waiting \cup {"chat"}
    <2>1. OneKeyboard'
      BY <1>1, <1>2, <1>3, <1>5, OptionsDiffer DEF OneKeyboard
    <2>2. /\ dialog' \in [is : {"none", "running", "finished", "cancelled"},
                          asker : {"nobody", "chat"} \cup EditedOptions, text : Seq(KeyUnits)]
          /\ dialog'.asker \notin EditedOptions
      BY <1>5, OptionsDiffer
    <2>. QED
      BY <1>1, <1>4, <1>5, <2>1, <2>2 DEF KeyboardInv
  <1>6. CASE chatOpen' = FALSE /\ dialog' = dialog /\ waiting' = waiting
    BY <1>1, <1>2, <1>4, <1>6, OptionsDiffer DEF KeyboardInv, OneKeyboard
  <1>. QED
    BY <1>1, <1>5, <1>6

LEMMA OpenInputInv ==
    ASSUME KeyboardInv, NEW o \in EditedOptions, OpenTextInput(o)
    PROVE  KeyboardInv'
  <1>1. /\ ~IsOpen /\ chatOpen' = chatOpen /\ option' = option /\ sentText' = sentText
        /\ \/ dialog' = [is |-> "running", asker |-> o, text |-> InitialText(o)] /\ inputOpen' = TRUE /\ waiting' = waiting \cup {o}
           \/ inputOpen' = FALSE /\ dialog' = dialog /\ waiting' = waiting
    BY DEF OpenTextInput, chatInput
  <1>2. ~chatOpen /\ ~inputOpen /\ waiting = {} /\ dialog.asker = "nobody"
    BY <1>1, WhoWaits DEF IsOpen
  <1>3. PICK t : t = InitialText(o)
    OBVIOUS
  <1>4. NothingEmpty'
    BY <1>1 DEF KeyboardInv, NothingEmpty
  <1>5. CASE dialog' = [is |-> "running", asker |-> o, text |-> InitialText(o)] /\ inputOpen' = TRUE /\ waiting' = waiting \cup {o}
    <2>0. t \in Seq(KeyUnits)
      BY <1>3, InitialIs DEF KeyboardInv
    <2>1. OneKeyboard'
      <3>1. waiting' \subseteq {o}
        BY <1>2, <1>5
      <3>2. dialog'.asker = o
        BY <1>5
      <3>. QED
        BY <1>1, <1>2, <1>5, <3>1, <3>2, OptionsDiffer DEF OneKeyboard
    <2>2. /\ dialog' \in [is : {"none", "running", "finished", "cancelled"},
                          asker : {"nobody", "chat"} \cup EditedOptions, text : Seq(KeyUnits)]
          /\ dialog'.asker = o /\ dialog'.text = t
      BY <1>3, <1>5, <2>0
    <2>3. InitialText(o)' = t
      BY <1>1, <1>3 DEF InitialText
    <2>4. InitialText(dialog.asker)' = t
      BY <1>1, <1>3, <2>2 DEF InitialText
    <2>. QED
      BY <1>1, <1>4, <1>5, <2>1, <2>2, <2>4 DEF KeyboardInv
  <1>6. CASE inputOpen' = FALSE /\ dialog' = dialog /\ waiting' = waiting
    <2>1. OneKeyboard'
      BY <1>1, <1>2, <1>6, OptionsDiffer DEF KeyboardInv, OneKeyboard
    <2>2. dialog'.asker \notin EditedOptions
      BY <1>2, <1>6, OptionsDiffer
    <2>. QED
      BY <1>1, <1>4, <1>6, <2>1, <2>2 DEF KeyboardInv
  <1>. QED
    BY <1>1, <1>5, <1>6

LEMMA UpdateChatInv == ASSUME KeyboardInv, UpdateChatKeyboard PROVE KeyboardInv'
  <1>1. "chat" \in waiting /\ chatOpen /\ ~inputOpen /\ waiting = {"chat"}
    BY WhoWaits DEF UpdateChatKeyboard
  <1>2. /\ waiting' = waiting \ {"chat"} /\ chatOpen' = FALSE /\ dialog' = NoDialog
        /\ inputOpen' = inputOpen /\ option' = option
        /\ IF Blank(Typed) THEN UNCHANGED sentText ELSE NS_PreSendMessage(Typed)
    BY <1>1 DEF UpdateChatKeyboard, textInput
  <1>3. PICK c : c = Typed
    OBVIOUS
  <1>4. \A m \in sentText' : ~Blank(m.text)
    <2>1. \A m \in sentText : ~Blank(m.text)
      BY DEF KeyboardInv, NothingEmpty
    <2>2. CASE Blank(c)
      BY <1>2, <1>3, <2>1, <2>2
    <2>3. CASE ~Blank(c)
      <3>1. NS_PreSendMessage(c)
        BY <1>2, <1>3, <2>3
      <3>2. \/ sentText' = sentText
            \/ \E by \in {"script", "engine"} : sentText' = sentText \cup {[text |-> c, team |-> chatTeam, by |-> by]}
        BY <3>1 DEF NS_PreSendMessage
      <3>. QED
        BY <2>1, <2>3, <3>2
    <2>. QED
      BY <2>2, <2>3
  <1>5. NothingEmpty'
    BY <1>2, <1>4 DEF KeyboardInv, NothingEmpty
  <1>6. OneKeyboard'
    BY <1>1, <1>2, OptionsDiffer DEF OneKeyboard, NoDialog
  <1>7. /\ dialog' \in [is : {"none", "running", "finished", "cancelled"},
                        asker : {"nobody", "chat"} \cup EditedOptions, text : Seq(KeyUnits)]
        /\ dialog'.is # "running"
    BY <1>2 DEF NoDialog
  <1>. QED
    BY <1>1, <1>2, <1>5, <1>6, <1>7 DEF KeyboardInv

\* Of an option that is set, its new text is what was typed, stripped.
LEMMA InputSets ==
    ASSUME KeyboardInv, NEW o \in EditedOptions, UpdateTextInput(o)
    PROVE  /\ inputOpen /\ ~chatOpen /\ waiting = {o} /\ dialog.asker = o /\ dialog.is # "running"
           /\ waiting' = {} /\ inputOpen' = FALSE /\ chatOpen' = chatOpen /\ dialog' = NoDialog /\ sentText' = sentText
           /\ \/ option' = option
              \/ /\ dialog.is = "finished" /\ Sets(o, strip(Utf16ToUtf8(dialog.text)))
                 /\ option' = [option EXCEPT ![o] = strip(Utf16ToUtf8(dialog.text))]
  <1>1. inputOpen /\ ~chatOpen /\ waiting = {o} /\ dialog.asker = o
    BY WhoWaits DEF UpdateTextInput
  <1>2. /\ dialog.is # "running" /\ waiting' = {} /\ inputOpen' = FALSE /\ chatOpen' = chatOpen
        /\ dialog' = NoDialog /\ sentText' = sentText
    BY <1>1 DEF UpdateTextInput, chatInput
  <1>3. option' = IF dialog.is = "finished" /\ Sets(o, strip(Typed)) THEN [option EXCEPT ![o] = strip(Typed)] ELSE option
    BY <1>1 DEF UpdateTextInput
  <1>4. dialog.is = "finished" => Typed = Utf16ToUtf8(dialog.text)
    BY DEF Typed
  <1>. QED
    BY <1>1, <1>2, <1>3, <1>4

LEMMA UpdateInputInv ==
    ASSUME KeyboardInv, NEW o \in EditedOptions, UpdateTextInput(o)
    PROVE  KeyboardInv'
  <1>1. PICK c : c = strip(Utf16ToUtf8(dialog.text))
    OBVIOUS
  <1>2. c \in Seq(Characters)
    <2>1. dialog.text \in Seq(KeyUnits)
      BY DEF KeyboardInv
    <2>2. Utf16ToUtf8(dialog.text) \in Seq(Characters)
      BY <2>1, Utf8Type, Zenon
    <2>. QED
      BY <1>1, <2>2, StripType, Zenon
  <1>3. /\ inputOpen /\ ~chatOpen /\ waiting = {o} /\ dialog.asker = o
        /\ waiting' = {} /\ inputOpen' = FALSE /\ chatOpen' = chatOpen /\ dialog' = NoDialog /\ sentText' = sentText
        /\ option' = option \/ (Sets(o, c) /\ option' = [option EXCEPT ![o] = c])
    BY <1>1, InputSets
  <1>4. option \in [EditedOptions -> Seq(Characters)]
    BY DEF KeyboardInv
  <1>5. option' \in [EditedOptions -> Seq(Characters)]
    BY <1>2, <1>3, <1>4
  <1>6. NothingEmpty'
    <2>1. (Required \in EditedOptions => option[Required] # <<>>) /\ \A m \in sentText : ~Blank(m.text)
      BY DEF KeyboardInv, NothingEmpty
    <2>2. Required \in EditedOptions => option'[Required] # <<>>
      BY <1>3, <1>4, <2>1 DEF Sets
    <2>. QED
      BY <1>3, <2>1, <2>2 DEF NothingEmpty
  <1>7. OneKeyboard'
    BY <1>3, OptionsDiffer DEF OneKeyboard, NoDialog
  <1>8. /\ dialog' \in [is : {"none", "running", "finished", "cancelled"},
                        asker : {"nobody", "chat"} \cup EditedOptions, text : Seq(KeyUnits)]
        /\ dialog'.is # "running"
    BY <1>3 DEF NoDialog
  <1>9. chatOpen' \in BOOLEAN /\ inputOpen' \in BOOLEAN /\ waiting' \subseteq EditedOptions \cup {"chat"}
    BY <1>3 DEF KeyboardInv
  <1>. QED
    BY <1>5, <1>6, <1>7, <1>8, <1>9 DEF KeyboardInv

LEMMA TypeInv == ASSUME KeyboardInv, Type PROVE KeyboardInv'
  <1>1. /\ dialog.is = "running" /\ waiting' = waiting /\ chatOpen' = chatOpen /\ inputOpen' = inputOpen
        /\ option' = option /\ sentText' = sentText
    BY DEF Type, chatInput, textInput
  <1>2. \A t \in TypedTexts(TextLimit) : t \in Seq(KeyUnits)
    <2>1. \A t \in TypedTexts(TextLimit) : t \in BoundedSeq({"a", "space", "high", "low"}, TextLimit)
      BY DEF TypedTexts
    <2>2. \A t \in BoundedSeq({"a", "space", "high", "low"}, TextLimit) :
              \E m \in 0..TextLimit : t \in [1..m -> {"a", "space", "high", "low"}]
      BY DEF BoundedSeq, SeqOf
    <2>3. \A m \in 0..TextLimit : \A t \in [1..m -> {"a", "space", "high", "low"}] : t \in Seq(KeyUnits)
      <3>1. ASSUME NEW m \in 0..TextLimit, NEW t \in [1..m -> {"a", "space", "high", "low"}] PROVE t \in Seq(KeyUnits)
        <4>1. m \in Nat /\ t \in [1..m -> KeyUnits]
          BY OptionsDiffer DEF KeyUnits
        <4>. QED
          BY <4>1
      <3>. QED
        BY <3>1
    <2>. QED
      BY <2>1, <2>2, <2>3
  <1>3. PICK is \in {"finished", "cancelled"}, t \in Seq(KeyUnits) :
            dialog' = [dialog EXCEPT !.is = is, !.text = t]
    <2>1. CASE \E t \in TypedTexts(TextLimit) : dialog' = [dialog EXCEPT !.is = "finished", !.text = t]
      BY <1>2, <2>1
    <2>2. CASE \E is \in {"finished", "cancelled"} : dialog' = [dialog EXCEPT !.is = is]
      <3>1. PICK is \in {"finished", "cancelled"} : dialog' = [dialog EXCEPT !.is = is]
        BY <2>2
      <3>2. dialog.text \in Seq(KeyUnits) /\ [dialog EXCEPT !.is = is] = [dialog EXCEPT !.is = is, !.text = dialog.text]
        BY DEF KeyboardInv
      <3>. QED
        BY <3>1, <3>2
    <2>. QED
      BY <2>1, <2>2 DEF Type
  <1>4. /\ dialog' \in [is : {"none", "running", "finished", "cancelled"},
                        asker : {"nobody", "chat"} \cup EditedOptions, text : Seq(KeyUnits)]
        /\ dialog'.is # "running" /\ dialog'.asker = dialog.asker
    BY <1>3 DEF KeyboardInv
  <1>5. OneKeyboard' /\ NothingEmpty'
    BY <1>1, <1>4 DEF KeyboardInv, OneKeyboard, NothingEmpty
  <1>. QED
    BY <1>1, <1>4, <1>5 DEF KeyboardInv

LEMMA KeyboardStep == KeyboardInv /\ [KeyboardNext]_keyboardVars => KeyboardInv'
  <1> SUFFICES ASSUME KeyboardInv, [KeyboardNext]_keyboardVars PROVE KeyboardInv'
    OBVIOUS
  <1>1. CASE /\ UNCHANGED <<dialog, chatOpen, inputOpen, option, sentText>> /\ waiting' \in {waiting, {}}
    <2>1. OneKeyboard' /\ NothingEmpty' /\ waiting' \subseteq EditedOptions \cup {"chat"}
      BY <1>1 DEF KeyboardInv, OneKeyboard, NothingEmpty
    <2>2. dialog.asker \in EditedOptions => InitialText(dialog.asker)' = InitialText(dialog.asker)
      BY <1>1 DEF InitialText
    <2>. QED
      BY <1>1, <2>1, <2>2 DEF KeyboardInv
  <1>2. CASE MatchChanges \/ UiVmEnds \/ UNCHANGED keyboardVars
    BY <1>1, <1>2 DEF MatchChanges, UiVmEnds, keyboardVars, chatInput, textInput
  <1>. QED
    BY <1>2, TypeInv, UpdateChatInv, OpenChatInv, OpenInputInv, UpdateInputInv DEF KeyboardNext

LEMMA KeyboardSound == KeyboardInv => KeyboardTypeOK /\ KeyboardInvariant
  <1> SUFFICES ASSUME KeyboardInv PROVE KeyboardTypeOK /\ KeyboardInvariant
    OBVIOUS
  <1>1. KeyboardTypeOK
    BY DEF KeyboardInv, KeyboardTypeOK, Characters
  <1>2. FitsAsItIs
    <2> SUFFICES ASSUME NEW o \in EditedOptions, Untouched(o), Len(Utf16Of(option[o])) <= TextLimit,
                        "broken" \notin ToSet(option[o])
                 PROVE  Utf16ToUtf8(dialog.text) = option[o]
      BY DEF FitsAsItIs
    <2>1. dialog.text = InitialText(o)
      BY DEF KeyboardInv, Untouched
    <2>2. InitialText(o) = Utf16Of(option[o])
      BY InitialIs DEF KeyboardInv, Untouched
    <2>3. option[o] \in Seq(Characters)
      BY DEF KeyboardInv
    <2>4. Unbroken(option[o])
      BY <2>3 DEF Unbroken, ToSet
    <2>5. Utf16ToUtf8(Utf16Of(option[o])) = option[o]
      BY <2>3, <2>4, Utf8Back, Zenon
    <2>. QED
      BY <2>1, <2>2, <2>5
  <1>. QED
    BY <1>1, <1>2 DEF KeyboardInv, KeyboardInvariant

\* What was typed goes to the option it was asked for.
LEMMA StepToItsAsker == KeyboardInv /\ [KeyboardNext]_keyboardVars => [TextToItsAsker]_keyboardVars
  <1> SUFFICES ASSUME KeyboardInv, [KeyboardNext]_keyboardVars PROVE [TextToItsAsker]_keyboardVars
    OBVIOUS
  <1>1. CASE option' = option
    BY <1>1 DEF TextToItsAsker
  <1>2. ASSUME NEW o \in EditedOptions, UpdateTextInput(o), option' # option PROVE TextToItsAsker
    <2>1. PICK t, u, c : t = dialog.text /\ u = Utf16ToUtf8(t) /\ c = strip(u)
      OBVIOUS
    <2>2. dialog.asker = o /\ dialog.is = "finished" /\ option' = [option EXCEPT ![o] = c]
      BY <1>2, <2>1, InputSets
    <2>3. option \in [EditedOptions -> Seq(Characters)] /\ t \in Seq(KeyUnits)
      BY <2>1 DEF KeyboardInv
    <2>4. u \in Seq(Characters) /\ c \in Seq(Characters)
      BY <2>1, <2>3, Utf8Type, StripType, Zenon
    <2>5. "broken" \notin ToSet(c) => Utf16Of(c) = strip(t)
      <3>1. "broken" \notin ToSet(c) => Unbroken(c)
        BY <2>4 DEF Unbroken, ToSet
      <3>2. Unbroken(c) => Unbroken(u)
        BY <2>1, <2>4, StripUnbroken
      <3>3. Unbroken(u) => Utf16Of(u) = t
        BY <2>1, <2>3, Utf16Back
      <3>4. Utf16Of(c) = strip(Utf16Of(u))
        BY <2>1, <2>4, Utf16Stripped
      <3>. QED
        BY <3>1, <3>2, <3>3, <3>4
    <2>6. \A p \in EditedOptions : option'[p] # option[p] => p = o /\ option'[p] = c
      BY <2>2, <2>3
    <2>. QED
      BY <2>1, <2>2, <2>5, <2>6 DEF TextToItsAsker
  <1>. QED
    BY <1>1, <1>2 DEF KeyboardNext, Type, MatchChanges, UiVmEnds, UpdateChatKeyboard, OpenChatKeyboard, OpenTextInput,
                      chatInput, textInput, keyboardVars

-----------------------------------------------------------------------------
(* How often a symbol stands in a text.                                     *)

Once(e, x) == IF e = x THEN 1 ELSE 0

LEMMA CountFinite ==
    \A T : \A s \in Seq(T) : \A x : IsFiniteSet({i \in DOMAIN s : s[i] = x}) /\ Count(s, x) \in Nat
  <1> SUFFICES ASSUME NEW T, NEW s \in Seq(T), NEW x
               PROVE  IsFiniteSet({i \in DOMAIN s : s[i] = x}) /\ Count(s, x) \in Nat
    OBVIOUS
  <1>1. {i \in DOMAIN s : s[i] = x} \subseteq 1..Len(s) /\ Len(s) \in Nat
    OBVIOUS
  <1>2. IsFiniteSet(1..Len(s))
    BY <1>1, FS_Interval
  <1>3. IsFiniteSet({i \in DOMAIN s : s[i] = x})
    BY <1>1, <1>2, FS_Subset
  <1>. QED
    BY <1>3, FS_CardinalityType DEF Count

LEMMA CountZero ==
    \A T : \A s \in Seq(T) : \A x : Count(s, x) = 0 <=> \A i \in 1..Len(s) : s[i] # x
  <1> SUFFICES ASSUME NEW T, NEW s \in Seq(T), NEW x
               PROVE  Count(s, x) = 0 <=> \A i \in 1..Len(s) : s[i] # x
    OBVIOUS
  <1> DEFINE S == {i \in DOMAIN s : s[i] = x}
  <1>1. IsFiniteSet(S) /\ DOMAIN s = 1..Len(s)
    <2>1. IsFiniteSet(S)
      BY CountFinite, Zenon
    <2>. QED
      BY <2>1
  <1>2. Cardinality(S) = 0 <=> S = {}
    <2> HIDE DEF S
    <2>. QED
      BY <1>1, FS_EmptySet
  <1>. QED
    BY <1>1, <1>2 DEF Count

LEMMA CountNothing == \A x : Count(<<>>, x) = 0
  <1> SUFFICES ASSUME NEW x PROVE Count(<<>>, x) = 0
    OBVIOUS
  <1>1. <<>> \in Seq({}) /\ Len(<<>>) = 0
    OBVIOUS
  <1>2. \A i \in 1..0 : <<>>[i] # x
    OBVIOUS
  <1>3. Count(<<>>, x) = 0 <=> \A i \in 1..Len(<<>>) : <<>>[i] # x
    BY <1>1, CountZero, Zenon
  <1>. QED
    BY <1>1, <1>2, <1>3

LEMMA CountMore ==
    \A T : \A s \in Seq(T), e \in T : \A x : Count(Append(s, e), x) = Count(s, x) + Once(e, x)
  <1> SUFFICES ASSUME NEW T, NEW s \in Seq(T), NEW e \in T, NEW x
               PROVE  Count(Append(s, e), x) = Count(s, x) + Once(e, x)
    OBVIOUS
  <1>1. PICK t : t = Append(s, e)
    OBVIOUS
  <1>2. /\ t \in Seq(T) /\ Len(t) = Len(s) + 1 /\ t[Len(s) + 1] = e /\ Len(s) \in Nat
        /\ \A i \in 1..Len(s) : t[i] = s[i]
        /\ DOMAIN t = 1..Len(s) + 1 /\ DOMAIN s = 1..Len(s)
    BY <1>1
  <1>3. PICK S : S = {i \in DOMAIN s : s[i] = x}
    OBVIOUS
  <1>4. /\ IsFiniteSet(S) /\ Count(s, x) = Cardinality(S) /\ Cardinality(S) \in Nat
        /\ Len(s) + 1 \notin S
    <2>1. Len(s) + 1 \notin S
      BY <1>2, <1>3
    <2>. QED
      BY <1>3, <2>1, CountFinite, FS_CardinalityType DEF Count
  <1>5. CASE e = x
    <2>1. {i \in DOMAIN t : t[i] = x} = S \cup {Len(s) + 1}
      BY <1>2, <1>3, <1>5
    <2>2. Cardinality(S \cup {Len(s) + 1}) = Cardinality(S) + 1
      BY <1>4, FS_AddElement
    <2>3. Count(t, x) = Cardinality(S) + 1 /\ Once(e, x) = 1
      BY <1>5, <2>1, <2>2 DEF Count, Once
    <2>. QED
      BY <1>1, <1>4, <2>3
  <1>6. CASE e # x
    <2>1. {i \in DOMAIN t : t[i] = x} = S
      BY <1>2, <1>3, <1>6
    <2>2. Count(t, x) = Cardinality(S) /\ Once(e, x) = 0
      BY <1>6, <2>1 DEF Count, Once
    <2>. QED
      BY <1>1, <1>4, <2>2
  <1>. QED
    BY <1>5, <1>6

LEMMA CountOne == \A e, x : Count(<<e>>, x) = Once(e, x)
  <1> SUFFICES ASSUME NEW e, NEW x PROVE Count(<<e>>, x) = Once(e, x)
    OBVIOUS
  <1>1. <<>> \in Seq({e}) /\ e \in {e} /\ <<e>> = Append(<<>>, e)
    OBVIOUS
  <1>2. Count(Append(<<>>, e), x) = Count(<<>>, x) + Once(e, x)
    BY <1>1, CountMore, Zenon
  <1>3. Count(<<>>, x) = 0 /\ Once(e, x) \in Nat
    BY CountNothing DEF Once
  <1>. QED
    BY <1>1, <1>2, <1>3

LEMMA CountBoth ==
    \A T : \A s, t \in Seq(T) : \A x : Count(s \o t, x) = Count(s, x) + Count(t, x)
  <1> SUFFICES ASSUME NEW T, NEW s \in Seq(T), NEW t \in Seq(T), NEW x
               PROVE  Count(s \o t, x) = Count(s, x) + Count(t, x)
    OBVIOUS
  <1> DEFINE G == {u \in Seq(T) : Count(s \o u, x) = Count(s, x) + Count(u, x)}
  <1>0. Count(s, x) \in Nat
    BY CountFinite, Zenon
  <1>1. <<>> \in G
    <2>1. s \o <<>> = s /\ <<>> \in Seq(T) /\ Count(<<>>, x) = 0 /\ Count(s, x) = Count(s, x) + 0
      BY <1>0, CountNothing, ConcatEmptySeq
    <2>. QED
      BY <2>1, Zenon
  <1>2. ASSUME NEW u \in Seq(T), NEW e \in T, u \in G PROVE Append(u, e) \in G
    <2>1. s \o u \in Seq(T) /\ s \o Append(u, e) = Append(s \o u, e) /\ Append(u, e) \in Seq(T)
      OBVIOUS
    <2>2. Count(Append(s \o u, e), x) = Count(s \o u, x) + Once(e, x)
      BY <2>1, CountMore, Zenon
    <2>3. Count(Append(u, e), x) = Count(u, x) + Once(e, x)
      BY CountMore, Zenon
    <2>4. Count(u, x) \in Nat /\ Once(e, x) \in Nat
      <3>1. Count(u, x) \in Nat
        BY CountFinite, Zenon
      <3>. QED
        BY <3>1 DEF Once
    <2>5. Count(s \o u, x) = Count(s, x) + Count(u, x)
      BY <1>2
    <2>6. Count(s \o Append(u, e), x) = Count(s, x) + Count(Append(u, e), x)
      <3>1. Count(Append(s \o u, e), x) = Count(s, x) + (Count(u, x) + Once(e, x))
        BY <1>0, <2>2, <2>4, <2>5
      <3>. QED
        BY <2>1, <2>3, <3>1
    <2>. QED
      BY <2>1, <2>6, Zenon
  <1>3. t \in G
    <2> HIDE DEF G
    <2>. QED
      BY <1>1, <1>2, EverySeq
  <1>. QED
    BY <1>3

\* Sequences of which each has x as often as one symbol of a text is x have it
\* together as often as the text.
LEMMA CountJoined ==
    ASSUME NEW T, NEW U, NEW x
    PROVE  \A ss \in Seq(Seq(T)) : \A s \in Seq(U) :
               Len(s) = Len(ss) /\ (\A i \in 1..Len(s) : Count(ss[i], x) = Once(s[i], x)) =>
                   Count(FlattenSeq(ss), x) = Count(s, x)
  <1> DEFINE Alike(ss, s) == Len(s) = Len(ss) /\ (\A i \in 1..Len(s) : Count(ss[i], x) = Once(s[i], x))
             G == {ss \in Seq(Seq(T)) : \A s \in Seq(U) : Alike(ss, s) => Count(FlattenSeq(ss), x) = Count(s, x)}
  <1>1. <<>> \in G
    <2>1. <<>> \in Seq(Seq(T)) /\ \A s \in Seq(U) : Alike(<<>>, s) => s = <<>>
      BY EmptySeq
    <2>2. Count(FlattenSeq(<<>>), x) = Count(<<>>, x)
      BY JoinedNone, Zenon
    <2> HIDE DEF Alike
    <2>. QED
      BY <2>1, <2>2
  <1>2. ASSUME NEW ss \in Seq(Seq(T)), NEW e \in Seq(T), ss \in G PROVE Append(ss, e) \in G
    <2>1. /\ Append(ss, e) \in Seq(Seq(T)) /\ Len(Append(ss, e)) = Len(ss) + 1 /\ Len(ss) \in Nat
          /\ Append(ss, e)[Len(ss) + 1] = e /\ \A i \in 1..Len(ss) : Append(ss, e)[i] = ss[i]
      OBVIOUS
    <2>2. ASSUME NEW s \in Seq(U), Alike(Append(ss, e), s)
          PROVE  Count(FlattenSeq(Append(ss, e)), x) = Count(s, x)
      <3>1. Len(s) = Len(ss) + 1 /\ Len(s) # 0 /\ s # <<>>
        BY <2>1, <2>2
      <3>2. PICK u : u = SubSeq(s, 1, Len(ss))
        OBVIOUS
      <3>3. /\ u \in Seq(U) /\ Len(u) = Len(ss) /\ \A i \in 1..Len(ss) : u[i] = s[i]
            /\ s[Len(s)] \in U /\ s = Append(u, s[Len(s)])
        <4>1. /\ \A i \in 1..Len(ss) : s[i] \in U
              /\ s[Len(s)] \in U
          BY <2>1, <3>1
        <4>2. u \in Seq(U) /\ Len(u) = Len(ss) /\ \A i \in 1..Len(ss) : u[i] = s[i]
          BY <2>1, <3>1, <3>2
        <4>3. Append(u, s[Len(s)]) \in Seq(U) /\ Len(Append(u, s[Len(s)])) = Len(s)
          BY <2>1, <3>1, <4>1, <4>2
        <4>4. \A i \in 1..Len(s) : Append(u, s[Len(s)])[i] = s[i]
          BY <2>1, <3>1, <4>1, <4>2
        <4>5. s = Append(u, s[Len(s)])
          BY <4>3, <4>4, SeqEqual
        <4>. QED
          BY <4>1, <4>2, <4>5
      <3>4. Alike(ss, u)
        <4>1. ASSUME NEW i \in 1..Len(u) PROVE Count(ss[i], x) = Once(u[i], x)
          <5>1. i \in 1..Len(ss) /\ i \in 1..Len(s)
            BY <2>1, <3>1, <3>3
          <5>2. Append(ss, e)[i] = ss[i] /\ u[i] = s[i] /\ Count(Append(ss, e)[i], x) = Once(s[i], x)
            BY <2>1, <2>2, <3>3, <5>1
          <5>. QED
            BY <5>2, Zenon
        <4>. QED
          BY <3>3, <4>1
      <3>5. Count(FlattenSeq(ss), x) = Count(u, x)
        <4> HIDE DEF Alike
        <4>. QED
          BY <1>2, <3>3, <3>4
      <3>6. Count(e, x) = Once(s[Len(s)], x)
        <4>1. Len(s) \in 1..Len(s) /\ Append(ss, e)[Len(s)] = e
          BY <2>1, <3>1
        <4>. QED
          BY <2>2, <4>1
      <3>7. FlattenSeq(Append(ss, e)) = FlattenSeq(ss) \o e /\ FlattenSeq(ss) \in Seq(T)
        BY JoinedAppend, JoinedType, Zenon
      <3>8. Count(FlattenSeq(ss) \o e, x) = Count(FlattenSeq(ss), x) + Count(e, x)
        BY <3>7, CountBoth, Zenon
      <3>9. Count(Append(u, s[Len(s)]), x) = Count(u, x) + Once(s[Len(s)], x)
        BY <3>3, CountMore, Zenon
      <3>. QED
        BY <3>3, <3>5, <3>6, <3>7, <3>8, <3>9, Zenon
    <2>. QED
      BY <2>1, <2>2
  <1>3. \A ss \in Seq(Seq(T)) : ss \in G
    <2> HIDE DEF G
    <2>. QED
      BY <1>1, <1>2, EverySeq
  <1>. QED
    BY <1>3

-----------------------------------------------------------------------------
(* Chat messages' text (ChatText)                                           *)

ShownOps ==
    [kind : {"text"}, is : Seq(Kinds)] \cup [kind : {"char"}, is : {<<NewLine>>}]
    \cup [kind : {"swatch"}, is : {<<n>> : n \in {"main", "sameTeam", "enemyTeam", "network"}}]
    \cup [kind : {"colour"}, is : Seq(Int)]

\* The text keeps its length and its one terminator, a byte is blanked or as it
\* came, and the place the code is at lies in it.
TextPlaced ==
    /\ given \in ChatTexts
    /\ text \in Seq(Kinds \cup {End}) /\ Len(text) = Len(given) + 1 /\ text[Len(text)] = End
    /\ \A i \in 1..Len(given) : text[i] \in {given[i], Space}
    /\ at \in 1..Len(text) /\ stage \in {"clean", "write", "escape", "shown"}
    /\ stage = "clean" => \A i \in at..Len(given) : text[i] = given[i]

\* What follows is the continuation bytes from the place on.
LEMMA SymbolsDiffer ==
    /\ End \notin Kinds /\ \A s \in Kinds : s # End
    /\ \A s : Trailing(s) \in {0, 1, 2, 4}
    /\ Trailing(Space) = 0 /\ Trailing("cont") = 0 /\ Trailing(End) = 0 /\ Trailing(Escape) = 0
    /\ Trailing(Bracket) = 0 /\ Trailing("lead2") = 1 /\ Trailing("control") = 0
    /\ \A s : Trailing(s) # 0 => s \in {"lead2", "surrogate", "lead5"}
  BY DEF End, Kinds, Escape, Bracket, Separator, Letter, NewLine, Space, Numbers, Trailing

LEMMA TextLeads ==
    \A s : Trailing(s) > 0 => s \notin {"control", "cont"} /\ s # Escape
  BY DEF Trailing, Escape

LEMMA TextTypes ==
    ASSUME TextPlaced
    PROVE  /\ given \in Seq(Kinds) /\ Len(given) \in Nat
           /\ \A i \in 1..Len(given) : given[i] \in Kinds /\ text[i] \in Kinds /\ text[i] # End
           /\ \A i \in 1..Len(text) : text[i] # End <=> i \in 1..Len(given)
           /\ at \in Nat /\ at >= 1 /\ at <= Len(given) + 1
  <1>1. given \in Seq(Kinds)
    BY ChatTextsAssumption DEF TextPlaced, ChatTextsAssumption
  <1>2. Len(given) \in Nat /\ DOMAIN given = 1..Len(given)
    BY <1>1
  <1>3. \A i \in 1..Len(given) : given[i] \in Kinds /\ text[i] \in Kinds
    <2>1. Space \in Kinds
      BY DEF Kinds
    <2>. QED
      BY <1>1, <2>1, ElementOfSeq DEF TextPlaced
  <1>4. \A i \in 1..Len(given) : text[i] # End
    BY <1>3, SymbolsDiffer
  <1>5. \A i \in 1..Len(text) : text[i] # End <=> i \in 1..Len(given)
    <2>1. Len(text) = Len(given) + 1 /\ text[Len(text)] = End
      BY DEF TextPlaced
    <2>. QED
      BY <1>2, <1>4, <2>1
  <1>6. at \in Nat /\ at >= 1 /\ at <= Len(given) + 1
    <2>1. Len(text) = Len(given) + 1 /\ at \in 1..Len(text)
      BY DEF TextPlaced
    <2>. QED
      BY <1>2, <2>1
  <1>. QED
    BY <1>1, <1>2, <1>3, <1>4, <1>5, <1>6

\* Follow: it exists, and what follows lies before the terminator.
LEMMA FollowIs ==
    ASSUME TextPlaced, NEW i \in 1..Len(given)
    PROVE  /\ Follow(i) \in 0..Trailing(text[i]) /\ i + Follow(i) \in 1..Len(given)
           /\ \A j \in 1..Follow(i) : text[i + j] = "cont"
           /\ Follow(i) = Trailing(text[i]) \/ text[i + Follow(i) + 1] # "cont"
  <1> DEFINE S == {k \in 0..Trailing(text[i]) : k = Trailing(text[i]) \/ text[i + k + 1] # "cont"}
             Is(k) == /\ \A j \in 1..k : text[i + j] = "cont"
                      /\ k = Trailing(text[i]) \/ text[i + k + 1] # "cont"
  <1>1. Trailing(text[i]) \in Nat
    <2>1. Trailing(text[i]) \in {0, 1, 2, 4}
      BY SymbolsDiffer, Zenon
    <2>. QED
      BY <2>1
  <1>2. PICK k \in S : \A m \in S : k <= m
    <2>1. S \in SUBSET Nat /\ Trailing(text[i]) \in S
      BY <1>1
    <2> HIDE DEF S
    <2>. QED
      BY <2>1, LeastOf
  <1>3. k \in 0..Trailing(text[i]) /\ Is(k)
    <2>1. ASSUME NEW j \in 1..k PROVE text[i + j] = "cont"
      <3>1. j - 1 \in 0..Trailing(text[i]) /\ j - 1 # Trailing(text[i]) /\ i + (j - 1) + 1 = i + j /\ ~(k <= j - 1)
        BY <1>1, <1>2
      <3>2. j - 1 \notin S
        BY <1>2, <3>1
      <3>. QED
        BY <3>1, <3>2
    <2>. QED
      BY <1>2, <2>1
  <1>4. PICK f : f = Follow(i)
    OBVIOUS
  <1>5. f \in 0..Trailing(text[i]) /\ Is(f)
    <2>1. f = CHOOSE m \in 0..Trailing(text[i]) : Is(m)
      BY <1>4 DEF Follow
    <2> HIDE DEF Is
    <2>. QED
      BY <1>3, <2>1
  <1>6. i + f \in 1..Len(given)
    <2>0. /\ i \in Nat /\ i >= 1 /\ i <= Len(given) /\ f \in Nat /\ Len(given) \in Nat
          /\ Len(text) = Len(given) + 1 /\ text[Len(text)] # "cont"
      <3>1. Len(given) \in Nat /\ i \in Nat /\ i >= 1 /\ i <= Len(given)
        BY TextTypes
      <3>2. Len(text) = Len(given) + 1 /\ text[Len(text)] # "cont"
        BY DEF TextPlaced, End
      <3>. QED
        BY <1>1, <1>5, <3>1, <3>2
    <2>1. CASE i + f > Len(given)
      <3>1. Len(given) + 1 - i \in 1..f /\ i + (Len(given) + 1 - i) = Len(text)
        BY <2>0, <2>1
      <3>. QED
        BY <1>5, <2>0, <3>1
    <2>. QED
      BY <2>0, <2>1
  <1>. QED
    BY <1>4, <1>5, <1>6

\* A pass blanks bytes of the text's own, behind the terminator's none.
LEMMA BlankedPlaced ==
    ASSUME TextPlaced, NEW i \in 1..Len(given), NEW j \in 0..Len(given)
    PROVE  LET t == Blanked(i, j)
           IN  /\ t \in Seq(Kinds \cup {End}) /\ Len(t) = Len(text) /\ t[Len(t)] = End
               /\ \A k \in 1..Len(text) : t[k] = IF k \in i..j THEN Space ELSE text[k]
               /\ \A k \in 1..Len(given) : t[k] \in {given[k], Space}
  <1>1. PICK t, n, S : t = Blanked(i, j) /\ n = Len(given) /\ S = Kinds \cup {End}
    OBVIOUS
  <1>2. /\ text \in Seq(S) /\ Len(text) = n + 1 /\ text[n + 1] = End /\ n \in Nat /\ Space \in S
        /\ i \in 1..n /\ j \in 0..n
    <2>1. n \in Nat
      BY <1>1, TextTypes
    <2>2. text \in Seq(S) /\ Len(text) = n + 1 /\ text[n + 1] = End
      BY <1>1 DEF TextPlaced
    <2>3. Space \in S
      BY <1>1 DEF Kinds
    <2>. QED
      BY <1>1, <2>1, <2>2, <2>3
  <1>3. DOMAIN text = 1..n + 1 /\ \A k \in 1..n + 1 : text[k] \in S
    BY ONLY <1>2
  <1>4. t = [k \in 1..n + 1 |-> IF k \in i..j THEN Space ELSE text[k]]
    BY <1>1, <1>3 DEF Blanked
  <1>5. \A k \in 1..n + 1 : t[k] = (IF k \in i..j THEN Space ELSE text[k])
    BY ONLY <1>4
  <1>6. \A k \in 1..n + 1 : t[k] \in S
    BY ONLY <1>2, <1>3, <1>5
  <1>7. t \in Seq(S) /\ Len(t) = n + 1
    BY ONLY <1>2, <1>4, <1>6
  <1>8. t[n + 1] = End
    BY ONLY <1>2, <1>5
  <1>9. \A k \in 1..n : t[k] \in {given[k], Space}
    <2>1. \A k \in 1..n : text[k] \in {given[k], Space}
      BY <1>1 DEF TextPlaced
    <2>2. \A k \in 1..n : k \in 1..n + 1
      BY ONLY <1>2
    <2>. QED
      BY ONLY <1>5, <2>1, <2>2
  <1>. QED
    BY <1>1, <1>2, <1>5, <1>7, <1>8, <1>9

LEMMA TextStarts == ChatTextInit => TextPlaced
  <1> SUFFICES ASSUME ChatTextInit PROVE TextPlaced
    OBVIOUS
  <1>1. given \in Seq(Kinds) /\ given \in Seq(Kinds \cup {End}) /\ text = Append(given, End)
    <2>1. given \in Seq(Kinds)
      BY ChatTextsAssumption DEF ChatTextsAssumption, ChatTextInit
    <2>. QED
      BY <2>1, SeqMonotonic DEF ChatTextInit
  <1>2. /\ text \in Seq(Kinds \cup {End}) /\ Len(text) = Len(given) + 1 /\ text[Len(given) + 1] = End
        /\ \A i \in 1..Len(given) : text[i] = given[i]
    BY <1>1
  <1>. QED
    BY <1>1, <1>2 DEF ChatTextInit, TextPlaced

\* A pass: what it blanks, and where it goes on.
LEMMA CleanPlaced ==
    ASSUME TextPlaced, Clean
    PROVE  TextPlaced'
  <1>1. /\ text[at] # End /\ text' = CleanedAt(at) /\ at' = After(at)
        /\ given' = given /\ stage' = stage
    BY DEF Clean
  <1>2. at \in 1..Len(given) /\ Len(given) \in Nat /\ Len(text) = Len(given) + 1
    BY <1>1, TextTypes DEF TextPlaced
  <1>3. at + Follow(at) \in 1..Len(given) /\ Follow(at) \in Nat
    <2>1. /\ Follow(at) \in 0..Trailing(text[at]) /\ at + Follow(at) \in 1..Len(given)
      BY <1>2, FollowIs
    <2>2. Trailing(text[at]) \in {0, 1, 2, 4}
      BY SymbolsDiffer, Zenon
    <2>. QED
      BY <2>1, <2>2
  <1>4. text[at] = Escape => IF IsColour(text, at) THEN at + 1 \in 1..Len(given) ELSE at + 2 \in 1..Len(given)
    <2>1. IsColour(text, at) => at < Len(text) /\ text[at + 1] = Bracket
      BY DEF IsColour
    <2>2. Bracket # End /\ text[Len(text)] = End
      BY DEF Bracket, End, TextPlaced
    <2>3. ~RunsOver
      BY DEF Clean
    <2>. QED
      BY <1>2, <2>1, <2>2, <2>3 DEF RunsOver
  <1>5. \/ text' = text
        \/ \E i \in 1..Len(given), j \in 0..Len(given) : text' = Blanked(i, j) /\ j < at'
    <2>1. CASE Trailing(text[at]) > 0 /\ Follow(at) < Trailing(text[at])
      <3>0. text[at] \notin {"control", "cont"} /\ text[at] # Escape
        BY <2>1, TextLeads
      <3>1. text' = Blanked(at, at + Follow(at)) /\ at' = at + Follow(at) + 1
        BY <1>1, <2>1, <3>0 DEF CleanedAt, After
      <3>. QED
        BY <1>2, <1>3, <3>1
    <2>2. CASE ~(Trailing(text[at]) > 0 /\ Follow(at) < Trailing(text[at])) /\ text[at] \in {"control", "cont"}
      <3>0. Trailing(text[at]) = 0 /\ text[at] # Escape
        BY <2>2, SymbolsDiffer DEF Escape
      <3>1. text' = Blanked(at, at) /\ at' = at + 1
        BY <1>1, <2>2, <3>0 DEF CleanedAt, After
      <3>. QED
        BY <1>2, <3>1
    <2>3. CASE ~(Trailing(text[at]) > 0 /\ Follow(at) < Trailing(text[at])) /\ text[at] = Escape /\ ~IsColour(text, at)
      <3>0. Trailing(text[at]) = 0
        BY <2>3, SymbolsDiffer
      <3>1. text' = Blanked(at + 2, at + 2) /\ at' = at + 3
        BY <1>1, <2>3, <3>0 DEF CleanedAt, After, Escape
      <3>. QED
        BY <1>2, <1>4, <2>3, <3>1
    <2>4. CASE ~(Trailing(text[at]) > 0 /\ Follow(at) < Trailing(text[at])) /\ text[at] \notin {"control", "cont"}
               /\ ~(text[at] = Escape /\ ~IsColour(text, at))
      <3>1. text' = text
        BY <1>1, <2>4 DEF CleanedAt
      <3>. QED
        BY <3>1
    <2>. QED
      BY <2>1, <2>2, <2>3, <2>4
  <1>6. /\ text' \in Seq(Kinds \cup {End}) /\ Len(text') = Len(text) /\ text'[Len(text')] = End
        /\ \A i \in 1..Len(given) : text'[i] \in {given[i], Space}
    <2>1. CASE text' = text
      BY <2>1 DEF TextPlaced
    <2>2. ASSUME NEW i \in 1..Len(given), NEW j \in 0..Len(given), text' = Blanked(i, j)
          PROVE  /\ text' \in Seq(Kinds \cup {End}) /\ Len(text') = Len(text) /\ text'[Len(text')] = End
                 /\ \A k \in 1..Len(given) : text'[k] \in {given[k], Space}
      BY <2>2, BlankedPlaced
    <2>. QED
      BY <1>5, <2>1, <2>2
  <1>7. at' \in 1..Len(text)
    <2>1. CASE Trailing(text[at]) > 0
      <3>0. text[at] # Escape
        BY <2>1, TextLeads
      <3>1. at' = at + Follow(at) + 1
        BY <1>1, <2>1, <3>0 DEF After
      <3>. QED
        BY <1>2, <1>3, <3>1
    <2>2. CASE ~(Trailing(text[at]) > 0) /\ text[at] = Escape
      <3>1. at' = IF IsColour(text, at) THEN at + 2 ELSE at + 3
        BY <1>1, <2>2 DEF After
      <3>. QED
        BY <1>2, <1>4, <2>2, <3>1
    <2>3. CASE ~(Trailing(text[at]) > 0) /\ text[at] # Escape
      <3>1. at' = at + 1
        BY <1>1, <2>3 DEF After
      <3>. QED
        BY <1>2, <3>1
    <2>. QED
      BY <2>1, <2>2, <2>3
  <1>8. Len(text)' = Len(text') /\ Len(given)' = Len(given)
    BY <1>1
  <1>9. at' >= at /\ at' \in Nat
    <2>1. Trailing(text[at]) > 0 => text[at] # Escape
      BY TextLeads
    <2>2. at' \in {at + Follow(at) + 1, at + 2, at + 3, at + 1}
      BY <1>1, <2>1 DEF After
    <2>. QED
      BY <1>2, <1>3, <2>2
  <1>10. \A k \in at'..Len(given) : text'[k] = given[k]
    <2>1. \A k \in at..Len(given) : text[k] = given[k]
      BY DEF TextPlaced, Clean
    <2>2. CASE text' = text
      BY <1>2, <1>9, <2>1, <2>2
    <2>3. ASSUME NEW i \in 1..Len(given), NEW j \in 0..Len(given), text' = Blanked(i, j), j < at'
          PROVE  \A k \in at'..Len(given) : text'[k] = given[k]
      <3>1. \A k \in 1..Len(text) : text'[k] = IF k \in i..j THEN Space ELSE text[k]
        BY <2>3, BlankedPlaced
      <3>. QED
        BY <1>2, <1>9, <2>1, <2>3, <3>1
    <2>. QED
      BY <1>5, <2>2, <2>3
  <1>. QED
    BY <1>1, <1>6, <1>7, <1>8, <1>10 DEF TextPlaced

\* The first escape from the place on, with its bracket.
FirstEscape == CHOOSE j \in EscapesFrom(at) : \A k \in EscapesFrom(at) : j <= k

LEMMA EscapeIs ==
    ASSUME TextPlaced, EscapesFrom(at) # {}
    PROVE  /\ FirstEscape \in at..Len(given) /\ FirstEscape + 2 <= Len(given) + 1
           /\ text[FirstEscape] = Escape /\ text[FirstEscape + 1] = Bracket
           /\ \A k \in EscapesFrom(at) : FirstEscape <= k
  <1>1. PICK n : n = Len(given)
    OBVIOUS
  <1>2. n \in Nat /\ Len(text) = n + 1 /\ text[n + 1] # Bracket /\ at \in 1..n + 1
    BY <1>1, TextTypes DEF TextPlaced, End, Bracket
  <1>3. EscapesFrom(at) \in SUBSET Nat
    BY <1>2 DEF EscapesFrom
  <1>4. PICK e : e = FirstEscape
    OBVIOUS
  <1>5. e \in EscapesFrom(at) /\ \A k \in EscapesFrom(at) : e <= k
    <2>1. \E x \in EscapesFrom(at) : \A y \in EscapesFrom(at) : x <= y
      BY <1>3, LeastOf
    <2>. QED
      BY <1>4, <2>1 DEF FirstEscape
  <1>6. e \in at..n /\ text[e] = Escape /\ text[e + 1] = Bracket
    BY <1>2, <1>5 DEF EscapesFrom
  <1>7. e # n
    BY <1>2, <1>6
  <1>. QED
    BY <1>1, <1>2, <1>4, <1>5, <1>6, <1>7

\* The first byte that is no white space, which there always is.
Blanks == {Space, NewLine}
FirstInk == CHOOSE j \in at..Len(text) : text[j] \notin Blanks /\ \A k \in at..j - 1 : text[k] \in Blanks

LEMMA InkIs ==
    ASSUME TextPlaced
    PROVE  /\ FirstInk \in at..Len(text) /\ text[FirstInk] \notin Blanks
           /\ \A k \in at..FirstInk - 1 : text[k] \in Blanks
  <1> DEFINE S == {j \in at..Len(text) : text[j] \notin Blanks}
  <1>1. Len(text) \in Nat /\ at \in 1..Len(text) /\ text[Len(text)] \notin Blanks
    BY TextTypes DEF TextPlaced, Blanks, End, Space, NewLine
  <1>2. PICK x \in S : \A y \in S : x <= y
    <2>1. S \in SUBSET Nat /\ Len(text) \in S
      BY <1>1
    <2> HIDE DEF S
    <2>. QED
      BY <2>1, LeastOf
  <1>3. ASSUME NEW k \in at..x - 1 PROVE text[k] \in Blanks
    <2>1. k \in at..Len(text) /\ ~(x <= k)
      BY <1>1, <1>2
    <2>. QED
      BY <1>2, <2>1
  <1>4. x \in at..Len(text) /\ text[x] \notin Blanks /\ \A k \in at..x - 1 : text[k] \in Blanks
    BY <1>2, <1>3
  <1>. QED
    BY <1>4 DEF FirstInk

\* What a step of the writer does, by its parts.
LEMMA PieceSteps ==
    ASSUME TextPlaced, WritePiece
    PROVE  /\ stage = "write" /\ text' = text /\ given' = given
           /\ EscapesFrom(at) = {} =>
                 /\ shown' = Append(shown, Piece(at, EndPlace)) /\ stage' = "shown" /\ at' = at
                 /\ next' = next /\ channels' = channels
           /\ EscapesFrom(at) # {} =>
                 /\ shown' = IF FirstEscape = at THEN shown ELSE Append(shown, Piece(at, Cut(at, FirstEscape)))
                 /\ stage' = "escape" /\ at' = FirstEscape + 2 /\ next' = "type" /\ channels' = <<>>
  BY DEF WritePiece, FirstEscape

LEMMA EscapedSteps ==
    ASSUME TextPlaced, Escaped
    PROVE  /\ stage = "escape" /\ text' = text /\ given' = given
           /\ \/ stage' = "write" /\ at' = at /\ shown' = shown /\ next' = next /\ channels' = channels
              \/ /\ text[FirstInk] \in Numbers
                 /\ shown' = shown \o Value(ValueOf(text[FirstInk])).shows
                 /\ next' = Value(ValueOf(text[FirstInk])).next
                 /\ channels' = Value(ValueOf(text[FirstInk])).channels
                 /\ stage' \in {"escape", "write"}
                 /\ \/ at' = FirstInk + 1
                    \/ text[FirstInk + 1] \in {Separator, "m"} /\ at' = FirstInk + 2
  <1>1. PICK n : n = FirstInk
    OBVIOUS
  <1>2. stage = "escape" /\ text' = text /\ given' = given
    BY DEF Escaped
  <1>3. IF text[n] \notin Numbers \/ (text[n] = "0" /\ n # at)
        THEN stage' = "write" /\ UNCHANGED <<at, shown, next, channels>>
        ELSE /\ shown' = shown \o Value(ValueOf(text[n])).shows
             /\ next' = Value(ValueOf(text[n])).next
             /\ channels' = Value(ValueOf(text[n])).channels
             /\ stage' = IF text[n + 1] = Separator THEN "escape" ELSE "write"
             /\ at' = IF text[n + 1] \in {Separator, "m"} THEN n + 2 ELSE n + 1
    BY <1>1 DEF Escaped, FirstInk, Blanks
  <1> HIDE DEF Value, ValueOf
  <1>4. CASE text[n] \notin Numbers \/ (text[n] = "0" /\ n # at)
    <2>1. stage' = "write" /\ at' = at /\ shown' = shown /\ next' = next /\ channels' = channels
      BY <1>3, <1>4
    <2>. QED
      BY <1>2, <2>1
  <1>5. CASE ~(text[n] \notin Numbers \/ (text[n] = "0" /\ n # at))
    <2>1. /\ text[n] \in Numbers
          /\ shown' = shown \o Value(ValueOf(text[n])).shows
          /\ next' = Value(ValueOf(text[n])).next
          /\ channels' = Value(ValueOf(text[n])).channels
      BY <1>3, <1>5
    <2>2. /\ stage' \in {"escape", "write"}
          /\ at' = n + 1 \/ (text[n + 1] \in {Separator, "m"} /\ at' = n + 2)
      BY <1>3, <1>5
    <2>. QED
      BY <1>1, <1>2, <2>1, <2>2
  <1>. QED
    BY <1>4, <1>5

\* The steps that stay in the text.
TextGoesOn == Clean \/ CleanEnds \/ WritePiece \/ Escaped

LEMMA TextPlacedStep == TextPlaced /\ [TextGoesOn]_chatTextVars => TextPlaced'
  <1> SUFFICES ASSUME TextPlaced, [TextGoesOn]_chatTextVars PROVE TextPlaced'
    OBVIOUS
  <1>1. CASE Clean
    BY <1>1, CleanPlaced
  <1>2. CASE text' = text /\ given' = given /\ at' \in 1..Len(text) /\ stage' \in {"write", "escape", "shown"}
    BY <1>2 DEF TextPlaced
  <1>3. CASE CleanEnds
    <2>1. /\ text' = text /\ given' = given /\ at' = 1
          /\ stage' \in {"write", "escape", "shown"}
      BY <1>3 DEF CleanEnds, ChatWrite, ChatWriteRaw, ChatWriteLine
    <2>2. 1 \in 1..Len(text)
      BY TextTypes DEF TextPlaced
    <2>. QED
      BY <1>2, <2>1, <2>2
  <1>4. CASE WritePiece
    <2>1. /\ text' = text /\ given' = given /\ stage' \in {"write", "escape", "shown"}
          /\ at' = at \/ (EscapesFrom(at) # {} /\ at' = FirstEscape + 2)
      BY <1>4, PieceSteps
    <2>2. CASE at' = at
      BY <1>2, <2>1, <2>2 DEF TextPlaced
    <2>3. CASE EscapesFrom(at) # {} /\ at' = FirstEscape + 2
      <3>1. FirstEscape \in at..Len(given) /\ FirstEscape + 2 <= Len(given) + 1
        BY <2>3, EscapeIs
      <3>2. Len(given) \in Nat /\ at \in Nat /\ at >= 1 /\ Len(text) = Len(given) + 1
        BY TextTypes DEF TextPlaced
      <3>3. at' \in 1..Len(text)
        BY <2>3, <3>1, <3>2
      <3>. QED
        BY <1>2, <2>1, <3>3
    <2>. QED
      BY <2>1, <2>2, <2>3
  <1>5. CASE Escaped
    <2>1. /\ text' = text /\ given' = given /\ stage' \in {"write", "escape", "shown"}
          /\ \/ at' = at
             \/ /\ text[FirstInk] \in Numbers
                /\ at' = FirstInk + 1 \/ (text[FirstInk + 1] \in {Separator, "m"} /\ at' = FirstInk + 2)
      BY <1>5, EscapedSteps
    <2>2. CASE at' = at
      BY <1>2, <2>1, <2>2 DEF TextPlaced
    <2>3. CASE /\ text[FirstInk] \in Numbers
               /\ at' = FirstInk + 1 \/ (text[FirstInk + 1] \in {Separator, "m"} /\ at' = FirstInk + 2)
      <3>1. PICK n, m : n = FirstInk /\ m = Len(given)
        OBVIOUS
      <3>2. m \in Nat /\ at \in Nat /\ at >= 1 /\ Len(text) = m + 1 /\ text[m + 1] = End /\ n \in at..m + 1
        BY <3>1, TextTypes, InkIs DEF TextPlaced
      <3>3. End \notin Numbers /\ End \notin {Separator, "m"}
        BY DEF End, Numbers, Separator
      <3>4. n # m + 1
        BY <2>3, <3>1, <3>2, <3>3
      <3>5. text[n + 1] \in {Separator, "m"} => n # m
        BY <3>2, <3>3
      <3>6. at' \in 1..Len(text)
        BY <2>3, <3>1, <3>2, <3>4, <3>5
      <3>. QED
        BY <1>2, <2>1, <3>6
    <2>. QED
      BY <2>1, <2>2, <2>3
  <1>6. CASE UNCHANGED chatTextVars
    BY <1>6 DEF chatTextVars, TextPlaced
  <1>. QED
    BY <1>1, <1>3, <1>4, <1>5, <1>6 DEF TextGoesOn

LEMMA TextPlacedIs == TextPlaced => ChatTextTypeOK /\ EndStays
  <1> SUFFICES ASSUME TextPlaced PROVE ChatTextTypeOK /\ EndStays
    OBVIOUS
  <1>1. PICK n : n = Len(given)
    OBVIOUS
  <1>2. /\ n \in Nat /\ Len(text) = n + 1 /\ text[n + 1] = End /\ \A i \in 1..n : text[i] # End
    BY <1>1, TextTypes DEF TextPlaced
  <1>3. {i \in 1..Len(text) : text[i] = End} = {n + 1}
    BY <1>2
  <1>4. Min({n + 1}) = n + 1
    BY <1>2 DEF Min
  <1>5. EndPlace = n + 1
    BY <1>3, <1>4 DEF EndPlace, SelectInSeq
  <1>6. ChatTextTypeOK
    BY <1>1, <1>2 DEF TextPlaced, ChatTextTypeOK
  <1>. QED
    BY <1>1, <1>5, <1>6 DEF EndStays, TextPlaced

-----------------------------------------------------------------------------
(* What is cleaned (RemoveAsciiControlSequences)                            *)

\* A place that is cleaned: no control character, the sequence it begins is
\* whole, and a continuation belongs to a sequence.
Fine(k) ==
    /\ text[k] # "control"
    /\ \A j \in 1..Trailing(text[k]) : text[k + j] = "cont"
    /\ text[k] = "cont" => \E m \in 1..k - 1 : k - m <= Trailing(text[m])

\* The places that were passed are fine, with the sequences they begin; the
\* others are as they came.
Passed == IF stage = "clean" THEN at - 1 ELSE Len(given)
CleanedUpTo(n) == \A k \in 1..n : Fine(k) /\ k + Trailing(text[k]) <= n
AsGivenFrom(n) == \A k \in n + 1..Len(given) : text[k] = given[k]
TextCleaned == EscapesAreColours => CleanedUpTo(Passed) /\ AsGivenFrom(Passed)

LEMMA ColourStays ==
    ASSUME TextPlaced, NEW i \in 1..Len(given), \A k \in i..Len(given) : text[k] = given[k],
           IsColour(given, i)
    PROVE  IsColour(text, i)
  <1>1. PICK n : n = Len(given)
    OBVIOUS
  <1>2. n \in Nat /\ Len(text) = n + 1 /\ text[n + 1] = End /\ i \in 1..n
    BY <1>1, TextTypes DEF TextPlaced
  <1>3. /\ i < n /\ given[i + 1] = Bracket
        /\ \A j \in i + 2..n : \/ given[j] \in Numbers \cup {Separator, "m", End}
                               \/ \E k \in i + 2..j - 1 : given[k] = "m"
    BY <1>1 DEF IsColour
  <1>4. i < Len(text) /\ text[i + 1] = Bracket
    BY <1>1, <1>2, <1>3
  <1>5. ASSUME NEW j \in i + 2..n + 1
        PROVE  \/ text[j] \in Numbers \cup {Separator, "m", End}
               \/ \E k \in i + 2..j - 1 : text[k] = "m"
    <2>1. CASE j = n + 1
      BY <1>2, <2>1
    <2>2. CASE j # n + 1
      <3>1. j \in i + 2..n /\ j \in i..n /\ \A k \in i + 2..j - 1 : k \in i..n
        BY <1>2, <2>2
      <3>2. text[j] = given[j] /\ \A k \in i + 2..j - 1 : text[k] = given[k]
        BY <1>1, <3>1
      <3>. QED
        BY <1>3, <3>1, <3>2
    <2>. QED
      BY <2>1, <2>2
  <1>. QED
    BY <1>2, <1>4, <1>5 DEF IsColour

\* A pass that blanks from the place on what it passes.
LEMMA BlankingCleans ==
    ASSUME TextPlaced, TextPlaced', CleanedUpTo(at - 1), AsGivenFrom(at - 1), NEW j \in at..Len(given), at \in 1..Len(given),
           text' = Blanked(at, j), given' = given
    PROVE  CleanedUpTo(j)' /\ AsGivenFrom(j)'
  <1>1. PICK n : n = Len(given)
    OBVIOUS
  <1>2. /\ n \in Nat /\ at \in Nat /\ at >= 1 /\ at <= n /\ j \in Nat /\ at <= j /\ j <= n /\ Len(text) = n + 1
    BY <1>1, TextTypes DEF TextPlaced
  <1>3. \A k \in 1..n + 1 : text'[k] = IF k \in at..j THEN Space ELSE text[k]
    <2>1. at \in 1..Len(given) /\ j \in 0..Len(given)
      BY <1>1, <1>2
    <2>. QED
      BY <1>2, <2>1, BlankedPlaced
  <1>4. \A k \in 1..at - 1 : text'[k] = text[k]
    BY <1>2, <1>3
  <1>5. \A k \in at..j : text'[k] = Space
    BY <1>2, <1>3
  <1>6. \A k \in j + 1..n : text'[k] = text[k] /\ k \in at - 1 + 1..n
    BY <1>2, <1>3
  <1>7. \A k \in j + 1..n : text'[k] = given[k]
    BY <1>1, <1>6 DEF AsGivenFrom
  <1>8. ASSUME NEW k \in 1..j
        PROVE  Fine(k)' /\ k + Trailing(text'[k]) <= j
    <2>1. CASE k \in at..j
      <3>1. text'[k] = Space
        BY <1>5, <2>1
      <3>2. Trailing(Space) = 0 /\ Space # "control" /\ Space # "cont"
        BY SymbolsDiffer DEF Space
      <3>. QED
        BY <1>2, <3>1, <3>2 DEF Fine
    <2>2. CASE k \notin at..j
      <3>1. k \in 1..at - 1 /\ text'[k] = text[k]
        BY <1>2, <1>4, <2>2
      <3>2. Fine(k) /\ k + Trailing(text[k]) <= at - 1
        BY <3>1 DEF CleanedUpTo
      <3>3. Trailing(text[k]) \in {0, 1, 2, 4}
        BY SymbolsDiffer, Zenon
      <3>4. \A i \in 1..Trailing(text[k]) : k + i \in 1..at - 1
        BY <1>2, <3>1, <3>2, <3>3
      <3>5. \A i \in 1..Trailing(text'[k]) : text'[k + i] = "cont"
        BY <1>4, <3>1, <3>2, <3>4 DEF Fine
      <3>6. ASSUME text'[k] = "cont" PROVE \E m \in 1..k - 1 : k - m <= Trailing(text'[m])
        <4>1. PICK m \in 1..k - 1 : k - m <= Trailing(text[m])
          BY <3>1, <3>2, <3>6 DEF Fine
        <4>2. m \in 1..at - 1
          BY <1>2, <3>1
        <4>. QED
          BY <1>4, <4>1, <4>2
      <3>7. text'[k] # "control"
        BY <3>1, <3>2 DEF Fine
      <3>8. k + Trailing(text'[k]) <= j
        BY <1>2, <3>1, <3>2, <3>3
      <3>. QED
        BY <3>5, <3>6, <3>7, <3>8 DEF Fine
    <2>. QED
      BY <2>1, <2>2
  <1>9. CleanedUpTo(j)'
    BY <1>8 DEF CleanedUpTo
  <1>10. AsGivenFrom(j)'
    BY <1>1, <1>7 DEF AsGivenFrom
  <1>. QED
    BY <1>9, <1>10

\* A pass that blanks nothing.
LEMMA PassingCleans ==
    ASSUME TextPlaced, CleanedUpTo(at - 1), AsGivenFrom(at - 1), at \in 1..Len(given), NEW j \in at..Len(given),
           text' = text, given' = given, \A k \in at..j : Fine(k) /\ k + Trailing(text[k]) <= j
    PROVE  CleanedUpTo(j)' /\ AsGivenFrom(j)'
  <1>1. /\ Len(given) \in Nat /\ at \in Nat /\ at >= 1 /\ at <= j /\ j \in Nat
    BY TextTypes
  <1>2. ASSUME NEW k \in 1..j PROVE Fine(k) /\ k + Trailing(text[k]) <= j
    <2>1. CASE k \in at..j
      BY <2>1
    <2>2. CASE k \notin at..j
      <3>1. k \in 1..at - 1
        BY <1>1, <2>2
      <3>2. Fine(k) /\ k + Trailing(text[k]) <= at - 1
        BY <3>1 DEF CleanedUpTo
      <3>3. Trailing(text[k]) \in {0, 1, 2, 4}
        BY SymbolsDiffer, Zenon
      <3>. QED
        BY <1>1, <3>2, <3>3
    <2>. QED
      BY <2>1, <2>2
  <1>3. CleanedUpTo(j)'
    <2>1. \A k \in 1..j : Fine(k)' /\ k + Trailing(text'[k]) <= j
      BY <1>2 DEF Fine
    <2>. QED
      BY <2>1 DEF CleanedUpTo
  <1>4. AsGivenFrom(j)'
    <2>1. \A k \in j + 1..Len(given) : k \in at - 1 + 1..Len(given)
      BY <1>1
    <2>. QED
      BY <2>1 DEF AsGivenFrom
  <1>. QED
    BY <1>3, <1>4

LEMMA CleanCleans ==
    ASSUME TextPlaced, TextPlaced', EscapesAreColours, CleanedUpTo(at - 1), AsGivenFrom(at - 1), Clean
    PROVE  \E j : at' - 1 = j /\ CleanedUpTo(j)' /\ AsGivenFrom(j)'
  <1>1. /\ text[at] # End /\ text' = CleanedAt(at) /\ at' = After(at)
        /\ given' = given /\ stage' = stage
    BY DEF Clean
  <1>2. PICK n : n = Len(given)
    OBVIOUS
  <1>3. at \in 1..n /\ n \in Nat /\ Len(text) = n + 1 /\ at \in 1..Len(given) /\ at \in Nat
    BY <1>1, <1>2, TextTypes DEF TextPlaced
  <1>4. PICK f, tr : f = Follow(at) /\ tr = Trailing(text[at])
    OBVIOUS
  <1>5. /\ tr \in {0, 1, 2, 4} /\ f \in 0..tr /\ at + f \in 1..n
        /\ \A j \in 1..f : text[at + j] = "cont"
        /\ tr > 0 => text[at] \notin {"control", "cont"} /\ text[at] # Escape
    <2>1. tr \in {0, 1, 2, 4}
      BY <1>4, SymbolsDiffer, Zenon
    <2>2. tr > 0 => text[at] \notin {"control", "cont"} /\ text[at] # Escape
      BY <1>4, TextLeads
    <2>. QED
      BY <1>2, <1>3, <1>4, <2>1, <2>2, FollowIs
  <1>6. ASSUME text[at] = Escape PROVE IsColour(text, at) /\ at + 1 \in 1..n /\ text[at + 1] = Bracket
    <2>1. given[at] = Escape
      <3>1. at \in at - 1 + 1..Len(given)
        BY <1>2, <1>3
      <3>. QED
        BY <1>6, <3>1 DEF AsGivenFrom
    <2>2. IsColour(given, at)
      <3>1. DOMAIN given = 1..Len(given)
        BY TextTypes
      <3>. QED
        BY <1>2, <1>3, <2>1, <3>1 DEF EscapesAreColours
    <2>3. \A k \in at..Len(given) : text[k] = given[k]
      <3>1. \A k \in at..Len(given) : k \in at - 1 + 1..Len(given)
        BY <1>3
      <3>. QED
        BY <3>1 DEF AsGivenFrom
    <2>4. IsColour(text, at)
      BY <1>3, <2>2, <2>3, ColourStays
    <2>5. at + 1 \in 1..n
      BY <1>2, <1>3, <2>2 DEF IsColour
    <2>. QED
      BY <2>4, <2>5 DEF IsColour
  <1>7. ASSUME NEW j \in at..Len(given), at' = j + 1, CleanedUpTo(j)', AsGivenFrom(j)'
        PROVE  \E i : at' - 1 = i /\ CleanedUpTo(i)' /\ AsGivenFrom(i)'
    <2>1. at' - 1 = j
      BY <1>2, <1>3, <1>7
    <2>. QED
      BY <1>7, <2>1
  <1>8. CASE tr > 0 /\ f < tr
    <2>0. PICK j : j = at + f
      OBVIOUS
    <2>1. text' = Blanked(at, j) /\ at' = j + 1 /\ j \in at..Len(given)
      BY <2>0, <1>1, <1>2, <1>3, <1>4, <1>5, <1>8 DEF CleanedAt, After
    <2>2. CleanedUpTo(j)' /\ AsGivenFrom(j)'
      BY <1>1, <1>3, <2>1, BlankingCleans
    <2>. QED
      BY <1>7, <2>1, <2>2
  <1>9. CASE tr > 0 /\ ~(f < tr)
    <2>0. PICK j : j = at + f
      OBVIOUS
    <2>1. text' = text /\ at' = j + 1 /\ j \in at..Len(given) /\ f = tr
      BY <2>0, <1>1, <1>2, <1>3, <1>4, <1>5, <1>9 DEF CleanedAt, After
    <2>2. ASSUME NEW k \in at..j PROVE Fine(k) /\ k + Trailing(text[k]) <= j
      <3>1. CASE k = at
        BY <1>3, <1>4, <1>5, <1>9, <2>0, <2>1, <3>1 DEF Fine
      <3>2. CASE k # at
        <4>1. k - at \in 1..f /\ at + (k - at) = k /\ at \in 1..k - 1 /\ k - at <= tr /\ k \in Nat
          BY <1>3, <1>5, <2>0, <2>1, <3>2
        <4>2. text[k] = "cont" /\ Trailing("cont") = 0
          BY <1>5, <4>1, SymbolsDiffer
        <4>3. text[k] # "control" /\ 1..Trailing(text[k]) = {} /\ k + Trailing(text[k]) <= j
          BY <1>3, <1>5, <2>0, <4>1, <4>2
        <4>. QED
          BY <1>4, <4>1, <4>3 DEF Fine
      <3>. QED
        BY <3>1, <3>2
    <2>3. CleanedUpTo(j)' /\ AsGivenFrom(j)'
      BY <1>1, <1>3, <2>1, <2>2, PassingCleans
    <2>. QED
      BY <1>7, <2>1, <2>3
  <1>10. CASE ~(tr > 0) /\ text[at] \in {"control", "cont"}
    <2>0. text[at] # Escape
      BY <1>10 DEF Escape
    <2>5. PICK j : j = at
      OBVIOUS
    <2>1. text' = Blanked(at, j) /\ at' = j + 1 /\ j \in at..Len(given)
      BY <2>5, <1>1, <1>2, <1>3, <1>4, <1>10, <2>0 DEF CleanedAt, After
    <2>2. CleanedUpTo(j)' /\ AsGivenFrom(j)'
      BY <1>1, <1>3, <2>1, BlankingCleans
    <2>. QED
      BY <1>7, <2>1, <2>2
  <1>11. CASE ~(tr > 0) /\ text[at] \notin {"control", "cont"} /\ text[at] = Escape
    <2>5. PICK j : j = at + 1
      OBVIOUS
    <2>1. text' = text /\ at' = j + 1 /\ j \in at..Len(given)
      BY <2>5, <1>1, <1>2, <1>3, <1>4, <1>6, <1>11 DEF CleanedAt, After
    <2>2. ASSUME NEW k \in at..j PROVE Fine(k) /\ k + Trailing(text[k]) <= j
      <3>1. text[k] = Escape \/ text[k] = Bracket
        BY <1>3, <1>6, <1>11, <2>5
      <3>2. /\ text[k] # "control" /\ text[k] # "cont" /\ Trailing(text[k]) = 0
        BY <3>1, SymbolsDiffer DEF Escape, Bracket
      <3>. QED
        BY <1>3, <2>5, <3>2 DEF Fine
    <2>3. CleanedUpTo(j)' /\ AsGivenFrom(j)'
      BY <1>1, <1>3, <2>1, <2>2, PassingCleans
    <2>. QED
      BY <1>7, <2>1, <2>3
  <1>12. CASE ~(tr > 0) /\ text[at] \notin {"control", "cont"} /\ text[at] # Escape
    <2>5. PICK j : j = at
      OBVIOUS
    <2>1. text' = text /\ at' = j + 1 /\ j \in at..Len(given) /\ tr = 0
      BY <2>5, <1>1, <1>2, <1>3, <1>4, <1>5, <1>12 DEF CleanedAt, After
    <2>2. ASSUME NEW k \in at..j PROVE Fine(k) /\ k + Trailing(text[k]) <= j
      <3>1. k = at /\ j = at /\ Trailing(text[k]) = 0 /\ text[k] \notin {"control", "cont"}
        <4>1. k = at /\ j = at
          BY <1>3, <2>5
        <4>2. Trailing(text[at]) = 0 /\ text[at] \notin {"control", "cont"}
          BY <1>4, <1>12, <2>1
        <4>. QED
          BY <4>1, <4>2
      <3>2. 1..Trailing(text[k]) = {} /\ k + Trailing(text[k]) <= j
        BY <1>3, <3>1
      <3>. QED
        BY <3>1, <3>2 DEF Fine
    <2>3. CleanedUpTo(j)' /\ AsGivenFrom(j)'
      BY <1>1, <1>3, <2>1, <2>2, PassingCleans
    <2>. QED
      BY <1>7, <2>1, <2>3
  <1>. QED
    BY <1>8, <1>9, <1>10, <1>11, <1>12

LEMMA TextCleanedStarts == ChatTextInit => TextCleaned
  <1> SUFFICES ASSUME ChatTextInit PROVE TextCleaned
    OBVIOUS
  <1>1. TextPlaced
    BY TextStarts
  <1>2. at = 1 /\ stage = "clean" /\ text = Append(given, End) /\ given \in Seq(Kinds)
    BY <1>1, TextTypes DEF ChatTextInit
  <1>3. Passed = 0
    BY <1>2 DEF Passed
  <1>4. \A k \in 1..Len(given) : text[k] = given[k]
    BY <1>2
  <1>. QED
    BY <1>3, <1>4 DEF TextCleaned, CleanedUpTo, AsGivenFrom

LEMMA TextCleanedStep ==
    TextPlaced /\ TextCleaned /\ [TextGoesOn]_chatTextVars => TextCleaned'
  <1> SUFFICES ASSUME TextPlaced, TextCleaned, [TextGoesOn]_chatTextVars PROVE TextCleaned'
    OBVIOUS
  <1>0. TextPlaced'
    BY TextPlacedStep
  <1>1. CASE Clean
    <2> SUFFICES ASSUME EscapesAreColours' PROVE CleanedUpTo(Passed)' /\ AsGivenFrom(Passed)'
      BY DEF TextCleaned
    <2>1. given' = given /\ stage = "clean" /\ stage' = "clean"
      BY <1>1 DEF Clean
    <2>2. EscapesAreColours /\ Passed = at - 1 /\ Passed' = at' - 1
      BY <2>1 DEF EscapesAreColours, Passed, IsColour
    <2>3. CleanedUpTo(at - 1) /\ AsGivenFrom(at - 1)
      BY <2>2 DEF TextCleaned
    <2>4. PICK j : at' - 1 = j /\ CleanedUpTo(j)' /\ AsGivenFrom(j)'
      BY <1>0, <1>1, <2>2, <2>3, CleanCleans
    <2>. QED
      BY <2>2, <2>4 DEF CleanedUpTo, AsGivenFrom
  <1>2. CASE text' = text /\ given' = given /\ Passed' = Passed
    BY <1>2 DEF TextCleaned, CleanedUpTo, AsGivenFrom, Fine, EscapesAreColours, IsColour
  <1>3. CASE CleanEnds
    <2>1. text' = text /\ given' = given /\ stage = "clean" /\ text[at] = End /\ stage' # "clean"
      BY <1>3 DEF CleanEnds, ChatWrite, ChatWriteRaw, ChatWriteLine
    <2>2. at = Len(given) + 1
      <3>1. Len(given) \in Nat /\ at \in 1..Len(text) /\ Len(text) = Len(given) + 1
            /\ (text[at] # End <=> at \in 1..Len(given))
        BY TextTypes DEF TextPlaced
      <3>. QED
        BY <2>1, <3>1
    <2>3. Passed' = Passed
      BY <2>1, <2>2, TextTypes DEF Passed
    <2>. QED
      BY <1>2, <2>1, <2>3
  <1>4. CASE WritePiece \/ Escaped \/ UNCHANGED chatTextVars
    <2>1. text' = text /\ given' = given /\ Passed' = Passed
      BY <1>4, PieceSteps, EscapedSteps DEF chatTextVars, Passed
    <2>. QED
      BY <1>2, <2>1
  <1>. QED
    BY <1>1, <1>3, <1>4 DEF TextGoesOn

LEMMA TextCleanedIs == TextPlaced /\ TextCleaned => NothingBroken
  <1> SUFFICES ASSUME TextPlaced, TextCleaned, stage # "clean", EscapesAreColours
               PROVE  /\ Count(text, "control") = 0
                      /\ \A i \in 1..Len(given) :
                            /\ Trailing(text[i]) = Follow(i)
                            /\ text[i] = "cont" => \E k \in 1..i - 1 : i - k <= Trailing(text[k])
    BY DEF NothingBroken
  <1>1. \A k \in 1..Len(given) : Fine(k)
    BY DEF TextCleaned, Passed, CleanedUpTo
  <1>2. \A k \in 1..Len(text) : text[k] # "control"
    <2>1. ASSUME NEW k \in 1..Len(text) PROVE text[k] # "control"
      <3>1. CASE text[k] = End
        BY <3>1 DEF End
      <3>2. CASE text[k] # End
        BY <1>1, <3>2, TextTypes DEF Fine
      <3>. QED
        BY <3>1, <3>2
    <2>. QED
      BY <2>1
  <1>3. Count(text, "control") = 0
    <2>1. text \in Seq(Kinds \cup {End})
      BY DEF TextPlaced
    <2>2. Count(text, "control") = 0 <=> \A k \in 1..Len(text) : text[k] # "control"
      BY <2>1, CountZero, Zenon
    <2>. QED
      BY <1>2, <2>2
  <1>4. ASSUME NEW i \in 1..Len(given) PROVE Trailing(text[i]) = Follow(i)
    <2>1. PICK f, tr : f = Follow(i) /\ tr = Trailing(text[i])
      OBVIOUS
    <2>2. /\ f \in 0..tr /\ (f = tr \/ text[i + f + 1] # "cont")
      BY <2>1, FollowIs
    <2>3. tr \in {0, 1, 2, 4}
      BY <2>1, SymbolsDiffer, Zenon
    <2>4. \A j \in 1..tr : text[i + j] = "cont"
      BY <1>1, <2>1 DEF Fine
    <2>5. f # tr => f + 1 \in 1..tr /\ i + (f + 1) = i + f + 1
      BY <2>2, <2>3
    <2>. QED
      BY <2>1, <2>2, <2>4, <2>5
  <1>. QED
    BY <1>1, <1>3, <1>4 DEF Fine

-----------------------------------------------------------------------------
(* What a panel is given (Utf8ToUtf16, HudChatWriter)                       *)

UnitKinds == Kinds \cup {"letter", "replacement"}

LEMMA UnitsType ==
    ASSUME NEW p \in Seq(Kinds)
    PROVE  /\ Units(p) \in Seq(UnitKinds)
           /\ \A x : (\A i \in 1..Len(p) :
                         Count(IF Begins(p, i) THEN <<UnitAt(p, i)>> ELSE <<>>, x) = Once(p[i], x)) =>
                     Count(Units(p), x) = Count(p, x)
  <1>1. PICK ss : ss = [i \in DOMAIN p |-> IF Begins(p, i) THEN <<UnitAt(p, i)>> ELSE <<>>]
    OBVIOUS
  <1>2. DOMAIN p = 1..Len(p) /\ Len(p) \in Nat /\ \A i \in 1..Len(p) : p[i] \in Kinds
    BY ElementOfSeq
  <1>3. ASSUME NEW i \in 1..Len(p)
        PROVE  (IF Begins(p, i) THEN <<UnitAt(p, i)>> ELSE <<>>) \in Seq(UnitKinds)
    <2>1. UnitAt(p, i) \in UnitKinds
      BY <1>2 DEF UnitAt, UnitKinds
    <2>. QED
      BY <2>1
  <1>4. ss \in Seq(Seq(UnitKinds)) /\ Len(ss) = Len(p)
        /\ \A i \in 1..Len(p) : ss[i] = IF Begins(p, i) THEN <<UnitAt(p, i)>> ELSE <<>>
    BY <1>1, <1>2, <1>3
  <1>5. Units(p) = FlattenSeq(ss)
    BY <1>1 DEF Units
  <1>6. FlattenSeq(ss) \in Seq(UnitKinds)
    BY <1>4, JoinedType, Zenon
  <1>7. ASSUME NEW x, \A i \in 1..Len(p) :
                         Count(IF Begins(p, i) THEN <<UnitAt(p, i)>> ELSE <<>>, x) = Once(p[i], x)
        PROVE  Count(FlattenSeq(ss), x) = Count(p, x)
    <2>1. \A i \in 1..Len(p) : Count(ss[i], x) = Once(p[i], x)
      BY <1>4, <1>7
    <2>. QED
      BY <1>4, <2>1, CountJoined
  <1>. QED
    BY <1>5, <1>6, <1>7

\* Every letter of a piece is shown, and nothing else as one.
LEMMA UnitsLetters ==
    ASSUME NEW p \in Seq(Kinds)
    PROVE  Count(Units(p), Letter) = Count(p, Letter)
  <1>1. ASSUME NEW i \in 1..Len(p)
        PROVE  Count(IF Begins(p, i) THEN <<UnitAt(p, i)>> ELSE <<>>, Letter) = Once(p[i], Letter)
    <2>1. CASE Begins(p, i)
      <3>1. UnitAt(p, i) = Letter <=> p[i] = Letter
        BY DEF UnitAt, Letter
      <3>2. Count(<<UnitAt(p, i)>>, Letter) = Once(UnitAt(p, i), Letter)
        BY CountOne, Zenon
      <3>. QED
        BY <2>1, <3>1, <3>2 DEF Once
    <2>2. CASE ~Begins(p, i)
      <3>1. p[i] # Letter
        BY <2>2 DEF Begins, Letter
      <3>2. Count(<<>>, Letter) = 0
        BY CountNothing, Zenon
      <3>. QED
        BY <2>2, <3>1, <3>2 DEF Once
    <2>. QED
      BY <2>1, <2>2
  <1>. QED
    BY <1>1, UnitsType

\* A piece of whole sequences, all of code points, has no replacement character.
LEMMA UnitsConvert ==
    ASSUME NEW p \in Seq(Kinds),
           \A i \in 1..Len(p) : /\ p[i] \notin {"surrogate", "lead5"}
                                /\ p[i] = "lead2" => i + 1 <= Len(p) /\ p[i + 1] = "cont"
                                /\ p[i] = "cont" => i > 1 /\ p[i - 1] = "lead2"
    PROVE  Count(Units(p), "replacement") = 0
  <1>0. Len(p) \in Nat /\ \A i \in 1..Len(p) : p[i] \in Kinds
    BY ElementOfSeq
  <1>1. \A i \in 1..Len(p) : p[i] = "lead2" => WholeIn(p, i)
    <2> SUFFICES ASSUME NEW i \in 1..Len(p), p[i] = "lead2" PROVE WholeIn(p, i)
      OBVIOUS
    <2>1. Trailing(p[i]) = 1
      BY SymbolsDiffer
    <2>2. i + 1 <= Len(p) /\ p[i + 1] = "cont"
      OBVIOUS
    <2>. QED
      BY <2>1, <2>2 DEF WholeIn
  <1>2. \A k \in Kinds : k # "replacement"
    BY DEF Kinds, Escape, Bracket, Separator, Letter, NewLine, Space, Numbers
  <1>3. ASSUME NEW i \in 1..Len(p)
        PROVE  Count(IF Begins(p, i) THEN <<UnitAt(p, i)>> ELSE <<>>, "replacement") = Once(p[i], "replacement")
    <2>0. Once(p[i], "replacement") = 0
      BY <1>0, <1>2 DEF Once
    <2>1. CASE Begins(p, i)
      <3>1. p[i] # "cont"
        <4>1. p[i] = "cont" => i - 1 \in 1..Len(p) /\ i > 1 /\ p[i - 1] = "lead2"
          BY <1>0
        <4>2. p[i] = "cont" => WholeIn(p, i - 1)
          BY <1>1, <4>1
        <4>. QED
          BY <2>1, <4>1, <4>2 DEF Begins
      <3>2. UnitAt(p, i) # "replacement"
        BY <1>0, <1>1, <1>2, <3>1 DEF UnitAt
      <3>3. Count(<<UnitAt(p, i)>>, "replacement") = Once(UnitAt(p, i), "replacement")
        BY CountOne, Zenon
      <3>. QED
        BY <2>0, <2>1, <3>2, <3>3 DEF Once
    <2>2. CASE ~Begins(p, i)
      <3>1. Count(<<>>, "replacement") = 0
        BY CountNothing, Zenon
      <3>. QED
        BY <2>0, <2>2, <3>1
    <2>. QED
      BY <2>1, <2>2
  <1>4. Count(Units(p), "replacement") = Count(p, "replacement")
    BY <1>3, UnitsType
  <1>5. Count(p, "replacement") = 0
    <2>1. Count(p, "replacement") = 0 <=> \A i \in 1..Len(p) : p[i] # "replacement"
      BY CountZero, Zenon
    <2>. QED
      BY <1>0, <1>2, <2>1
  <1>. QED
    BY <1>4, <1>5

SwatchNames == {"main", "sameTeam", "enemyTeam", "network"}
Contents == [kind : {"string", "fade", "char", "colour"}, is : Seq(UnitKinds \cup SwatchNames \cup Int)]
ReadOf(c) == IF c.kind = "string" THEN c.is ELSE <<>>
WrittenOf(c) == FlattenSeq([i \in DOMAIN c |-> ReadOf(c[i])])
ContentsOf(hud, s) == FlattenSeq([i \in DOMAIN s |-> Inserted(hud, s[i])])
Adds(op) == IF op.kind = "text" THEN Units(op.is) ELSE <<>>

LEMMA WrittenOfBoth ==
    \A c, d \in Seq(Contents) : /\ WrittenOf(c) \in Seq(UnitKinds \cup SwatchNames \cup Int)
                                /\ WrittenOf(c \o d) = WrittenOf(c) \o WrittenOf(d)
  <1> DEFINE A == UnitKinds \cup SwatchNames \cup Int
             Reads(c) == [i \in DOMAIN c |-> ReadOf(c[i])]
  <1>1. ASSUME NEW c \in Seq(Contents)
        PROVE  /\ Reads(c) \in Seq(Seq(A)) /\ Len(Reads(c)) = Len(c)
               /\ \A i \in 1..Len(c) : Reads(c)[i] = ReadOf(c[i])
    <2>1. DOMAIN c = 1..Len(c) /\ Len(c) \in Nat /\ \A i \in 1..Len(c) : c[i] \in Contents
      BY ElementOfSeq
    <2>2. \A i \in 1..Len(c) : ReadOf(c[i]) \in Seq(A)
      BY <2>1 DEF ReadOf, Contents
    <2>. QED
      BY <2>1, <2>2
  <1>2. ASSUME NEW c \in Seq(Contents), NEW d \in Seq(Contents)
        PROVE  Reads(c \o d) = Reads(c) \o Reads(d)
    <2>1. PICK m, n, e : m = Len(c) /\ n = Len(d) /\ e = c \o d
      OBVIOUS
    <2>2. /\ m \in Nat /\ n \in Nat /\ e \in Seq(Contents) /\ Len(e) = m + n
          /\ \A i \in 1..m + n : e[i] = IF i <= m THEN c[i] ELSE d[i - m]
      BY <2>1, ConcatProperties
    <2>3. PICK x, y, z : x = Reads(c) /\ y = Reads(d) /\ z = Reads(e)
      OBVIOUS
    <2>4. /\ x \in Seq(Seq(A)) /\ Len(x) = m /\ \A i \in 1..m : x[i] = ReadOf(c[i])
          /\ y \in Seq(Seq(A)) /\ Len(y) = n /\ \A i \in 1..n : y[i] = ReadOf(d[i])
          /\ z \in Seq(Seq(A)) /\ Len(z) = m + n /\ \A i \in 1..m + n : z[i] = ReadOf(e[i])
      <3> HIDE DEF Reads, A
      <3>1. x \in Seq(Seq(A)) /\ Len(x) = m /\ \A i \in 1..m : x[i] = ReadOf(c[i])
        BY <1>1, <2>1, <2>3
      <3>2. y \in Seq(Seq(A)) /\ Len(y) = n /\ \A i \in 1..n : y[i] = ReadOf(d[i])
        BY <1>1, <2>1, <2>3
      <3>3. z \in Seq(Seq(A)) /\ Len(z) = m + n /\ \A i \in 1..m + n : z[i] = ReadOf(e[i])
        BY <1>1, <2>2, <2>3
      <3>. QED
        BY <3>1, <3>2, <3>3
    <2> HIDE DEF A, Reads
    <2>5. /\ x \o y \in Seq(Seq(A)) /\ Len(x \o y) = m + n
          /\ \A i \in 1..m + n : (x \o y)[i] = IF i <= m THEN x[i] ELSE y[i - m]
      BY <2>4, ConcatProperties
    <2>6. ASSUME NEW i \in 1..m + n PROVE (x \o y)[i] = z[i]
      <3>1. CASE i <= m
        <4>1. i \in 1..m
          BY <2>2, <3>1
        <4>2. (x \o y)[i] = x[i] /\ x[i] = ReadOf(c[i])
          BY <2>4, <2>5, <3>1, <4>1
        <4>3. z[i] = ReadOf(e[i]) /\ e[i] = c[i]
          BY <2>2, <2>4, <3>1, <4>1
        <4>. QED
          BY <4>2, <4>3
      <3>2. CASE ~(i <= m)
        <4>1. i - m \in 1..n
          BY <2>2, <3>2
        <4>. QED
          BY <2>2, <2>4, <2>5, <3>2, <4>1
      <3>. QED
        BY <3>1, <3>2
    <2>7. z = x \o y
      BY <2>4, <2>5, <2>6, SeqEqual
    <2>. QED
      BY <2>1, <2>3, <2>7
  <1>3. \A c : WrittenOf(c) = FlattenSeq(Reads(c))
    BY DEF WrittenOf
  <1>4. \A c \in Seq(Contents) : Reads(c) \in Seq(Seq(A))
    BY <1>1
  <1> HIDE DEF Reads
  <1>5. ASSUME NEW c \in Seq(Contents), NEW d \in Seq(Contents)
        PROVE  WrittenOf(c) \in Seq(A) /\ WrittenOf(c \o d) = WrittenOf(c) \o WrittenOf(d)
    <2>1. FlattenSeq(Reads(c)) \in Seq(A)
      BY <1>4, JoinedType, Zenon
    <2>2. FlattenSeq(Reads(c) \o Reads(d)) = FlattenSeq(Reads(c)) \o FlattenSeq(Reads(d))
      BY <1>4, JoinedBoth, Zenon
    <2>. QED
      BY <1>2, <1>3, <2>1, <2>2, Zenon
  <1>. QED
    BY <1>5

\* What a panel is given for one call of the writer.
LEMMA InsertedIs ==
    ASSUME NEW hud \in ForEachChatHud, NEW op \in ShownOps
    PROVE  Inserted(hud, op) \in Seq(Contents) /\ WrittenOf(Inserted(hud, op)) = Adds(op)
  <1> DEFINE A == UnitKinds \cup SwatchNames \cup Int
  <1>0. hud \in Int
    <2>1. HudContext \in Seq(Nat)
      BY ChatTextsAssumption DEF ChatTextsAssumption
    <2>. QED
      BY <2>1 DEF ForEachChatHud
  <1>1. ASSUME NEW c \in Contents
        PROVE  <<c>> \in Seq(Contents) /\ WrittenOf(<<c>>) = ReadOf(c) /\ ReadOf(c) \in Seq(A)
    <2>1. ReadOf(c) \in Seq(A)
      BY DEF ReadOf, Contents
    <2>2. <<>> \in Seq(Seq(A))
      OBVIOUS
    <2>3. PICK x, r : x = [i \in DOMAIN <<c>> |-> ReadOf(<<c>>[i])] /\ r = ReadOf(c)
      OBVIOUS
    <2>4. x = Append(<<>>, r)
      BY <2>3
    <2>5. FlattenSeq(Append(<<>>, r)) = FlattenSeq(<<>>) \o r
      BY <2>1, <2>2, <2>3, JoinedAppend, Zenon
    <2>6. <<>> \o r = r
      BY <2>1, <2>3, ConcatEmptySeq
    <2>7. WrittenOf(<<c>>) = FlattenSeq(x)
      BY <2>3 DEF WrittenOf
    <2>. QED
      <3>1. WrittenOf(<<c>>) = FlattenSeq(<<>>) \o r
        BY <2>4, <2>5, <2>7
      <3>2. WrittenOf(<<c>>) = r
        BY <2>6, <3>1, JoinedNone
      <3>3. <<c>> \in Seq(Contents)
        OBVIOUS
      <3>. QED
        BY <2>1, <2>3, <3>2, <3>3
  <1>2. CASE op.kind = "text"
    <2>1. op.is \in Seq(Kinds)
      BY <1>2 DEF ShownOps
    <2>2. PICK u : u = Units(op.is)
      OBVIOUS
    <2>3. u \in Seq(UnitKinds) /\ u \in Seq(A)
      <3>1. u \in Seq(UnitKinds)
        BY <2>1, <2>2, UnitsType
      <3>. QED
        BY <3>1, SeqMonotonic
    <2>4. PICK c, d : c = [kind |-> "string", is |-> u] /\ d = [kind |-> "fade", is |-> <<>>]
      OBVIOUS
    <2>5. c \in Contents /\ d \in Contents /\ ReadOf(c) = u /\ ReadOf(d) = <<>>
      BY <2>3, <2>4 DEF Contents, ReadOf
    <2>6. Inserted(hud, op) = <<c, d>> /\ <<c, d>> = <<c>> \o <<d>>
      BY <1>2, <2>2, <2>4 DEF Inserted
    <2>7. WrittenOf(<<c>> \o <<d>>) = WrittenOf(<<c>>) \o WrittenOf(<<d>>)
      BY <1>1, <2>5, WrittenOfBoth, Zenon
    <2>8. u \o <<>> = u
      BY <2>3, ConcatEmptySeq
    <2>9. <<c, d>> \in Seq(Contents)
      BY <2>5
    <2>. QED
      BY <1>1, <1>2, <2>2, <2>5, <2>6, <2>7, <2>8, <2>9 DEF Adds
  <1>3. CASE op.kind # "text"
    <2>1. PICK c : c = IF op.kind = "swatch" THEN [kind |-> "colour", is |-> SwatchOf(hud, op.is[1])] ELSE op
      OBVIOUS
    <2>2. Inserted(hud, op) = <<c>>
      BY <1>3, <2>1 DEF Inserted, ShownOps
    <2>3. c \in Contents /\ c.kind # "string"
      <3>1. CASE op.kind = "swatch"
        <4>1. op.is[1] \in SwatchNames
          BY <3>1 DEF ShownOps, SwatchNames
        <4>2. SwatchOf(hud, op.is[1]) \in Seq(A)
          BY <1>0, <4>1 DEF SwatchOf
        <4>. QED
          BY <2>1, <3>1, <4>2 DEF Contents
      <3>2. CASE op.kind = "char"
        <4>1. op = [kind |-> "char", is |-> <<NewLine>>]
          BY <3>2 DEF ShownOps
        <4>2. NewLine \in UnitKinds
          BY DEF UnitKinds, Kinds
        <4>3. <<NewLine>> \in Seq(A)
          BY <4>2
        <4>. QED
          BY <2>1, <3>2, <4>1, <4>3 DEF Contents
      <3>3. CASE op.kind = "colour"
        <4>1. op \in [kind : {"colour"}, is : Seq(Int)]
          BY <3>3 DEF ShownOps
        <4>2. op.is \in Seq(A)
          BY <4>1, SeqMonotonic
        <4>. QED
          BY <2>1, <3>3, <4>1, <4>2 DEF Contents
      <3>. QED
        BY <1>3, <3>1, <3>2, <3>3 DEF ShownOps
    <2>4. ReadOf(c) = <<>>
      BY <2>3 DEF ReadOf
    <2>. QED
      BY <1>1, <1>3, <2>2, <2>3, <2>4 DEF Adds
  <1>. QED
    BY <1>2, <1>3

\* What is to be read on a panel after the calls of the writer, and one more.
LEMMA ContentsMore ==
    ASSUME NEW hud \in ForEachChatHud, NEW s \in Seq(ShownOps), NEW op \in ShownOps
    PROVE  /\ ContentsOf(hud, s) \in Seq(Contents)
           /\ WrittenOf(ContentsOf(hud, Append(s, op))) = WrittenOf(ContentsOf(hud, s)) \o Adds(op)
  <1> DEFINE Gives(t) == [i \in DOMAIN t |-> Inserted(hud, t[i])]
  <1>1. ASSUME NEW t \in Seq(ShownOps)
        PROVE  /\ Gives(t) \in Seq(Seq(Contents)) /\ Len(Gives(t)) = Len(t)
               /\ \A i \in 1..Len(t) : Gives(t)[i] = Inserted(hud, t[i])
    <2>1. DOMAIN t = 1..Len(t) /\ Len(t) \in Nat /\ \A i \in 1..Len(t) : t[i] \in ShownOps
      BY ElementOfSeq
    <2>2. \A i \in 1..Len(t) : Inserted(hud, t[i]) \in Seq(Contents)
      BY <2>1, InsertedIs
    <2>. QED
      BY <2>1, <2>2
  <1>2. PICK t, n : t = Append(s, op) /\ n = Len(s)
    OBVIOUS
  <1>3. t \in Seq(ShownOps) /\ Len(t) = n + 1 /\ n \in Nat /\ t[n + 1] = op /\ \A i \in 1..n : t[i] = s[i]
    BY <1>2, AppendProperties
  <1>4. PICK x, y : x = Gives(s) /\ y = Gives(t)
    OBVIOUS
  <1>5. /\ x \in Seq(Seq(Contents)) /\ Len(x) = n /\ \A i \in 1..n : x[i] = Inserted(hud, s[i])
        /\ y \in Seq(Seq(Contents)) /\ Len(y) = n + 1 /\ \A i \in 1..n + 1 : y[i] = Inserted(hud, t[i])
    <2> HIDE DEF Gives
    <2>1. x \in Seq(Seq(Contents)) /\ Len(x) = n /\ \A i \in 1..n : x[i] = Inserted(hud, s[i])
      BY <1>1, <1>2, <1>4
    <2>2. y \in Seq(Seq(Contents)) /\ Len(y) = n + 1 /\ \A i \in 1..n + 1 : y[i] = Inserted(hud, t[i])
      BY <1>1, <1>3, <1>4
    <2>. QED
      BY <2>1, <2>2
  <1>6. \A i \in 1..n : y[i] = x[i]
    BY <1>3, <1>5
  <1>7. y[n + 1] = Inserted(hud, op)
    BY <1>3, <1>5
  <1>8. FlattenSeq(y) = FlattenSeq(x) \o y[Len(y)]
    BY <1>5, <1>6, JoinedMore
  <1>9. ContentsOf(hud, s) = FlattenSeq(x) /\ ContentsOf(hud, t) = FlattenSeq(y)
    BY <1>4 DEF ContentsOf
  <1>10. FlattenSeq(x) \in Seq(Contents) /\ Inserted(hud, op) \in Seq(Contents) /\ WrittenOf(Inserted(hud, op)) = Adds(op)
    <2>1. FlattenSeq(x) \in Seq(Contents)
      BY <1>5, JoinedType, Zenon
    <2>. QED
      BY <2>1, InsertedIs
  <1>11. ContentsOf(hud, t) = ContentsOf(hud, s) \o Inserted(hud, op)
    BY <1>5, <1>7, <1>8, <1>9
  <1>12. WrittenOf(ContentsOf(hud, s) \o Inserted(hud, op)) = WrittenOf(ContentsOf(hud, s)) \o WrittenOf(Inserted(hud, op))
    BY <1>9, <1>10, WrittenOfBoth, Zenon
  <1>. QED
    BY <1>2, <1>9, <1>10, <1>11, <1>12

LEMMA WrittenIs ==
    \A hud \in ForEachChatHud : /\ Written(hud) = WrittenOf(ContentsOf(hud, shown))
                                /\ WrittenOf(ContentsOf(hud, <<>>)) = <<>>
  <1> SUFFICES ASSUME NEW hud \in ForEachChatHud
               PROVE  /\ Written(hud) = WrittenOf(ContentsOf(hud, shown))
                      /\ WrittenOf(ContentsOf(hud, <<>>)) = <<>>
    OBVIOUS
  <1>1. HudContents(hud) = ContentsOf(hud, shown)
    BY DEF HudContents, ContentsOf
  <1>2. Written(hud) = WrittenOf(HudContents(hud))
    BY DEF Written, WrittenOf, ReadOf
  <1>3. [i \in DOMAIN <<>> |-> Inserted(hud, <<>>[i])] = <<>>
    OBVIOUS
  <1>4. ContentsOf(hud, <<>>) = <<>>
    BY <1>3, JoinedNone DEF ContentsOf
  <1>5. [i \in DOMAIN <<>> |-> ReadOf(<<>>[i])] = <<>>
    OBVIOUS
  <1>6. WrittenOf(<<>>) = <<>>
    BY <1>5, JoinedNone DEF WrittenOf
  <1>. QED
    BY <1>1, <1>2, <1>4, <1>6

-----------------------------------------------------------------------------
(* What the writer has shown of the text (WriteChatText)                    *)

Rest(i) == SubSeq(text, i, Len(text))

\* Letters: those to be read on a panel and those to come are those of the text.
LettersAre(n) ==
    \A hud \in ForEachChatHud : Count(Written(hud), Letter) + n = Count(text, Letter)
TextLetters ==
    /\ shown \in Seq(ShownOps) /\ channels \in Seq(Int)
    /\ stage \in {"write", "escape"} => IsCut \/ LettersAre(Count(Rest(at), Letter))
    /\ stage = "shown" => IsCut \/ LettersAre(0)
    /\ stage = "clean" => shown = <<>>

LEMMA PieceType ==
    ASSUME TextPlaced, NEW i \in 1..Len(text), NEW j \in i..Len(text)
    PROVE  /\ Piece(i, j).is = SubSeq(text, i, j - 1) /\ Piece(i, j).is \in Seq(Kinds)
           /\ Len(Piece(i, j).is) = j - i
           /\ \A k \in 1..j - i : Piece(i, j).is[k] = text[i + k - 1]
           /\ Piece(i, j) \in ShownOps /\ Piece(i, j).kind = "text"
  <1>1. PICK n : n = Len(given)
    OBVIOUS
  <1>2. n \in Nat /\ Len(text) = n + 1 /\ \A k \in 1..n : text[k] \in Kinds
    BY <1>1, TextTypes DEF TextPlaced
  <1>3. i \in Int /\ j - 1 \in Int /\ \A k \in i..j - 1 : text[k] \in Kinds
    BY <1>2
  <1>4. PICK p : p = SubSeq(text, i, j - 1)
    OBVIOUS
  <1>5. /\ p \in Seq(Kinds) /\ Len(p) = IF i <= j - 1 THEN (j - 1) - i + 1 ELSE 0
        /\ \A k \in 1..(j - 1) - i + 1 : p[k] = text[i + k - 1]
    BY <1>3, <1>4, SubSeqProperties
  <1>6. Len(p) = j - i /\ \A k \in 1..j - i : p[k] = text[i + k - 1]
    BY <1>2, <1>5
  <1>7. Piece(i, j) = [kind |-> "text", is |-> p]
    BY <1>4 DEF Piece
  <1>. QED
    <2>1. Piece(i, j) \in [kind : {"text"}, is : Seq(Kinds)]
      BY <1>5, <1>7
    <2>2. Piece(i, j) \in ShownOps
      BY <2>1 DEF ShownOps
    <2>3. Piece(i, j).is = p /\ Piece(i, j).kind = "text"
      BY <1>7
    <2>. QED
      BY <1>4, <1>5, <1>6, <2>2, <2>3

\* The letters to come from one place are those up to another and from there.
LEMMA RestSplits ==
    ASSUME TextPlaced, NEW i \in 1..Len(text), NEW j \in i..Len(text)
    PROVE  /\ Count(Rest(i), Letter) = Count(Piece(i, j).is, Letter) + Count(Rest(j), Letter)
           /\ Count(Rest(i), Letter) \in Nat /\ Count(Piece(i, j).is, Letter) \in Nat
           /\ (\A k \in i..j - 1 : text[k] # Letter) => Count(Piece(i, j).is, Letter) = 0
  <1>1. PICK n, S : n = Len(text) /\ S = Kinds \cup {End}
    OBVIOUS
  <1>2. n \in Nat /\ text \in Seq(S) /\ i \in 1..n /\ j \in i..n
    BY <1>1, TextTypes DEF TextPlaced
  <1>3. PICK p, r, q : p = Piece(i, j).is /\ r = Rest(j) /\ q = Rest(i)
    OBVIOUS
  <1>4. p \in Seq(Kinds) /\ p = SubSeq(text, i, j - 1) /\ Len(p) = j - i /\ \A k \in 1..j - i : p[k] = text[i + k - 1]
    BY <1>3, PieceType
  <1>5. q = SubSeq(text, i, n) /\ r = SubSeq(text, j, n) /\ r \in Seq(S) /\ q \in Seq(S) /\ p \in Seq(S)
    <2>1. q = SubSeq(text, i, n) /\ r = SubSeq(text, j, n)
      BY <1>1, <1>3 DEF Rest
    <2>2. r \in Seq(S) /\ q \in Seq(S)
      <3>1. (\A k \in i..n : text[k] \in S) /\ (\A k \in j..n : text[k] \in S) /\ i \in Int /\ j \in Int
        BY <1>1, <1>2, ElementOfSeq
      <3>2. SubSeq(text, i, n) \in Seq(S)
        BY <1>2, <3>1, SubSeqProperties
      <3>3. SubSeq(text, j, n) \in Seq(S)
        BY <1>2, <3>1, SubSeqProperties
      <3>. QED
        BY <2>1, <3>2, <3>3
    <2>3. p \in Seq(S)
      BY <1>1, <1>4, SeqMonotonic
    <2>. QED
      BY <2>1, <2>2, <2>3
  <1>6. q = p \o r
    <2>1. i \in 1..Len(text) + 1 /\ j - 1 \in i - 1..Len(text) /\ n \in j - 1..Len(text)
      BY <1>1, <1>2
    <2>2. SubSeq(text, i, j - 1) \o SubSeq(text, (j - 1) + 1, n) = SubSeq(text, i, n)
      BY <1>2, <2>1, ConcatAdjacentSubSeq
    <2>3. (j - 1) + 1 = j
      BY <1>2
    <2>. QED
      BY <1>4, <1>5, <2>2, <2>3
  <1>7. Count(p \o r, Letter) = Count(p, Letter) + Count(r, Letter)
    BY <1>5, CountBoth, Zenon
  <1>8. Count(q, Letter) \in Nat /\ Count(p, Letter) \in Nat
    BY <1>5, CountFinite, Zenon
  <1>9. ASSUME \A k \in i..j - 1 : text[k] # Letter PROVE Count(p, Letter) = 0
    <2>1. \A k \in 1..Len(p) : p[k] # Letter
      <3>1. \A k \in 1..j - i : i + k - 1 \in i..j - 1
        BY <1>2
      <3>. QED
        BY <1>4, <1>9, <3>1
    <2>2. Count(p, Letter) = 0 <=> \A k \in 1..Len(p) : p[k] # Letter
      BY <1>5, CountZero, Zenon
    <2>. QED
      BY <2>1, <2>2
  <1>. QED
    BY <1>3, <1>6, <1>7, <1>8, <1>9

\* One more call of the writer adds its piece's letters, or none.
LEMMA WrittenMore ==
    ASSUME shown \in Seq(ShownOps), NEW op \in ShownOps, shown' = Append(shown, op)
    PROVE  /\ shown' \in Seq(ShownOps) /\ (IsCut => IsCut')
           /\ op.kind = "text" /\ Len(op.is) = ChunkLimit => IsCut'
           /\ \A hud \in ForEachChatHud : \A x :
                 Count(Written(hud)', x) = Count(Written(hud), x) + Count(Adds(op), x)
  <1>1. /\ shown' \in Seq(ShownOps) /\ Len(shown') = Len(shown) + 1 /\ Len(shown) \in Nat
        /\ shown'[Len(shown) + 1] = op /\ \A i \in 1..Len(shown) : shown'[i] = shown[i]
        /\ DOMAIN shown = 1..Len(shown) /\ DOMAIN shown' = 1..Len(shown) + 1
    BY AppendProperties
  <1>2. IsCut => IsCut'
    BY <1>1 DEF IsCut
  <1>3. op.kind = "text" /\ Len(op.is) = ChunkLimit => IsCut'
    BY <1>1 DEF IsCut
  <1>4. ASSUME NEW hud \in ForEachChatHud, NEW x
        PROVE  Count(Written(hud)', x) = Count(Written(hud), x) + Count(Adds(op), x)
    <2> DEFINE A == UnitKinds \cup SwatchNames \cup Int
    <2>1. PICK s : s = Append(shown, op)
      OBVIOUS
    <2>2. Written(hud) = WrittenOf(ContentsOf(hud, shown)) /\ Written(hud)' = WrittenOf(ContentsOf(hud, s))
      <3>1. Written(hud) = WrittenOf(ContentsOf(hud, shown))
        BY WrittenIs
      <3>2. Written(hud)' = WrittenOf(ContentsOf(hud, shown'))
        BY DEF Written, HudContents, ForEachChatHud, WrittenOf, ContentsOf, ReadOf
      <3>. QED
        BY <2>1, <3>1, <3>2
    <2>3. /\ ContentsOf(hud, shown) \in Seq(Contents)
          /\ WrittenOf(ContentsOf(hud, Append(shown, op))) = WrittenOf(ContentsOf(hud, shown)) \o Adds(op)
      BY ContentsMore
    <2>4. WrittenOf(ContentsOf(hud, shown)) \in Seq(A)
      BY <2>3, WrittenOfBoth, Zenon
    <2>5. Adds(op) \in Seq(A)
      <3>1. Inserted(hud, op) \in Seq(Contents) /\ WrittenOf(Inserted(hud, op)) = Adds(op)
        BY InsertedIs
      <3>2. WrittenOf(Inserted(hud, op)) \in Seq(A)
        BY <3>1, WrittenOfBoth, Zenon
      <3>. QED
        BY <3>1, <3>2
    <2>6. Count(WrittenOf(ContentsOf(hud, shown)) \o Adds(op), x)
            = Count(WrittenOf(ContentsOf(hud, shown)), x) + Count(Adds(op), x)
      <3> HIDE DEF A
      <3>. QED
        BY <2>4, <2>5, CountBoth, Zenon
    <2>. QED
      BY <2>1, <2>2, <2>3, <2>6
  <1>. QED
    BY <1>1, <1>2, <1>3, <1>4

LEMMA ValueIs ==
    ASSUME channels \in Seq(Int), NEW v \in Int
    PROVE  /\ Value(v).channels \in Seq(Int)
           /\ \/ Value(v).shows = <<>>
              \/ \E op \in ShownOps : Value(v).shows = <<op>> /\ op.kind # "text"
  <1>1. PICK c : c = channels
    OBVIOUS
  <1>2. c \in Seq(Int)
    BY <1>1
  <1>3. /\ <<>> \in Seq(Int) /\ Append(c, v) \in Seq(Int) /\ <<v>> \in Seq(Int) /\ <<38, 5, v>> \in Seq(Int)
        /\ <<38, 2>> \o c \o <<v>> \in Seq(Int)
    <2>1. <<38, 2>> \in Seq(Int) /\ <<v>> \in Seq(Int)
      OBVIOUS
    <2>2. <<38, 2>> \o c \in Seq(Int)
      BY <1>2, <2>1, ConcatProperties
    <2>3. (<<38, 2>> \o c) \o <<v>> \in Seq(Int)
      BY <2>1, <2>2, ConcatProperties
    <2>. QED
      BY <1>2, <2>3
  <1>4. \A cs \in Seq(Int) : [kind |-> "colour", is |-> cs] \in ShownOps
    BY DEF ShownOps
  <1>5. \A n \in {"main", "sameTeam", "enemyTeam", "network"} : Swatch(n) \in ShownOps
    BY DEF ShownOps, Swatch
  <1>6. v \in 110..113 => <<"main", "sameTeam", "enemyTeam", "network">>[v - 109] \in {"main", "sameTeam", "enemyTeam", "network"}
    OBVIOUS
  <1>7. CASE next = "type"
    <2>1. CASE v \in {0, 39}
      <3>1. Value(v) = [shows |-> <<Swatch("main")>>, next |-> "type", channels |-> <<>>]
        <4>1. v \in {0, 39} /\ v \notin 30..37 \cup 90..97 /\ v \notin 110..113 /\ v # 38
          BY <2>1
        <4>. QED
          BY ONLY <1>7, <4>1 DEF Value
      <3>2. Swatch("main").kind # "text"
        BY DEF Swatch
      <3>. QED
        BY <1>3, <1>5, <3>1, <3>2
    <2>2. CASE v \in 30..37 \cup 90..97
      <3>1. Value(v) = [shows |-> <<[kind |-> "colour", is |-> <<v>>]>>, next |-> "type", channels |-> <<>>]
        <4>1. v \in 30..37 \cup 90..97 /\ v \notin {0, 39} /\ v \notin 110..113 /\ v # 38
          BY <2>2
        <4>. QED
          BY ONLY <1>7, <4>1 DEF Value
      <3>2. PICK op : op = [kind |-> "colour", is |-> <<v>>]
        OBVIOUS
      <3>3. op \in ShownOps /\ op.kind # "text"
        BY <1>3, <1>4, <3>2
      <3>. QED
        BY <1>3, <3>1, <3>2, <3>3
    <2>3. CASE v \in 110..113
      <3>1. PICK n : n = <<"main", "sameTeam", "enemyTeam", "network">>[v - 109]
        OBVIOUS
      <3>2. Value(v) = [shows |-> <<Swatch(n)>>, next |-> "type", channels |-> <<>>]
        BY <1>7, <2>3, <3>1 DEF Value
      <3>3. Swatch(n).kind # "text"
        BY DEF Swatch
      <3>. QED
        BY <1>3, <1>5, <1>6, <2>3, <3>1, <3>2, <3>3
    <2>4. CASE v = 38
      <3>1. Value(v) = [shows |-> <<>>, next |-> "foreground", channels |-> <<>>]
        BY <1>7, <2>4 DEF Value
      <3>. QED
        BY <1>3, <3>1
    <2>5. CASE v \notin {0, 38, 39} \cup 30..37 \cup 90..97 \cup 110..113
      <3>1. Value(v) = [shows |-> <<>>, next |-> "type", channels |-> <<>>]
        BY <1>7, <2>5 DEF Value
      <3>. QED
        BY <1>3, <3>1
    <2>. QED
      BY <2>1, <2>2, <2>3, <2>4, <2>5
  <1>8. CASE next # "type"
    BY <1>1, <1>3, <1>4, <1>8 DEF Value
  <1>. QED
    BY <1>7, <1>8

LEMMA ValueOfType == \A s \in Numbers : ValueOf(s) \in Int
  BY DEF Numbers, ValueOf

LEMMA TextLettersStarts == ChatTextInit => TextLetters
  BY DEF ChatTextInit, TextLetters

\* What CleanEnds gives the writer.
LEMMA CleanEndsWrites ==
    ASSUME TextPlaced, TextLetters, CleanEnds
    PROVE  /\ text' = text /\ given' = given /\ channels' = channels /\ at' = 1 /\ stage = "clean" /\ text[at] = End
           /\ \/ stage' = "write" /\ shown' = <<>>
              \/ stage' = "shown" /\ shown' = Append(shown, Piece(1, Len(text)))
              \/ /\ stage' = "write"
                 /\ \E a, b \in ShownOps : /\ a.kind # "text" /\ b.kind # "text"
                                           /\ shown' = Append(Append(shown, a), b)
  <1>1. stage = "clean" /\ text[at] = End /\ text' = text /\ given' = given /\ channels' = channels /\ at' = 1
        /\ shown = <<>>
    BY DEF CleanEnds, TextLetters
  <1>2. EndPlace = Len(text)
    BY TextPlacedIs DEF EndStays, TextPlaced
  <1>3. CASE ChatWrite
    BY <1>1, <1>3 DEF ChatWrite
  <1>4. CASE ChatWriteRaw
    <2>1. shown' = <<Piece(1, Len(text))>> /\ stage' = "shown"
      BY <1>2, <1>4 DEF ChatWriteRaw
    <2>. QED
      BY <1>1, <2>1
  <1>5. CASE ChatWriteLine
    <2>1. PICK a, b : a = [kind |-> "char", is |-> <<NewLine>>] /\ b = Swatch("main")
      OBVIOUS
    <2>2. a \in ShownOps /\ b \in ShownOps /\ a.kind # "text" /\ b.kind # "text"
      BY <2>1 DEF ShownOps, Swatch
    <2>3. shown' = <<a, b>> /\ stage' = "write"
      BY <1>5, <2>1 DEF ChatWriteLine
    <2>4. <<a, b>> = Append(Append(<<>>, a), b)
      OBVIOUS
    <2>. QED
      BY <1>1, <2>2, <2>3, <2>4
  <1>. QED
    BY <1>1, <1>3, <1>4, <1>5 DEF CleanEnds

\* Of the calls that bring no text nothing is to be read.
LEMMA ShownMore ==
    ASSUME shown \in Seq(ShownOps), NEW op \in ShownOps, op.kind # "text", shown' = Append(shown, op)
    PROVE  /\ shown' \in Seq(ShownOps) /\ (IsCut' <=> IsCut)
           /\ \A hud \in ForEachChatHud : Written(hud)' = Written(hud)
  <1>1. /\ shown' \in Seq(ShownOps) /\ Len(shown') = Len(shown) + 1 /\ Len(shown) \in Nat
        /\ shown'[Len(shown) + 1] = op /\ \A i \in 1..Len(shown) : shown'[i] = shown[i]
        /\ DOMAIN shown = 1..Len(shown) /\ DOMAIN shown' = 1..Len(shown) + 1
    BY AppendProperties
  <1>2. IsCut' <=> IsCut
    BY <1>1 DEF IsCut
  <1>3. ASSUME NEW hud \in ForEachChatHud PROVE Written(hud)' = Written(hud)
    <2>1. PICK s : s = Append(shown, op)
      OBVIOUS
    <2>2. Written(hud) = WrittenOf(ContentsOf(hud, shown)) /\ Written(hud)' = WrittenOf(ContentsOf(hud, s))
      <3>1. Written(hud) = WrittenOf(ContentsOf(hud, shown))
        BY WrittenIs
      <3>2. Written(hud)' = WrittenOf(ContentsOf(hud, shown'))
        BY DEF Written, HudContents, ForEachChatHud, WrittenOf, ContentsOf, ReadOf
      <3>. QED
        BY <2>1, <3>1, <3>2
    <2>3. /\ ContentsOf(hud, shown) \in Seq(Contents)
          /\ WrittenOf(ContentsOf(hud, Append(shown, op))) = WrittenOf(ContentsOf(hud, shown)) \o <<>>
      BY ContentsMore DEF Adds
    <2>4. WrittenOf(ContentsOf(hud, shown)) \in Seq(UnitKinds \cup SwatchNames \cup Int)
      BY <2>3, WrittenOfBoth, Zenon
    <2>5. WrittenOf(ContentsOf(hud, shown)) \o <<>> = WrittenOf(ContentsOf(hud, shown))
      BY <2>4, ConcatEmptySeq
    <2>. QED
      BY <2>1, <2>2, <2>3, <2>5
  <1>. QED
    BY <1>1, <1>2, <1>3

\* Before anything is given nothing is to be read.
LEMMA NothingWritten ==
    ASSUME NEW hud \in ForEachChatHud
    PROVE  WrittenOf(ContentsOf(hud, <<>>)) = <<>>
  <1>1. [i \in DOMAIN <<>> |-> Inserted(hud, <<>>[i])] = <<>> /\ [i \in DOMAIN <<>> |-> ReadOf(<<>>[i])] = <<>>
    OBVIOUS
  <1>. QED
    BY <1>1, JoinedNone DEF ContentsOf, WrittenOf

LEMMA WrittenThen ==
    ASSUME NEW hud \in ForEachChatHud
    PROVE  /\ Written(hud) = WrittenOf(ContentsOf(hud, shown))
           /\ Written(hud)' = WrittenOf(ContentsOf(hud, shown'))
  <1>1. Written(hud) = WrittenOf(ContentsOf(hud, shown))
    BY WrittenIs
  <1>2. Written(hud)' = WrittenOf(ContentsOf(hud, shown'))
    BY DEF Written, HudContents, ForEachChatHud, WrittenOf, ContentsOf, ReadOf
  <1>. QED
    BY <1>1, <1>2

\* Behind the text's last byte there is no letter.
LEMMA RestAtEnds ==
    ASSUME TextPlaced
    PROVE  Rest(1) = text /\ Count(Rest(Len(text)), Letter) = 0 /\ Count(text, Letter) \in Nat /\ 1 \in 1..Len(text) /\ Len(text) \in at..Len(text)
  <1>1. PICK n, S : n = Len(text) /\ S = Kinds \cup {End}
    OBVIOUS
  <1>2. n \in Nat /\ n >= 1 /\ text \in Seq(S) /\ text[n] = End /\ at \in 1..n
    BY <1>1, TextTypes DEF TextPlaced
  <1>3. SubSeq(text, 1, n) = text
    BY <1>1, <1>2, SubSeqFull
  <1>4. Rest(n) = <<End>>
    <2>1. \A i \in n..n : text[i] \in S
      BY <1>1, <1>2, ElementOfSeq
    <2>2. PICK r : r = SubSeq(text, n, n)
      OBVIOUS
    <2>3. n \in Int
      BY <1>2
    <2>4. r \in Seq(S) /\ Len(r) = (IF n <= n THEN n - n + 1 ELSE 0) /\ \A i \in 1..n - n + 1 : r[i] = text[n + i - 1]
      BY <2>1, <2>2, <2>3, SubSeqProperties
    <2>5. Len(r) = 1 /\ r[1] = End
      BY <1>2, <2>4
    <2>6. r = <<End>>
      BY <2>4, <2>5
    <2>. QED
      BY <1>1, <2>2, <2>6 DEF Rest
  <1>5. Count(<<End>>, Letter) = Once(End, Letter)
    BY CountOne, Zenon
  <1>6. Once(End, Letter) = 0
    BY DEF Once, End, Letter
  <1>7. Count(text, Letter) \in Nat
    BY <1>2, CountFinite, Zenon
  <1>. QED
    BY <1>1, <1>2, <1>3, <1>4, <1>5, <1>6, <1>7 DEF Rest

\* The letters' part of the invariant behind a step, by what there is then.
LEMMA LettersThen ==
    ASSUME text' = text, shown' \in Seq(ShownOps), channels' \in Seq(Int), NEW n, stage' # "clean",
           stage' \in {"write", "escape"} => n = Count(SubSeq(text', at', Len(text')), Letter),
           stage' = "shown" => n = 0,
           IsCut' \/ \A hud \in ForEachChatHud : Count(WrittenOf(ContentsOf(hud, shown')), Letter) + n = Count(text, Letter)
    PROVE  TextLetters'
  <1>1. n = n'
    OBVIOUS
  <1>2. ASSUME ~IsCut' PROVE LettersAre(n)'
    <2>1. \A hud \in ForEachChatHud : Count(WrittenOf(ContentsOf(hud, shown')), Letter) + n = Count(text', Letter)
      BY <1>2
    <2>2. \A hud \in ForEachChatHud : Written(hud)' = WrittenOf(ContentsOf(hud, shown'))
      BY WrittenThen
    <2>3. \A hud \in ForEachChatHud : Count(Written(hud)', Letter) + n = Count(text', Letter)
      BY <2>1, <2>2
    <2>. QED
      BY <2>3 DEF LettersAre, ForEachChatHud, Count
  <1>3. stage' \in {"write", "escape"} => n = Count(Rest(at), Letter)'
    BY DEF Rest, Count
  <1>. QED
    BY <1>2, <1>3 DEF TextLetters, LettersAre

\* When the cleaning ends nothing is to be read yet, or the text as it is.
LEMMA CleanEndsReads ==
    ASSUME TextPlaced, TextLetters, CleanEnds
    PROVE  /\ shown' \in Seq(ShownOps)
           /\ \/ stage' = "write" /\ \A hud \in ForEachChatHud : WrittenOf(ContentsOf(hud, shown')) = <<>>
              \/ /\ stage' = "shown"
                 /\ \A hud \in ForEachChatHud : WrittenOf(ContentsOf(hud, shown')) = Units(Piece(1, Len(text)).is)
  <1>1. shown = <<>> /\ shown \in Seq(ShownOps)
    BY CleanEndsWrites DEF TextLetters
  <1>2. CASE stage' = "write" /\ shown' = <<>>
    BY <1>1, <1>2, NothingWritten
  <1>3. CASE stage' = "write" /\ \E a, b \in ShownOps : /\ a.kind # "text" /\ b.kind # "text"
                                                       /\ shown' = Append(Append(shown, a), b)
    <2>1. PICK a \in ShownOps, b \in ShownOps : a.kind # "text" /\ b.kind # "text" /\ shown' = Append(Append(shown, a), b)
      BY <1>3
    <2>2. PICK s : s = Append(shown, a)
      OBVIOUS
    <2>3. s \in Seq(ShownOps) /\ Append(s, b) \in Seq(ShownOps)
      BY <1>1, <2>2, AppendProperties
    <2>4. ASSUME NEW hud \in ForEachChatHud PROVE WrittenOf(ContentsOf(hud, Append(s, b))) = <<>>
      <3>1. WrittenOf(ContentsOf(hud, s)) = WrittenOf(ContentsOf(hud, shown)) \o <<>>
        BY <1>1, <2>1, <2>2, ContentsMore DEF Adds
      <3>2. WrittenOf(ContentsOf(hud, Append(s, b))) = WrittenOf(ContentsOf(hud, s)) \o <<>>
        BY <2>1, <2>3, ContentsMore DEF Adds
      <3>3. WrittenOf(ContentsOf(hud, shown)) = <<>>
        BY <1>1, NothingWritten
      <3>. QED
        BY <3>1, <3>2, <3>3
    <2>. QED
      BY <1>3, <2>1, <2>2, <2>3, <2>4
  <1>4. CASE stage' = "shown" /\ shown' = Append(shown, Piece(1, Len(text)))
    <2>1. PICK p : p = Piece(1, Len(text))
      OBVIOUS
    <2>2. p \in ShownOps /\ p.kind = "text" /\ p.is \in Seq(Kinds)
      BY <2>1, RestAtEnds, PieceType
    <2>3. ASSUME NEW hud \in ForEachChatHud PROVE WrittenOf(ContentsOf(hud, shown')) = Units(p.is)
      <3>1. WrittenOf(ContentsOf(hud, shown')) = WrittenOf(ContentsOf(hud, shown)) \o Units(p.is)
        BY <1>1, <1>4, <2>1, <2>2, ContentsMore DEF Adds
      <3>2. WrittenOf(ContentsOf(hud, shown)) = <<>>
        BY <1>1, NothingWritten
      <3>3. Units(p.is) \in Seq(UnitKinds)
        BY <2>2, UnitsType
      <3>4. <<>> \o Units(p.is) = Units(p.is)
        BY <3>3, ConcatEmptySeq
      <3>. QED
        BY <3>1, <3>2, <3>4
    <2>4. shown' \in Seq(ShownOps)
      BY <1>1, <1>4, <2>1, <2>2, AppendProperties
    <2>. QED
      BY <1>4, <2>1, <2>3, <2>4
  <1>. QED
    BY <1>2, <1>3, <1>4, CleanEndsWrites

LEMMA CleanEndsLetters ==
    ASSUME TextPlaced, TextLetters, CleanEnds
    PROVE  TextLetters'
  <1>1. text' = text /\ channels' = channels /\ at' = 1 /\ channels' \in Seq(Int)
    BY CleanEndsWrites DEF TextLetters
  <1>2. PICK c, p : c = Count(text, Letter) /\ p = Piece(1, Len(text)).is
    OBVIOUS
  <1>3. c \in Nat /\ Rest(1) = text /\ Count(<<>>, Letter) = 0
    BY <1>2, RestAtEnds, CountNothing
  <1>4. SubSeq(text', at', Len(text')) = text
    BY <1>1, <1>3 DEF Rest
  <1>5. CASE stage' = "write" /\ \A hud \in ForEachChatHud : WrittenOf(ContentsOf(hud, shown')) = <<>>
    <2>1. \A hud \in ForEachChatHud : Count(WrittenOf(ContentsOf(hud, shown')), Letter) + c = c
      BY <1>3, <1>5
    <2>. QED
      BY <1>1, <1>2, <1>4, <1>5, <2>1, CleanEndsReads, LettersThen
  <1>6. CASE stage' = "shown" /\ \A hud \in ForEachChatHud : WrittenOf(ContentsOf(hud, shown')) = Units(p)
    <2>1. p \in Seq(Kinds)
      BY <1>2, RestAtEnds, PieceType
    <2>2. Count(p, Letter) = c
      <3>1. Count(Rest(1), Letter) = Count(p, Letter) + Count(Rest(Len(text)), Letter) /\ Count(p, Letter) \in Nat
        BY <1>2, RestAtEnds, RestSplits
      <3>. QED
        BY <1>2, <1>3, <3>1, RestAtEnds
    <2>3. \A hud \in ForEachChatHud : Count(WrittenOf(ContentsOf(hud, shown')), Letter) + 0 = c
      BY <1>3, <1>6, <2>1, <2>2, UnitsLetters
    <2>. QED
      BY <1>1, <1>2, <1>6, <2>3, CleanEndsReads, LettersThen
  <1>. QED
    BY <1>2, <1>5, <1>6, CleanEndsReads

\* A piece more: its letters are to be read.
LEMMA PieceWritten ==
    ASSUME TextPlaced, shown \in Seq(ShownOps), NEW i \in 1..Len(text), NEW j \in i..Len(text),
           shown' = Append(shown, Piece(i, j))
    PROVE  /\ shown' \in Seq(ShownOps) /\ (IsCut => IsCut') /\ (j - i = ChunkLimit => IsCut')
           /\ \A hud \in ForEachChatHud :
                 Count(WrittenOf(ContentsOf(hud, shown')), Letter) + Count(Rest(j), Letter)
                   = Count(Written(hud), Letter) + Count(Rest(i), Letter)
  <1>1. PICK p : p = Piece(i, j)
    OBVIOUS
  <1>2. p \in ShownOps /\ p.kind = "text" /\ p.is \in Seq(Kinds) /\ Len(p.is) = j - i
    BY <1>1, PieceType
  <1>3. /\ shown' \in Seq(ShownOps) /\ (IsCut => IsCut') /\ (j - i = ChunkLimit => IsCut')
        /\ \A hud \in ForEachChatHud : \A x :
              Count(Written(hud)', x) = Count(Written(hud), x) + Count(Adds(p), x)
    BY <1>1, <1>2, WrittenMore
  <1>4. Count(Adds(p), Letter) = Count(p.is, Letter)
    BY <1>2, UnitsLetters DEF Adds
  <1>5. Count(Rest(i), Letter) = Count(p.is, Letter) + Count(Rest(j), Letter) /\ Count(p.is, Letter) \in Nat
        /\ Count(Rest(i), Letter) \in Nat
    BY <1>1, RestSplits
  <1>6. ASSUME NEW hud \in ForEachChatHud
        PROVE  Count(WrittenOf(ContentsOf(hud, shown')), Letter) + Count(Rest(j), Letter)
                   = Count(Written(hud), Letter) + Count(Rest(i), Letter)
    <2>1. Count(Written(hud)', Letter) = Count(Written(hud), Letter) + Count(p.is, Letter)
      BY <1>3, <1>4
    <2>2. Written(hud)' = WrittenOf(ContentsOf(hud, shown'))
      BY WrittenThen
    <2>3. Count(Written(hud), Letter) \in Nat
      <3>1. PICK o \in ShownOps : o = p
        BY <1>2
      <3>2. ContentsOf(hud, shown) \in Seq(Contents)
        BY <3>1, ContentsMore
      <3>3. WrittenOf(ContentsOf(hud, shown)) \in Seq(UnitKinds \cup SwatchNames \cup Int)
        BY <3>2, WrittenOfBoth, Zenon
      <3>4. Count(WrittenOf(ContentsOf(hud, shown)), Letter) \in Nat
        BY <3>3, CountFinite, Zenon
      <3>. QED
        BY <3>4, WrittenThen
    <2>4. PICK a, b, c, d, e : /\ a = Count(Written(hud)', Letter) /\ b = Count(Written(hud), Letter)
                               /\ c = Count(p.is, Letter) /\ d = Count(Rest(i), Letter) /\ e = Count(Rest(j), Letter)
      OBVIOUS
    <2>5. Count(Rest(j), Letter) \in Nat
      <3>1. j \in 1..Len(text) /\ j \in j..Len(text)
        BY TextTypes DEF TextPlaced
      <3>. QED
        BY <3>1, RestSplits
    <2>6. a = b + c /\ d = c + e /\ b \in Nat /\ c \in Nat /\ e \in Nat
      BY <1>5, <2>1, <2>3, <2>4, <2>5
    <2>7. a + e = b + d
      BY ONLY <2>6
    <2>. QED
      BY <2>2, <2>4, <2>7
  <1>. QED
    BY <1>3, <1>6

LEMMA PieceLetters ==
    ASSUME TextPlaced, TextLetters, WritePiece
    PROVE  TextLetters'
  <1>1. /\ stage = "write" /\ text' = text /\ shown \in Seq(ShownOps) /\ channels \in Seq(Int)
        /\ IsCut \/ \A hud \in ForEachChatHud : Count(Written(hud), Letter) + Count(Rest(at), Letter) = Count(text, Letter)
    BY PieceSteps DEF TextLetters, LettersAre
  <1>2. PICK n : n = Len(text)
    OBVIOUS
  <1>3. n \in Nat /\ at \in 1..n /\ n = Len(given) + 1 /\ EndPlace = n /\ n \in at..n /\ Count(Rest(n), Letter) = 0
    BY <1>2, TextTypes, RestAtEnds, TextPlacedIs DEF TextPlaced, EndStays
  <1>4. CASE EscapesFrom(at) = {}
    <2>1. shown' = Append(shown, Piece(at, n)) /\ stage' = "shown" /\ channels' = channels
      BY <1>3, <1>4, PieceSteps
    <2>2. /\ shown' \in Seq(ShownOps) /\ (IsCut => IsCut')
          /\ \A hud \in ForEachChatHud :
                 Count(WrittenOf(ContentsOf(hud, shown')), Letter) + Count(Rest(n), Letter)
                   = Count(Written(hud), Letter) + Count(Rest(at), Letter)
      BY <1>1, <1>2, <1>3, <2>1, PieceWritten
    <2>. QED
      BY <1>1, <1>3, <2>1, <2>2, LettersThen
  <1>5. CASE EscapesFrom(at) # {}
    <2>1. PICK e : e = FirstEscape
      OBVIOUS
    <2>2. e \in at..n /\ e + 2 <= n /\ text[e] = Escape /\ text[e + 1] = Bracket
      BY <1>3, <1>5, <2>1, EscapeIs
    <2>3. shown' = (IF e = at THEN shown ELSE Append(shown, Piece(at, Cut(at, e))))
          /\ stage' = "escape" /\ at' = e + 2 /\ channels' = <<>>
      BY <1>5, <2>1, PieceSteps
    <2>4. channels' \in Seq(Int) /\ SubSeq(text', at', Len(text')) = Rest(e + 2)
      BY <1>1, <2>3 DEF Rest
    <2>5. Count(Rest(e), Letter) = Count(Rest(e + 2), Letter)
      <3>1. e \in 1..Len(text) /\ e + 2 \in e..Len(text)
        BY <1>2, <1>3, <2>2
      <3>2. /\ Count(Rest(e), Letter) = Count(Piece(e, e + 2).is, Letter) + Count(Rest(e + 2), Letter)
            /\ Count(Rest(e), Letter) \in Nat
            /\ (\A k \in e..(e + 2) - 1 : text[k] # Letter) => Count(Piece(e, e + 2).is, Letter) = 0
        BY <3>1, RestSplits
      <3>3. \A k \in e..(e + 2) - 1 : text[k] # Letter
        <4>1. \A k \in e..(e + 2) - 1 : k = e \/ k = e + 1
          BY <1>3, <2>2
        <4>. QED
          BY <2>2, <4>1 DEF Escape, Bracket, Letter
      <3>4. Count(Rest(e + 2), Letter) \in Nat
        <4>1. e + 2 \in 1..Len(text) /\ e + 2 \in e + 2..Len(text)
          BY <1>2, <1>3, <2>2
        <4>. QED
          BY <4>1, RestSplits
      <3>. QED
        BY <3>2, <3>3, <3>4
    <2>6. CASE e = at
      <3>1. shown' = shown
        BY <2>3, <2>6
      <3>2. IsCut => IsCut'
        BY <3>1 DEF IsCut
      <3>3. \A hud \in ForEachChatHud : WrittenOf(ContentsOf(hud, shown')) = Written(hud)
        BY <3>1, WrittenThen
      <3>4. IsCut' \/ \A hud \in ForEachChatHud :
                          Count(WrittenOf(ContentsOf(hud, shown')), Letter) + Count(Rest(e + 2), Letter) = Count(text, Letter)
        BY <1>1, <2>5, <2>6, <3>2, <3>3
      <3>. QED
        BY <1>1, <2>3, <2>4, <3>1, <3>4, LettersThen
    <2>7. CASE e # at
      <3>1. PICK j : j = Cut(at, e)
        OBVIOUS
      <3>2. /\ j \in at..Len(text) /\ (j = e \/ j - at = ChunkLimit)
        BY <1>2, <1>3, <2>2, <3>1, ChatTextsAssumption DEF Cut, ChatTextsAssumption
      <3>3. shown' = Append(shown, Piece(at, j))
        BY <2>3, <2>7, <3>1
      <3>4. /\ shown' \in Seq(ShownOps) /\ (IsCut => IsCut') /\ (j - at = ChunkLimit => IsCut')
            /\ \A hud \in ForEachChatHud :
                   Count(WrittenOf(ContentsOf(hud, shown')), Letter) + Count(Rest(j), Letter)
                     = Count(Written(hud), Letter) + Count(Rest(at), Letter)
        BY <1>1, <1>2, <1>3, <3>2, <3>3, PieceWritten
      <3>5. IsCut' \/ \A hud \in ForEachChatHud :
                          Count(WrittenOf(ContentsOf(hud, shown')), Letter) + Count(Rest(e + 2), Letter) = Count(text, Letter)
        BY <1>1, <2>5, <3>2, <3>4
      <3>. QED
        BY <1>1, <2>3, <2>4, <3>4, <3>5, LettersThen
    <2>. QED
      BY <2>6, <2>7
  <1>. QED
    BY <1>4, <1>5

\* Where an escape's value was read: blanks, the number, and what ends it.
LEMMA NumberIs ==
    ASSUME TextPlaced, text[FirstInk] \in Numbers,
           at' = FirstInk + 1 \/ (text[FirstInk + 1] \in {Separator, "m"} /\ at' = FirstInk + 2)
    PROVE  /\ FirstInk \in at..Len(given) /\ at' \in at + 1..Len(text)
           /\ \A k \in at..at' - 1 : k = FirstInk \/ text[k] \in Blanks \cup {Separator, "m"}
  <1>1. PICK n, m : n = FirstInk /\ m = Len(given)
    OBVIOUS
  <1>2. m \in Nat /\ at \in Nat /\ at >= 1 /\ Len(text) = m + 1 /\ text[m + 1] = End /\ n \in at..m + 1
        /\ \A k \in at..n - 1 : text[k] \in Blanks
    BY <1>1, TextTypes, InkIs DEF TextPlaced
  <1>3. End \notin Numbers /\ End \notin {Separator, "m"}
    BY DEF End, Numbers, Separator
  <1>4. n # m + 1
    BY <1>1, <1>2, <1>3
  <1>5. text[n + 1] \in {Separator, "m"} => n # m
    BY <1>2, <1>3
  <1>6. at' = n + 1 \/ (at' = n + 2 /\ text[n + 1] \in {Separator, "m"})
    BY <1>1
  <1>7. at' \in at + 1..m + 1
    BY <1>2, <1>4, <1>5, <1>6
  <1>8. ASSUME NEW k \in at..at' - 1 PROVE k = n \/ text[k] \in Blanks \cup {Separator, "m"}
    <2>1. k \in at..n - 1 \/ k = n \/ (k = n + 1 /\ at' = n + 2)
      BY <1>2, <1>6
    <2>. QED
      BY <1>2, <1>6, <2>1
  <1>9. n \in at..m
    BY <1>2, <1>4
  <1>10. at' \in at + 1..Len(text)
    BY <1>2, <1>7
  <1>. QED
    BY <1>1, <1>8, <1>9, <1>10

\* An escape brings nothing to read.
LEMMA EscapedReads ==
    ASSUME TextPlaced, TextLetters, Escaped
    PROVE  /\ shown' \in Seq(ShownOps) /\ channels' \in Seq(Int) /\ (IsCut => IsCut')
           /\ \A hud \in ForEachChatHud : WrittenOf(ContentsOf(hud, shown')) = Written(hud)
           /\ at' = at \/ (/\ text[FirstInk] \in Numbers
                           /\ at' = FirstInk + 1 \/ (text[FirstInk + 1] \in {Separator, "m"} /\ at' = FirstInk + 2))
  <1>1. shown \in Seq(ShownOps) /\ channels \in Seq(Int)
    BY DEF TextLetters
  <1>2. CASE at' = at /\ shown' = shown /\ channels' = channels
    BY <1>1, <1>2, WrittenThen DEF IsCut
  <1>3. CASE /\ text[FirstInk] \in Numbers
             /\ shown' = shown \o Value(ValueOf(text[FirstInk])).shows
             /\ channels' = Value(ValueOf(text[FirstInk])).channels
             /\ at' = FirstInk + 1 \/ (text[FirstInk + 1] \in {Separator, "m"} /\ at' = FirstInk + 2)
    <2>1. PICK v : v = ValueOf(text[FirstInk])
      OBVIOUS
    <2>2. v \in Int
      BY <1>3, <2>1, ValueOfType
    <2>3. /\ channels' \in Seq(Int)
          /\ \/ shown' = shown \o <<>>
             \/ \E op \in ShownOps : shown' = shown \o <<op>> /\ op.kind # "text"
      BY <1>1, <1>3, <2>1, <2>2, ValueIs
    <2>4. CASE shown' = shown \o <<>>
      <3>1. shown' = shown
        BY <1>1, <2>4, ConcatEmptySeq
      <3>. QED
        BY <1>1, <1>3, <2>3, <3>1, WrittenThen DEF IsCut
    <2>5. CASE \E op \in ShownOps : shown' = shown \o <<op>> /\ op.kind # "text"
      <3>1. PICK op \in ShownOps : shown' = Append(shown, op) /\ op.kind # "text"
        BY <1>1, <2>5, AppendIsConcat
      <3>. QED
        BY <1>1, <1>3, <2>3, <3>1, ShownMore, WrittenThen
    <2>. QED
      BY <2>3, <2>4, <2>5
  <1>. QED
    BY <1>2, <1>3, EscapedSteps

LEMMA EscapedLetters ==
    ASSUME TextPlaced, TextLetters, Escaped
    PROVE  TextLetters'
  <1>1. /\ stage = "escape" /\ text' = text /\ shown' \in Seq(ShownOps) /\ channels' \in Seq(Int)
        /\ IsCut \/ \A hud \in ForEachChatHud : Count(Written(hud), Letter) + Count(Rest(at), Letter) = Count(text, Letter)
    BY EscapedSteps, EscapedReads DEF TextLetters, LettersAre
  <1>2. stage' \in {"write", "escape"}
    BY <1>1, EscapedSteps
  <1>3. Count(Rest(at), Letter) = Count(Rest(at'), Letter)
    <2>1. CASE at' = at
      BY <2>1
    <2>2. CASE /\ text[FirstInk] \in Numbers
               /\ at' = FirstInk + 1 \/ (text[FirstInk + 1] \in {Separator, "m"} /\ at' = FirstInk + 2)
      <3>1. PICK b : b = at'
        OBVIOUS
      <3>2. at \in 1..Len(text) /\ b \in at..Len(text) /\ b \in 1..Len(text) /\ b \in b..Len(text)
        <4>1. Len(text) \in Nat /\ at \in 1..Len(text)
          BY TextTypes DEF TextPlaced
        <4>. QED
          BY <2>2, <3>1, <4>1, NumberIs
      <3>3. \A k \in at..b - 1 : text[k] # Letter
        <4>1. \A k \in at..b - 1 : k = FirstInk \/ text[k] \in Blanks \cup {Separator, "m"}
          BY <2>2, <3>1, NumberIs
        <4>. QED
          BY <2>2, <4>1 DEF Numbers, Blanks, Space, NewLine, Separator, Letter
      <3>4. /\ Count(Rest(at), Letter) = Count(Piece(at, b).is, Letter) + Count(Rest(b), Letter)
            /\ (\A k \in at..b - 1 : text[k] # Letter) => Count(Piece(at, b).is, Letter) = 0
        BY <3>2, RestSplits
      <3>5. Count(Rest(b), Letter) \in Nat
        BY <3>2, RestSplits
      <3>. QED
        BY <3>1, <3>3, <3>4, <3>5
    <2>. QED
      BY <2>1, <2>2, EscapedReads
  <1>4. IsCut' \/ \A hud \in ForEachChatHud :
                      Count(WrittenOf(ContentsOf(hud, shown')), Letter) + Count(Rest(at'), Letter) = Count(text, Letter)
    BY <1>1, <1>3, EscapedReads
  <1>5. SubSeq(text', at', Len(text')) = Rest(at')
    BY <1>1 DEF Rest
  <1>. QED
    BY <1>1, <1>2, <1>4, <1>5, LettersThen

LEMMA TextLettersStep == TextPlaced /\ TextLetters /\ [TextGoesOn]_chatTextVars => TextLetters'
  <1> SUFFICES ASSUME TextPlaced, TextLetters, [TextGoesOn]_chatTextVars PROVE TextLetters'
    OBVIOUS
  <1>1. CASE Clean
    BY <1>1 DEF Clean, TextLetters
  <1>2. CASE UNCHANGED chatTextVars
    <2>1. \A hud \in ForEachChatHud : Written(hud)' = Written(hud)
      BY <1>2, WrittenThen DEF chatTextVars
    <2>2. text' = text /\ at' = at /\ shown' = shown /\ channels' = channels /\ stage' = stage
      BY <1>2 DEF chatTextVars
    <2>3. CASE stage = "clean"
      BY <2>2, <2>3 DEF TextLetters
    <2>4. CASE stage # "clean" /\ stage \in {"write", "escape", "shown"}
      <3>1. IsCut => IsCut'
        BY <2>2 DEF IsCut
      <3>2. \A hud \in ForEachChatHud : WrittenOf(ContentsOf(hud, shown')) = Written(hud)
        BY <2>2, WrittenThen
      <3>3. PICK n : n = IF stage = "shown" THEN 0 ELSE Count(Rest(at), Letter)
        OBVIOUS
      <3>4. IsCut \/ \A hud \in ForEachChatHud : Count(Written(hud), Letter) + n = Count(text, Letter)
        BY <2>4, <3>3 DEF TextLetters, LettersAre
      <3>5. stage' \in {"write", "escape"} => n = Count(SubSeq(text', at', Len(text')), Letter)
        BY <2>2, <3>3 DEF Rest
      <3>6. stage' = "shown" => n = 0
        BY <2>2, <3>3
      <3>7. shown \in Seq(ShownOps) /\ channels \in Seq(Int)
        BY DEF TextLetters
      <3>. QED
        BY <2>2, <2>4, <3>1, <3>2, <3>4, <3>5, <3>6, <3>7, LettersThen
    <2>. QED
      BY <2>3, <2>4 DEF TextPlaced
  <1>. QED
    BY <1>1, <1>2, CleanEndsLetters, PieceLetters, EscapedLetters DEF TextGoesOn

LEMMA TextLettersIs == TextLetters /\ TextPlaced => LettersAreShown
  <1> SUFFICES ASSUME TextLetters, TextPlaced, stage = "shown", NEW hud \in ForEachChatHud, ~IsCut
               PROVE  Count(Written(hud), Letter) = Count(text, Letter)
    BY DEF LettersAreShown
  <1>1. Count(Written(hud), Letter) + 0 = Count(text, Letter)
    BY DEF TextLetters, LettersAre
  <1>2. Count(Written(hud), Letter) \in Nat
    <2>1. PICK op \in ShownOps : op = Swatch("main")
      BY DEF ShownOps, Swatch
    <2>2. ContentsOf(hud, shown) \in Seq(Contents)
      BY <2>1, ContentsMore DEF TextLetters
    <2>3. WrittenOf(ContentsOf(hud, shown)) \in Seq(UnitKinds \cup SwatchNames \cup Int)
      BY <2>2, WrittenOfBoth, Zenon
    <2>4. Count(WrittenOf(ContentsOf(hud, shown)), Letter) \in Nat
      BY <2>3, CountFinite, Zenon
    <2>. QED
      BY <2>4, WrittenThen
  <1>. QED
    BY <1>1, <1>2

-----------------------------------------------------------------------------
(* Replacement characters *)

WholeGiven == EscapesAreColours /\ \A i \in 1..Len(given) : given[i] \notin {"surrogate", "lead5"}

\* Of cleaned text no piece begins or ends inside a sequence, but one that is cut.
TextConverts ==
    WholeGiven /\ stage # "clean" =>
        /\ IsCut \/ \A hud \in ForEachChatHud : Count(Written(hud), "replacement") = 0
        /\ stage \in {"write", "escape"} /\ at # 1 => text[at - 1] # "lead2"

LEMMA PieceConverts ==
    ASSUME TextPlaced, \A k \in 1..Len(given) : Fine(k), WholeGiven,
           NEW i \in 1..Len(text), NEW j \in i..Len(text), i # 1 => text[i - 1] # "lead2", text[j] # "cont"
    PROVE  Count(Units(Piece(i, j).is), "replacement") = 0
  <1>1. PICK p, n : p = Piece(i, j).is /\ n = Len(given)
    OBVIOUS
  <1>2. /\ p \in Seq(Kinds) /\ Len(p) = j - i /\ \A k \in 1..j - i : p[k] = text[i + k - 1]
        /\ n \in Nat /\ Len(text) = n + 1 /\ i \in 1..n + 1 /\ j \in i..n + 1
    BY <1>1, PieceType, TextTypes DEF TextPlaced
  <1>3. \A k \in 1..n : text[k] \notin {"surrogate", "lead5"}
    BY <1>1 DEF TextPlaced, WholeGiven, Space
  <1>4. \A k \in 1..n : Trailing(text[k]) > 0 => text[k] = "lead2" /\ Trailing(text[k]) = 1
    <2>1. ASSUME NEW k \in 1..n, Trailing(text[k]) > 0 PROVE text[k] = "lead2" /\ Trailing(text[k]) = 1
      <3>1. Trailing(text[k]) # 0 => text[k] \in {"lead2", "surrogate", "lead5"}
        BY SymbolsDiffer, Zenon
      <3>2. text[k] = "lead2"
        BY <1>3, <2>1, <3>1
      <3>. QED
        BY <3>2, SymbolsDiffer
    <2>. QED
      BY <2>1
  <1>5. ASSUME NEW x \in 1..Len(p)
        PROVE  /\ p[x] \notin {"surrogate", "lead5"}
               /\ p[x] = "lead2" => x + 1 <= Len(p) /\ p[x + 1] = "cont"
               /\ p[x] = "cont" => x > 1 /\ p[x - 1] = "lead2"
    <2>1. PICK k : k = i + x - 1
      OBVIOUS
    <2>2. k \in 1..n /\ p[x] = text[k] /\ k \in i..j - 1 /\ x = k - i + 1
      BY <1>2, <2>1
    <2>3. p[x] = "lead2" => x + 1 <= Len(p) /\ p[x + 1] = "cont"
      <3> SUFFICES ASSUME text[k] = "lead2" PROVE x + 1 <= Len(p) /\ p[x + 1] = "cont"
        BY <2>2
      <3>1. text[k + 1] = "cont"
        <4>1. Trailing(text[k]) = 1
          BY SymbolsDiffer
        <4>. QED
          BY <1>1, <2>2, <4>1 DEF Fine
      <3>2. k + 1 # j
        BY <3>1
      <3>3. x + 1 \in 1..j - i /\ k + 1 = i + (x + 1) - 1
        BY <1>2, <2>2, <3>2
      <3>. QED
        BY <1>2, <3>1, <3>3
    <2>4. p[x] = "cont" => x > 1 /\ p[x - 1] = "lead2"
      <3> SUFFICES ASSUME text[k] = "cont" PROVE x > 1 /\ p[x - 1] = "lead2"
        BY <2>2
      <3>1. PICK m \in 1..k - 1 : k - m <= Trailing(text[m])
        BY <1>1, <2>2 DEF Fine
      <3>2. m \in 1..n
        BY <1>2, <2>2
      <3>3. Trailing(text[m]) \in {0, 1, 2, 4}
        BY SymbolsDiffer, Zenon
      <3>4. Trailing(text[m]) > 0
        <4>1. PICK d : d = Trailing(text[m])
          OBVIOUS
        <4>2. d \in {0, 1, 2, 4} /\ k - m <= d /\ k \in 1..n /\ n \in Nat /\ m \in 1..k - 1
          BY <1>2, <2>2, <3>1, <3>3, <4>1
        <4>3. d > 0
          BY ONLY <4>2
        <4>. QED
          BY <4>1, <4>3
      <3>5. text[m] = "lead2" /\ m = k - 1
        BY <1>2, <1>4, <2>2, <3>1, <3>2, <3>4
      <3>6. k # i
        BY <1>2, <2>2, <3>1, <3>5
      <3>7. x - 1 \in 1..j - i /\ k - 1 = i + (x - 1) - 1 /\ x > 1
        BY <1>2, <2>2, <3>6
      <3>. QED
        BY <1>2, <3>5, <3>7
    <2>. QED
      BY <1>3, <2>2, <2>3, <2>4
  <1>. QED
    BY <1>1, <1>2, <1>5, UnitsConvert

\* This part of the invariant behind a step, by what there is then.
LEMMA ConvertsThen ==
    ASSUME text' = text, given' = given, TextPlaced',
           WholeGiven => IsCut' \/ \A hud \in ForEachChatHud : Count(WrittenOf(ContentsOf(hud, shown')), "replacement") = 0,
           WholeGiven /\ stage' \in {"write", "escape"} /\ at' # 1 => text[at' - 1] # "lead2"
    PROVE  TextConverts'
  <1>1. WholeGiven' <=> WholeGiven
    BY DEF WholeGiven, EscapesAreColours, IsColour
  <1>2. ASSUME NEW hud \in ForEachChatHud, Count(WrittenOf(ContentsOf(hud, shown')), "replacement") = 0
        PROVE  Count(Written(hud), "replacement")' = 0
    <2>1. Written(hud)' = WrittenOf(ContentsOf(hud, shown'))
      BY WrittenThen
    <2>2. Count(Written(hud)', "replacement") = 0
      BY <1>2, <2>1
    <2>. QED
      BY <2>2 DEF Count
  <1>3. WholeGiven => IsCut' \/ \A hud \in ForEachChatHud : Count(Written(hud), "replacement")' = 0
    BY <1>2
  <1>4. WholeGiven /\ stage' \in {"write", "escape"} /\ at' # 1 => text'[at' - 1] # "lead2"
    OBVIOUS
  <1>. QED
    BY <1>1, <1>3, <1>4 DEF TextConverts, ForEachChatHud

\* When the cleaning ends, and behind it, every place is fine.
LEMMA AllFine ==
    ASSUME TextPlaced, TextCleaned, EscapesAreColours, stage # "clean" \/ text[at] = End
    PROVE  \A k \in 1..Len(given) : Fine(k)
  <1>1. Len(given) \in Nat /\ (text[at] = End => at = Len(given) + 1)
    <2>1. Len(given) \in Nat /\ at \in Nat /\ at >= 1 /\ at <= Len(given) + 1 /\ Len(text) = Len(given) + 1
          /\ \A i \in 1..Len(text) : text[i] # End <=> i \in 1..Len(given)
      BY TextTypes DEF TextPlaced
    <2>2. at \in 1..Len(text)
      BY DEF TextPlaced
    <2>3. text[at] = End => at \notin 1..Len(given)
      BY <2>1, <2>2
    <2>. QED
      BY <2>1, <2>3
  <1>2. Passed = Len(given)
    BY <1>1 DEF Passed
  <1>. QED
    BY <1>2 DEF TextCleaned, CleanedUpTo

LEMMA TextConvertsStarts == ChatTextInit => TextConverts
  BY DEF ChatTextInit, TextConverts

LEMMA CleanEndsConverts ==
    ASSUME TextPlaced, TextPlaced', TextCleaned, TextLetters, CleanEnds
    PROVE  TextConverts'
  <1>1. text' = text /\ given' = given /\ at' = 1 /\ text[at] = End
    BY CleanEndsWrites
  <1>2. ASSUME WholeGiven, NEW hud \in ForEachChatHud
        PROVE  Count(WrittenOf(ContentsOf(hud, shown')), "replacement") = 0
    <2>1. CASE WrittenOf(ContentsOf(hud, shown')) = <<>>
      BY <2>1, CountNothing
    <2>2. CASE WrittenOf(ContentsOf(hud, shown')) = Units(Piece(1, Len(text)).is)
      <3>1. PICK n : n = Len(text)
        OBVIOUS
      <3>2. 1 \in 1..Len(text) /\ n \in 1..Len(text) /\ text[n] # "cont"
        BY <3>1, TextTypes DEF TextPlaced, End
      <3>3. \A k \in 1..Len(given) : Fine(k)
        BY <1>1, <1>2, AllFine DEF WholeGiven
      <3>4. Count(Units(Piece(1, n).is), "replacement") = 0
        BY <1>2, <3>2, <3>3, PieceConverts
      <3>. QED
        BY <2>2, <3>1, <3>4
    <2>. QED
      BY <2>1, <2>2, CleanEndsReads
  <1>. QED
    BY <1>1, <1>2, ConvertsThen

\* A piece more, that begins and ends between two sequences.
LEMMA PieceReads ==
    ASSUME TextPlaced, TextCleaned, TextConverts, stage # "clean", shown \in Seq(ShownOps),
           NEW i \in 1..Len(text), NEW j \in i..Len(text), shown' = Append(shown, Piece(i, j)),
           WholeGiven /\ i # 1 => text[i - 1] # "lead2", text[j] # "cont" \/ j - i = ChunkLimit
    PROVE  WholeGiven => IsCut' \/ \A hud \in ForEachChatHud : Count(WrittenOf(ContentsOf(hud, shown')), "replacement") = 0
  <1>1. PICK p : p = Piece(i, j)
    OBVIOUS
  <1>2. p \in ShownOps /\ p.kind = "text" /\ p.is \in Seq(Kinds) /\ Len(p.is) = j - i
    BY <1>1, PieceType
  <1>3. /\ IsCut => IsCut'
        /\ j - i = ChunkLimit => IsCut'
        /\ \A hud \in ForEachChatHud : \A x :
              Count(Written(hud)', x) = Count(Written(hud), x) + Count(Adds(p), x)
    BY <1>1, <1>2, WrittenMore
  <1>4. ASSUME WholeGiven, ~IsCut', NEW hud \in ForEachChatHud
        PROVE  Count(WrittenOf(ContentsOf(hud, shown')), "replacement") = 0
    <2>1. Count(Written(hud), "replacement") = 0
      BY <1>3, <1>4 DEF TextConverts
    <2>2. Count(Units(p.is), "replacement") = 0
      <3>1. \A k \in 1..Len(given) : Fine(k)
        BY <1>4, AllFine DEF WholeGiven
      <3>2. text[j] # "cont"
        BY <1>3, <1>4
      <3>3. i # 1 => text[i - 1] # "lead2"
        BY <1>4
      <3>. QED
        BY <1>1, <1>4, <3>1, <3>2, <3>3, PieceConverts
    <2>3. Count(Adds(p), "replacement") = 0
      BY <1>2, <2>2 DEF Adds
    <2>4. Count(Written(hud)', "replacement") = 0 + 0
      BY <1>3, <2>1, <2>3
    <2>5. Written(hud)' = WrittenOf(ContentsOf(hud, shown'))
      BY WrittenThen
    <2>. QED
      BY <2>4, <2>5
  <1>. QED
    BY <1>4

LEMMA WritePieceConverts ==
    ASSUME TextPlaced, TextPlaced', TextCleaned, TextLetters, TextConverts, WritePiece
    PROVE  TextConverts'
  <1>1. /\ stage = "write" /\ text' = text /\ given' = given /\ shown \in Seq(ShownOps)
        /\ WholeGiven /\ at # 1 => text[at - 1] # "lead2"
    BY PieceSteps DEF TextLetters, TextConverts
  <1>2. PICK n : n = Len(text)
    OBVIOUS
  <1>3. n \in Nat /\ at \in 1..n /\ n = Len(given) + 1 /\ EndPlace = n /\ n \in at..n /\ text[n] # "cont"
    BY <1>2, TextTypes, TextPlacedIs DEF TextPlaced, EndStays, End
  <1>4. CASE EscapesFrom(at) = {}
    <2>1. shown' = Append(shown, Piece(at, n)) /\ stage' = "shown"
      BY <1>3, <1>4, PieceSteps
    <2>2. WholeGiven => IsCut' \/ \A hud \in ForEachChatHud : Count(WrittenOf(ContentsOf(hud, shown')), "replacement") = 0
      BY <1>1, <1>2, <1>3, <2>1, PieceReads
    <2>. QED
      BY <1>1, <2>1, <2>2, ConvertsThen
  <1>5. CASE EscapesFrom(at) # {}
    <2>1. PICK e : e = FirstEscape
      OBVIOUS
    <2>2. e \in at..n /\ e + 2 <= n /\ text[e] = Escape /\ text[e + 1] = Bracket
      BY <1>3, <1>5, <2>1, EscapeIs
    <2>3. shown' = (IF e = at THEN shown ELSE Append(shown, Piece(at, Cut(at, e))))
          /\ stage' = "escape" /\ at' = e + 2
      BY <1>5, <2>1, PieceSteps
    <2>4. at' - 1 = e + 1 /\ text[at' - 1] # "lead2"
      BY <1>3, <2>2, <2>3 DEF Bracket
    <2>5. WholeGiven => IsCut' \/ \A hud \in ForEachChatHud : Count(WrittenOf(ContentsOf(hud, shown')), "replacement") = 0
      <3>1. CASE e = at
        <4>1. shown' = shown
          BY <2>3, <3>1
        <4>2. IsCut => IsCut'
          BY <4>1 DEF IsCut
        <4>3. \A hud \in ForEachChatHud : WrittenOf(ContentsOf(hud, shown')) = Written(hud)
          BY <4>1, WrittenThen
        <4>. QED
          BY <1>1, <4>2, <4>3 DEF TextConverts
      <3>2. CASE e # at
        <4>1. PICK j : j = Cut(at, e)
          OBVIOUS
        <4>2. j \in at..Len(text) /\ (j = e \/ j - at = ChunkLimit)
          BY <1>2, <1>3, <2>2, <4>1, ChatTextsAssumption DEF Cut, ChatTextsAssumption
        <4>3. shown' = Append(shown, Piece(at, j))
          BY <2>3, <3>2, <4>1
        <4>4. text[j] # "cont" \/ j - at = ChunkLimit
          BY <2>2, <4>2 DEF Escape
        <4>. QED
          BY <1>1, <1>2, <1>3, <4>2, <4>3, <4>4, PieceReads
      <3>. QED
        BY <3>1, <3>2
    <2>. QED
      BY <1>1, <2>4, <2>5, ConvertsThen
  <1>. QED
    BY <1>4, <1>5

LEMMA EscapedConverts ==
    ASSUME TextPlaced, TextPlaced', TextLetters, TextConverts, Escaped
    PROVE  TextConverts'
  <1>1. /\ stage = "escape" /\ text' = text /\ given' = given
        /\ WholeGiven /\ at # 1 => text[at - 1] # "lead2"
        /\ WholeGiven => IsCut \/ \A hud \in ForEachChatHud : Count(Written(hud), "replacement") = 0
    BY EscapedSteps DEF TextConverts
  <1>2. WholeGiven => IsCut' \/ \A hud \in ForEachChatHud : Count(WrittenOf(ContentsOf(hud, shown')), "replacement") = 0
    BY <1>1, EscapedReads
  <1>3. WholeGiven /\ at' # 1 => text[at' - 1] # "lead2"
    <2>1. CASE at' = at
      BY <1>1, <2>1
    <2>2. CASE /\ text[FirstInk] \in Numbers
               /\ at' = FirstInk + 1 \/ (text[FirstInk + 1] \in {Separator, "m"} /\ at' = FirstInk + 2)
      <3>1. PICK n : n = FirstInk
        OBVIOUS
      <3>2. n \in Nat
        BY <3>1, InkIs, TextTypes DEF TextPlaced
      <3>3. at' - 1 = n \/ (at' - 1 = n + 1 /\ text[n + 1] \in {Separator, "m"})
        BY <2>2, <3>1, <3>2
      <3>4. text[n] # "lead2" /\ (text[n + 1] \in {Separator, "m"} => text[n + 1] # "lead2")
        BY <2>2, <3>1 DEF Numbers, Separator
      <3>. QED
        BY <3>3, <3>4
    <2>. QED
      BY <2>1, <2>2, EscapedReads
  <1>. QED
    BY <1>1, <1>2, <1>3, ConvertsThen

LEMMA TextConvertsStep ==
    TextPlaced /\ TextCleaned /\ TextLetters /\ TextConverts /\ [TextGoesOn]_chatTextVars => TextConverts'
  <1> SUFFICES ASSUME TextPlaced, TextCleaned, TextLetters, TextConverts, [TextGoesOn]_chatTextVars
               PROVE  TextConverts'
    OBVIOUS
  <1>0. TextPlaced'
    BY TextPlacedStep
  <1>1. CASE Clean
    BY <1>1 DEF Clean, TextConverts
  <1>2. CASE UNCHANGED chatTextVars
    <2>1. /\ text' = text /\ given' = given /\ at' = at /\ shown' = shown /\ stage' = stage
      BY <1>2 DEF chatTextVars
    <2>2. CASE stage = "clean"
      BY <2>1, <2>2 DEF TextConverts
    <2>3. CASE stage # "clean"
      <3>1. IsCut => IsCut'
        BY <2>1 DEF IsCut
      <3>2. \A hud \in ForEachChatHud : WrittenOf(ContentsOf(hud, shown')) = Written(hud)
        BY <2>1, WrittenThen
      <3>3. WholeGiven => IsCut' \/ \A hud \in ForEachChatHud : Count(WrittenOf(ContentsOf(hud, shown')), "replacement") = 0
        BY <2>3, <3>1, <3>2 DEF TextConverts
      <3>4. WholeGiven /\ stage' \in {"write", "escape"} /\ at' # 1 => text[at' - 1] # "lead2"
        BY <2>1, <2>3 DEF TextConverts
      <3>. QED
        BY <1>0, <2>1, <3>3, <3>4, ConvertsThen
    <2>. QED
      BY <2>2, <2>3
  <1>. QED
    BY <1>0, <1>1, <1>2, CleanEndsConverts, WritePieceConverts, EscapedConverts DEF TextGoesOn

LEMMA TextConvertsIs == TextPlaced /\ TextLetters /\ TextConverts => CleanedTextConverts
  <1> SUFFICES ASSUME TextPlaced, TextLetters, TextConverts, EscapesAreColours, NEW hud \in ForEachChatHud,
                      Count(Written(hud), "replacement") > 0, ~IsCut,
                      ~(Count(given, "surrogate") + Count(given, "lead5") > 0)
               PROVE  FALSE
    BY DEF CleanedTextConverts
  <1>1. given \in Seq(Kinds)
    BY TextTypes
  <1>2. Count(given, "surrogate") \in Nat /\ Count(given, "lead5") \in Nat
    BY <1>1, CountFinite, Zenon
  <1>3. Count(given, "surrogate") = 0 /\ Count(given, "lead5") = 0
    BY <1>2
  <1>4. /\ Count(given, "surrogate") = 0 <=> \A i \in 1..Len(given) : given[i] # "surrogate"
        /\ Count(given, "lead5") = 0 <=> \A i \in 1..Len(given) : given[i] # "lead5"
    BY <1>1, CountZero, Zenon
  <1>5. WholeGiven
    BY <1>3, <1>4 DEF WholeGiven
  <1>6. CASE stage = "clean"
    <2>1. Written(hud) = WrittenOf(ContentsOf(hud, shown)) /\ shown = <<>>
      BY <1>6, WrittenThen DEF TextLetters
    <2>2. Written(hud) = <<>>
      BY <2>1, NothingWritten
    <2>3. Count(Written(hud), "replacement") = 0
      BY <2>2, CountNothing
    <2>. QED
      BY <2>3
  <1>7. CASE stage # "clean"
    <2>1. Count(Written(hud), "replacement") = 0
      BY <1>5, <1>7 DEF TextConverts
    <2>. QED
      BY <2>1
  <1>. QED
    BY <1>6, <1>7

-----------------------------------------------------------------------------
(* Colours (AnsiEscapeParser::HandleVal)                                    *)

\* The values an escape was given last, of those a colour is made of.
Heard == CASE next = "foreground" -> <<38>>
           [] next = "channel" -> <<38, 2>> \o channels
           [] OTHER -> <<>>
EndsWith(numbers, values) ==
    /\ Len(values) <= Len(numbers)
    /\ \A k \in 1..Len(values) : ValueOf(numbers[Len(numbers) - Len(values) + k]) = values[k]
NumbersTo(n) == NumbersOf(SubSeq(text, 1, n))

Stands(colour, numbers) ==
    \E j \in DOMAIN numbers : /\ j + 4 <= Len(numbers)
                              /\ \A k \in 1..5 : ValueOf(numbers[j + k - 1]) = colour[k]
ColoursIn(s, t) == \A i \in DOMAIN s : s[i].kind = "colour" /\ Len(s[i].is) = 5 => Stands(s[i].is, NumbersOf(t))

\* What an escape was given stands before the place the code is at.
TextColours ==
    /\ ColoursIn(shown, text)
    /\ next = "channel" => Len(channels) <= 2
    /\ stage = "escape" => EndsWith(NumbersTo(at - 1), Heard)

LEMMA NumbersAlong ==
    ASSUME TextPlaced, NEW q \in 0..Len(text), NEW r \in q..Len(text)
    PROVE  /\ NumbersTo(q) \in Seq(Numbers)
           /\ \E rest \in Seq(Numbers) : NumbersOf(text) = NumbersTo(q) \o rest
           /\ (\A k \in q + 1..r : text[k] \notin Numbers) => NumbersTo(r) = NumbersTo(q)
           /\ q < Len(text) /\ text[q + 1] \in Numbers => NumbersTo(q + 1) = Append(NumbersTo(q), text[q + 1])
  <1>1. PICK S, n : S = Kinds \cup {End} /\ n = Len(text)
    OBVIOUS
  <1>2. text \in Seq(S) /\ n \in Nat /\ q \in 0..n /\ r \in q..n /\ Numbers \cap S = Numbers /\ S \cap Numbers = Numbers
    BY <1>1, TextTypes DEF TextPlaced, Kinds
  <1>3. PICK a, b, c : a = SubSeq(text, 1, q) /\ b = SubSeq(text, q + 1, r) /\ c = SubSeq(text, q + 1, n)
    OBVIOUS
  <1>4. \A k \in 1..n : text[k] \in S
    BY <1>1, <1>2, ElementOfSeq
  <1>5. a \in Seq(S) /\ Len(a) = q
    <2>1. \A k \in 1..q : text[k] \in S
      BY <1>2, <1>4
    <2>2. /\ a \in Seq(S) /\ Len(a) = IF 1 <= q THEN q - 1 + 1 ELSE 0
      BY <1>2, <1>3, <2>1, SubSeqProperties
    <2>. QED
      BY <1>2, <2>2
  <1>6. /\ b \in Seq(S) /\ Len(b) = r - q /\ \A k \in 1..r - q : b[k] = text[q + k]
    <2>1. q + 1 \in Int /\ \A k \in q + 1..r : text[k] \in S
      BY <1>2, <1>4
    <2>2. /\ b \in Seq(S) /\ Len(b) = (IF q + 1 <= r THEN r - (q + 1) + 1 ELSE 0)
          /\ \A k \in 1..r - (q + 1) + 1 : b[k] = text[(q + 1) + k - 1]
      BY <1>2, <1>3, <2>1, SubSeqProperties
    <2>3. Len(b) = r - q /\ r - (q + 1) + 1 = r - q /\ \A k \in 1..r - q : (q + 1) + k - 1 = q + k
      BY <1>2, <2>2
    <2>. QED
      BY <2>2, <2>3
  <1>7. c \in Seq(S)
    <2>1. q + 1 \in Int /\ n \in Int /\ \A k \in q + 1..n : text[k] \in S
      BY <1>2, <1>4
    <2>. QED
      BY <1>3, <2>1, SubSeqProperties
  <1>8. NumbersOf(a) \in Seq(Numbers) /\ NumbersOf(c) \in Seq(Numbers)
    BY <1>2, <1>5, <1>7, OnlyType DEF NumbersOf
  <1>9. NumbersOf(text) = NumbersOf(a) \o NumbersOf(c)
    <2>1. 1 \in 1..Len(text) + 1 /\ q \in 1 - 1..Len(text) /\ n \in q..Len(text)
      BY <1>1, <1>2
    <2>2. a \o c = SubSeq(text, 1, n)
      BY <1>2, <1>3, <2>1, ConcatAdjacentSubSeq
    <2>3. a \o c = text
      BY <1>1, <1>2, <2>2, SubSeqFull
    <2>4. Only(a \o c, Numbers) = Only(a, Numbers) \o Only(c, Numbers)
      BY <1>5, <1>7, OnlyOfBoth
    <2>. QED
      BY <2>3, <2>4, Zenon DEF NumbersOf
  <1>10. ASSUME \A k \in q + 1..r : text[k] \notin Numbers
         PROVE  NumbersTo(r) = NumbersOf(a)
    <2>1. 1 \in 1..Len(text) + 1 /\ q \in 1 - 1..Len(text) /\ r \in q..Len(text)
      BY <1>1, <1>2
    <2>2. a \o b = SubSeq(text, 1, r)
      BY <1>2, <1>3, <2>1, ConcatAdjacentSubSeq
    <2>3. NumbersOf(b) = <<>>
      <3>1. \A k \in 1..r - q : q + k \in q + 1..r
        BY <1>2
      <3>2. \A k \in 1..Len(b) : b[k] \notin Numbers
        BY <1>6, <1>10, <3>1
      <3>. QED
        BY <1>6, <3>2, OnlyNone DEF NumbersOf
    <2>4. NumbersOf(a \o b) = NumbersOf(a) \o NumbersOf(b)
      BY <1>5, <1>6, OnlyOfBoth DEF NumbersOf
    <2>5. NumbersOf(a) \o <<>> = NumbersOf(a)
      BY <1>8, ConcatEmptySeq
    <2>. QED
      BY <2>2, <2>3, <2>4, <2>5 DEF NumbersTo
  <1>11. ASSUME q < n, text[q + 1] \in Numbers
         PROVE  NumbersTo(q + 1) = Append(NumbersOf(a), text[q + 1])
    <2>1. PICK x : x = text[q + 1]
      OBVIOUS
    <2>2. SubSeq(text, 1, q + 1) = Append(a, x)
      <3>1. q + 1 \in 1..Len(text) /\ q + 1 = q + 1
        BY <1>1, <1>2, <1>11
      <3>2. PICK d : d = SubSeq(text, 1, q + 1)
        OBVIOUS
      <3>3. q + 1 \in Int /\ \A k \in 1..q + 1 : text[k] \in S
        BY <1>2, <1>4, <1>11
      <3>4. /\ d \in Seq(S) /\ Len(d) = (IF 1 <= q + 1 THEN (q + 1) - 1 + 1 ELSE 0)
            /\ \A k \in 1..(q + 1) - 1 + 1 : d[k] = text[1 + k - 1]
        BY <1>2, <3>2, <3>3, SubSeqProperties
      <3>5. Len(d) = q + 1 /\ \A k \in 1..q + 1 : d[k] = text[k]
        BY <1>2, <3>4
      <3>6. \A k \in 1..q : a[k] = text[k]
        <4>1. \A k \in 1..q : text[k] \in S
          BY <1>2, <1>4
        <4>2. \A k \in 1..q - 1 + 1 : a[k] = text[1 + k - 1]
          BY <1>2, <1>3, <4>1, SubSeqProperties
        <4>. QED
          BY <1>2, <4>2
      <3>7. PICK e : e = Append(a, x)
        OBVIOUS
      <3>8. x \in S
        BY <1>1, <1>4, <2>1, <3>1
      <3>9. e \in Seq(S) /\ Len(e) = q + 1 /\ e[q + 1] = x /\ \A k \in 1..q : e[k] = a[k]
        BY <1>5, <3>7, <3>8, AppendProperties
      <3>10. \A k \in 1..q + 1 : d[k] = e[k]
        BY <1>2, <2>1, <3>5, <3>6, <3>9
      <3>11. d = e
        BY <3>4, <3>5, <3>9, <3>10, SeqEqual
      <3>. QED
        BY <3>2, <3>7, <3>11
    <2>3. x \in S /\ x \in Numbers
      BY <1>2, <1>11, <2>1
    <2>4. Only(Append(a, x), Numbers) = Append(Only(a, Numbers), x)
      BY <1>5, <2>3, OnlyOneMore DEF Keeps
    <2>. QED
      BY <2>1, <2>2, <2>4 DEF NumbersTo, NumbersOf
  <1>. QED
    BY <1>1, <1>3, <1>8, <1>9, <1>10, <1>11 DEF NumbersTo

\* One number more ends with one value more.
LEMMA EndsMore ==
    ASSUME NEW numbers \in Seq(Numbers), NEW values \in Seq(Int), EndsWith(numbers, values), NEW x \in Numbers
    PROVE  EndsWith(Append(numbers, x), Append(values, ValueOf(x)))
  <1>1. PICK m, n, a, b, v : m = Len(numbers) /\ n = Len(values) /\ a = Append(numbers, x) /\ b = Append(values, v) /\ v = ValueOf(x)
    OBVIOUS
  <1>2. v \in Int
    BY <1>1, ValueOfType
  <1>3. /\ m \in Nat /\ Len(a) = m + 1 /\ a[m + 1] = x /\ \A k \in 1..m : a[k] = numbers[k]
    BY <1>1, AppendProperties
  <1>4. /\ n \in Nat /\ Len(b) = n + 1 /\ b[n + 1] = v /\ \A k \in 1..n : b[k] = values[k]
    BY <1>1, <1>2, AppendProperties
  <1>5. n <= m /\ \A k \in 1..n : ValueOf(numbers[m - n + k]) = values[k]
    BY <1>1 DEF EndsWith
  <1>6. ASSUME NEW k \in 1..n + 1 PROVE ValueOf(a[(m + 1) - (n + 1) + k]) = b[k]
    <2>1. PICK i : i = (m + 1) - (n + 1) + k
      OBVIOUS
    <2>2. i = m - n + k /\ (k = n + 1 => i = m + 1) /\ (k # n + 1 => k \in 1..n /\ i \in 1..m)
      <3>1. m \in Nat /\ n \in Nat /\ n <= m /\ k \in 1..n + 1
        BY <1>3, <1>4, <1>5
      <3>. QED
        BY ONLY <2>1, <3>1
    <2>3. CASE k = n + 1
      <3>1. a[i] = x /\ b[k] = v
        BY <1>3, <1>4, <2>2, <2>3
      <3>. QED
        BY <1>1, <2>1, <3>1, Zenon
    <2>4. CASE k # n + 1
      <3>1. a[i] = numbers[i] /\ b[k] = values[k] /\ ValueOf(numbers[i]) = values[k]
        BY <1>3, <1>4, <1>5, <2>2, <2>4
      <3>. QED
        BY <2>1, <3>1
    <2>. QED
      BY <2>3, <2>4
  <1>7. n + 1 <= m + 1
    BY <1>3, <1>4, <1>5
  <1>. QED
    BY <1>1, <1>3, <1>4, <1>6, <1>7 DEF EndsWith

LEMMA EndsNothing == \A numbers \in Seq(Numbers) : EndsWith(numbers, <<>>)
  BY DEF EndsWith

\* A colour at the end of the first numbers stands in the text.
LEMMA EndStands ==
    ASSUME NEW numbers \in Seq(Numbers), NEW rest \in Seq(Numbers), NEW colour, Len(colour) = 5, EndsWith(numbers, colour)
    PROVE  Stands(colour, numbers \o rest)
  <1>1. PICK m, all, j : m = Len(numbers) /\ all = numbers \o rest /\ j = m - 4
    OBVIOUS
  <1>2. /\ m \in Nat /\ Len(rest) \in Nat /\ all \in Seq(Numbers) /\ Len(all) = m + Len(rest)
        /\ \A k \in 1..m : all[k] = numbers[k]
    BY <1>1, ConcatProperties
  <1>3. 5 <= m /\ \A k \in 1..5 : ValueOf(numbers[m - 5 + k]) = colour[k]
    BY <1>1 DEF EndsWith
  <1>4. j \in 1..Len(all) /\ j + 4 <= Len(all) /\ DOMAIN all = 1..Len(all)
    BY <1>1, <1>2, <1>3
  <1>5. ASSUME NEW k \in 1..5 PROVE ValueOf(all[j + k - 1]) = colour[k]
    <2>1. j + k - 1 = m - 5 + k /\ m - 5 + k \in 1..m
      BY <1>1, <1>2, <1>3
    <2>. QED
      BY <1>2, <1>3, <2>1
  <1>. QED
    BY <1>1, <1>4, <1>5 DEF Stands

\* A value: what comes of a colour in three parts.
LEMMA ValueColours ==
    ASSUME channels \in Seq(Int), next = "channel" => Len(channels) <= 2, NEW v \in Int
    PROVE  /\ Value(v).next = "foreground" => v = 38
           /\ Value(v).next = "channel" =>
                 \/ next = "foreground" /\ v = 2 /\ Value(v).channels = <<>>
                 \/ next = "channel" /\ Value(v).channels = Append(channels, v) /\ Len(channels) < 2
           /\ \A i \in DOMAIN Value(v).shows :
                 Value(v).shows[i].kind = "colour" /\ Len(Value(v).shows[i].is) = 5 =>
                     next = "channel" /\ Value(v).shows[i].is = (<<38, 2>> \o channels) \o <<v>>
  <1>1. \A n : Swatch(n).kind # "colour"
    BY DEF Swatch
  <1>2. CASE next = "type"
    <2>1. CASE v \in {0, 39}
      <3>1. v \in {0, 39} /\ v \notin 30..37 \cup 90..97 /\ v \notin 110..113 /\ v # 38
        BY <2>1
      <3>2. Value(v) = [shows |-> <<Swatch("main")>>, next |-> "type", channels |-> <<>>]
        BY ONLY <1>2, <3>1 DEF Value
      <3>. QED
        BY <1>1, <3>2
    <2>2. CASE v \in 30..37 \cup 90..97
      <3>1. v \in 30..37 \cup 90..97 /\ v \notin {0, 39} /\ v \notin 110..113 /\ v # 38
        BY <2>2
      <3>2. Value(v) = [shows |-> <<[kind |-> "colour", is |-> <<v>>]>>, next |-> "type", channels |-> <<>>]
        BY ONLY <1>2, <3>1 DEF Value
      <3>3. PICK w : w = <<v>>
        OBVIOUS
      <3>4. Len(w) # 5
        BY <3>3
      <3>5. Value(v) = [shows |-> <<[kind |-> "colour", is |-> w]>>, next |-> "type", channels |-> <<>>]
        BY <3>2, <3>3
      <3>. QED
        BY <3>4, <3>5
    <2>3. CASE v \in 110..113
      <3>1. PICK n : n = <<"main", "sameTeam", "enemyTeam", "network">>[v - 109]
        OBVIOUS
      <3>2. Value(v) = [shows |-> <<Swatch(n)>>, next |-> "type", channels |-> <<>>]
        BY <1>2, <2>3, <3>1 DEF Value
      <3>. QED
        BY <1>1, <3>2
    <2>4. CASE v = 38
      <3>1. Value(v) = [shows |-> <<>>, next |-> "foreground", channels |-> <<>>]
        BY <1>2, <2>4 DEF Value
      <3>. QED
        BY <2>4, <3>1
    <2>5. CASE v \notin {0, 38, 39} \cup 30..37 \cup 90..97 \cup 110..113
      <3>1. Value(v) = [shows |-> <<>>, next |-> "type", channels |-> <<>>]
        BY <1>2, <2>5 DEF Value
      <3>. QED
        BY <3>1
    <2>. QED
      BY <2>1, <2>2, <2>3, <2>4, <2>5
  <1>3. CASE next = "foreground"
    <2>1. CASE v = 2
      <3>1. Value(v) = [shows |-> <<>>, next |-> "channel", channels |-> <<>>]
        BY <1>3, <2>1 DEF Value
      <3>. QED
        BY <1>3, <2>1, <3>1
    <2>2. CASE v = 5
      <3>1. Value(v) = [shows |-> <<>>, next |-> "eightBit", channels |-> <<>>]
        BY <1>3, <2>2 DEF Value
      <3>. QED
        BY <3>1
    <2>3. CASE v # 2 /\ v # 5
      <3>1. Value(v) = [shows |-> <<>>, next |-> "type", channels |-> <<>>]
        BY <1>3, <2>3 DEF Value
      <3>. QED
        BY <3>1
    <2>. QED
      BY <2>1, <2>2, <2>3
  <1>4. CASE next = "eightBit"
    <2>1. CASE v < 255
      <3>1. Value(v) = [shows |-> <<[kind |-> "colour", is |-> <<38, 5, v>>]>>, next |-> "type", channels |-> <<>>]
        BY <1>4, <2>1 DEF Value
      <3>2. PICK w : w = <<38, 5, v>>
        OBVIOUS
      <3>3. Len(w) # 5
        BY <3>2
      <3>4. Value(v) = [shows |-> <<[kind |-> "colour", is |-> w]>>, next |-> "type", channels |-> <<>>]
        BY <3>1, <3>2
      <3>. QED
        BY <3>3, <3>4
    <2>2. CASE ~(v < 255)
      <3>1. Value(v) = [shows |-> <<>>, next |-> "type", channels |-> <<>>]
        BY <1>4, <2>2 DEF Value
      <3>. QED
        BY <3>1
    <2>. QED
      BY <2>1, <2>2
  <1>5. CASE next = "channel"
    <2>1. CASE v < 255 /\ Len(channels) < 2
      <3>1. Value(v) = [shows |-> <<>>, next |-> "channel", channels |-> Append(channels, v)]
        BY <1>5, <2>1 DEF Value
      <3>. QED
        BY <1>5, <2>1, <3>1
    <2>2. CASE v < 255 /\ ~(Len(channels) < 2)
      <3>1. PICK w : w = <<38, 2>> \o channels \o <<v>>
        OBVIOUS
      <3>2. Value(v) = [shows |-> <<[kind |-> "colour", is |-> w]>>, next |-> "type", channels |-> <<>>]
        BY <1>5, <2>2, <3>1 DEF Value
      <3>. QED
        BY <1>5, <3>1, <3>2
    <2>3. CASE ~(v < 255)
      <3>1. Value(v) = [shows |-> <<>>, next |-> "type", channels |-> <<>>]
        BY <1>5, <2>3 DEF Value
      <3>. QED
        BY <3>1
    <2>. QED
      BY <2>1, <2>2, <2>3
  <1>6. CASE next \notin {"type", "foreground", "eightBit", "channel"}
    <2>1. Value(v) = [shows |-> <<>>, next |-> "type", channels |-> <<>>]
      BY <1>6 DEF Value
    <2>. QED
      BY <2>1
  <1>. QED
    BY <1>2, <1>3, <1>4, <1>5, <1>6

LEMMA TextColoursStarts == ChatTextInit => TextColours
  BY DEF ChatTextInit, TextColours, ColoursIn

\* This part of the invariant behind a step, by what there is then.
LEMMA ColoursThen ==
    ASSUME text' = text, NEW s, s = shown', ColoursIn(s, text), next' = "channel" => Len(channels') <= 2,
           NEW heard, heard = Heard', NEW numbers, numbers = NumbersTo(at' - 1),
           stage' = "escape" => EndsWith(numbers, heard)
    PROVE  TextColours'
  <1>1. PICK t : t = text
    OBVIOUS
  <1>2. text' = t
    BY <1>1
  <1>3. ColoursIn(s, t)
    BY <1>1
  <1>4. ColoursIn(shown, text)' <=> ColoursIn(shown', text')
    BY DEF ColoursIn, Stands, NumbersOf
  <1>5. ColoursIn(shown', text')
    BY <1>2, <1>3
  <1>6. NumbersTo(at - 1)' = NumbersTo(at' - 1)
    BY <1>1, <1>2 DEF NumbersTo, NumbersOf
  <1>7. EndsWith(NumbersTo(at - 1), Heard)' <=> EndsWith(NumbersTo(at - 1)', Heard')
    BY DEF EndsWith, ValueOf
  <1>. QED
    BY <1>4, <1>5, <1>6, <1>7 DEF TextColours

\* Calls that show no colour leave what stands in the text.
LEMMA ColoursMore ==
    ASSUME shown \in Seq(ShownOps), NEW op, ColoursIn(shown, text),
           op.kind = "colour" /\ Len(op.is) = 5 => Stands(op.is, NumbersOf(text))
    PROVE  ColoursIn(Append(shown, op), text)
  <1>1. PICK n, s : n = Len(shown) /\ s = Append(shown, op)
    OBVIOUS
  <1>2. n \in Nat /\ DOMAIN shown = 1..n /\ DOMAIN s = 1..n + 1 /\ s[n + 1] = op /\ \A i \in 1..n : s[i] = shown[i]
    BY <1>1
  <1>3. ASSUME NEW i \in 1..n + 1, s[i].kind = "colour", Len(s[i].is) = 5
        PROVE  Stands(s[i].is, NumbersOf(text))
    <2>1. CASE i = n + 1
      BY <1>2, <1>3, <2>1
    <2>2. CASE i # n + 1
      <3>1. i \in 1..n /\ s[i] = shown[i]
        BY <1>2, <2>2
      <3>. QED
        BY <1>2, <1>3, <3>1 DEF ColoursIn
    <2>. QED
      BY <2>1, <2>2
  <1>. QED
    BY <1>1, <1>2, <1>3 DEF ColoursIn

LEMMA CleanEndsColours ==
    ASSUME TextPlaced, TextLetters, TextColours, CleanEnds
    PROVE  TextColours'
  <1>1. text' = text /\ channels' = channels /\ next' = next /\ stage' # "escape" /\ shown = <<>>
    BY DEF CleanEnds, ChatWrite, ChatWriteRaw, ChatWriteLine, TextLetters
  <1>2. PICK s : s = shown'
    OBVIOUS
  <1>3. \A i \in DOMAIN s : s[i].kind # "colour"
    <2>1. CASE s = <<>>
      BY <2>1
    <2>2. CASE s = <<Piece(1, EndPlace)>>
      BY <2>2 DEF Piece
    <2>3. CASE s = <<[kind |-> "char", is |-> <<NewLine>>], Swatch("main")>>
      BY <2>3 DEF Swatch
    <2>. QED
      BY <1>2, <2>1, <2>2, <2>3 DEF CleanEnds, ChatWrite, ChatWriteRaw, ChatWriteLine
  <1>4. ColoursIn(s, text)
    BY <1>3 DEF ColoursIn
  <1>5. next' = "channel" => Len(channels') <= 2
    BY <1>1 DEF TextColours
  <1>. QED
    BY <1>1, <1>2, <1>4, <1>5, ColoursThen

LEMMA WritePieceColours ==
    ASSUME TextPlaced, TextLetters, TextColours, WritePiece
    PROVE  TextColours'
  <1>1. text' = text /\ shown \in Seq(ShownOps) /\ ColoursIn(shown, text)
    BY PieceSteps DEF TextLetters, TextColours
  <1>2. PICK s : s = shown'
    OBVIOUS
  <1>3. s = shown \/ \E i, j : s = Append(shown, Piece(i, j))
    BY <1>2, PieceSteps
  <1>4. ColoursIn(s, text)
    <2>1. ASSUME NEW i, NEW j PROVE ColoursIn(Append(shown, Piece(i, j)), text)
      <3>1. PICK op : op = Piece(i, j)
        OBVIOUS
      <3>2. op.kind # "colour"
        BY <3>1 DEF Piece
      <3>. QED
        BY <1>1, <3>1, <3>2, ColoursMore
    <2>. QED
      BY <1>1, <1>3, <2>1
  <1>5. CASE EscapesFrom(at) = {}
    <2>1. stage' # "escape" /\ (next' = "channel" => Len(channels') <= 2)
      BY <1>5, PieceSteps DEF TextColours
    <2>. QED
      BY <1>1, <1>2, <1>4, <2>1, ColoursThen
  <1>6. CASE EscapesFrom(at) # {}
    <2>1. next' = "type" /\ at' = FirstEscape + 2 /\ FirstEscape \in 1..Len(given) /\ FirstEscape + 2 <= Len(given) + 1
      BY <1>6, PieceSteps, EscapeIs, TextTypes
    <2>2. PICK heard : heard = Heard'
      OBVIOUS
    <2>3. heard = <<>>
      BY <2>1, <2>2 DEF Heard
    <2>4. NumbersTo(at' - 1) \in Seq(Numbers)
      <3>1. PICK q : q = at' - 1
        OBVIOUS
      <3>2. q \in 0..Len(text) /\ q \in q..Len(text)
        BY <2>1, <3>1, TextTypes DEF TextPlaced
      <3>. QED
        BY <3>1, <3>2, NumbersAlong
    <2>5. PICK numbers : numbers = NumbersTo(at' - 1)
      OBVIOUS
    <2>6. EndsWith(numbers, heard)
      BY <2>3, <2>4, <2>5, EndsNothing
    <2>. QED
      BY <1>1, <1>2, <1>4, <2>1, <2>2, <2>5, <2>6, ColoursThen
  <1>. QED
    BY <1>5, <1>6

LEMMA EscapedColours ==
    ASSUME TextPlaced, TextLetters, TextColours, Escaped
    PROVE  TextColours'
  <1>1. /\ stage = "escape" /\ text' = text /\ shown \in Seq(ShownOps) /\ channels \in Seq(Int) /\ ColoursIn(shown, text)
        /\ next = "channel" => Len(channels) <= 2
        /\ EndsWith(NumbersTo(at - 1), Heard)
    BY EscapedSteps DEF TextLetters, TextColours
  <1>2. PICK s, heard, numbers : s = shown' /\ heard = Heard' /\ numbers = NumbersTo(at' - 1)
    OBVIOUS
  <1>3. CASE stage' = "write" /\ at' = at /\ shown' = shown /\ next' = next /\ channels' = channels
    BY <1>1, <1>2, <1>3, ColoursThen
  <1>4. CASE /\ text[FirstInk] \in Numbers
             /\ shown' = shown \o Value(ValueOf(text[FirstInk])).shows
             /\ next' = Value(ValueOf(text[FirstInk])).next
             /\ channels' = Value(ValueOf(text[FirstInk])).channels
             /\ at' = FirstInk + 1 \/ (text[FirstInk + 1] \in {Separator, "m"} /\ at' = FirstInk + 2)
    <2>1. PICK n, x, v, old, m : /\ n = FirstInk /\ x = text[n] /\ v = ValueOf(x) /\ old = NumbersTo(at - 1)
                                 /\ m = Append(old, x)
      OBVIOUS
    <2>2. /\ x \in Numbers /\ v \in Int /\ n \in at..Len(given) /\ at' \in at + 1..Len(text)
          /\ \A k \in at..at' - 1 : k = n \/ text[k] \in Blanks \cup {Separator, "m"}
      BY <1>4, <2>1, NumberIs, ValueOfType
    <2>3. PICK b : b = at'
      OBVIOUS
    <2>4. /\ Len(text) = Len(given) + 1 /\ Len(given) \in Nat /\ at \in Nat /\ at >= 1 /\ n \in Nat /\ b \in Nat
          /\ b = n + 1 \/ b = n + 2
          /\ b <= Len(text) /\ n >= at
      BY <1>4, <2>1, <2>2, <2>3, TextTypes DEF TextPlaced
    <2>5. \A y \in Blanks \cup {Separator, "m"} : y \notin Numbers
      BY DEF Blanks, Space, NewLine, Separator, Numbers
    <2>6. old \in Seq(Numbers) /\ NumbersTo(n - 1) = old
      <3>1. PICK q, r : q = at - 1 /\ r = n - 1
        OBVIOUS
      <3>2. q \in 0..Len(text) /\ r \in q..Len(text) /\ \A k \in q + 1..r : k \in at..b - 1 /\ k # n
        BY <2>4, <3>1
      <3>3. \A k \in q + 1..r : text[k] \notin Numbers
        BY <2>2, <2>3, <2>5, <3>2
      <3>. QED
        BY <2>1, <3>1, <3>2, <3>3, NumbersAlong
    <2>7. NumbersTo(n) = m
      <3>1. PICK q : q = n - 1
        OBVIOUS
      <3>2. q \in 0..Len(text) /\ q \in q..Len(text) /\ q < Len(text) /\ q + 1 = n
        BY <2>4, <3>1
      <3>3. NumbersTo(q + 1) = Append(NumbersTo(q), text[q + 1])
        BY <2>1, <2>2, <3>2, NumbersAlong
      <3>. QED
        BY <2>1, <2>6, <3>1, <3>2, <3>3
    <2>8. numbers = m
      <3>1. n \in 0..Len(text) /\ b - 1 \in n..Len(text) /\ \A k \in n + 1..b - 1 : k \in at..b - 1 /\ k # n
        BY <2>4
      <3>2. PICK r : r = b - 1
        OBVIOUS
      <3>3. \A k \in n + 1..r : text[k] \notin Numbers
        BY <2>2, <2>3, <2>5, <3>1, <3>2
      <3>4. NumbersTo(r) = NumbersTo(n)
        BY <3>1, <3>2, <3>3, NumbersAlong
      <3>. QED
        BY <1>2, <2>3, <2>7, <3>2, <3>4
    <2>9. m \in Seq(Numbers) /\ \E rest \in Seq(Numbers) : NumbersOf(text) = m \o rest
      <3>1. n \in 0..Len(text) /\ n \in n..Len(text)
        BY <2>4
      <3>. QED
        BY <2>7, <3>1, NumbersAlong
    <2>10. /\ next' = "foreground" => v = 38
           /\ next' = "channel" =>
                 \/ next = "foreground" /\ v = 2 /\ channels' = <<>>
                 \/ next = "channel" /\ channels' = Append(channels, v) /\ Len(channels) < 2
           /\ \A i \in DOMAIN Value(v).shows :
                 Value(v).shows[i].kind = "colour" /\ Len(Value(v).shows[i].is) = 5 =>
                     next = "channel" /\ Value(v).shows[i].is = (<<38, 2>> \o channels) \o <<v>>
      BY <1>1, <1>4, <2>1, <2>2, ValueColours
    <2>11. EndsWith(m, heard)
      <3>1. CASE next' = "foreground"
        <4>1. heard = Append(<<>>, v)
          BY <1>2, <2>10, <3>1 DEF Heard
        <4>2. EndsWith(old, <<>>) /\ <<>> \in Seq(Int)
          BY <2>6, EndsNothing
        <4>. QED
          BY <2>1, <2>2, <2>6, <4>1, <4>2, EndsMore
      <3>2. CASE next' = "channel" /\ next = "foreground" /\ v = 2 /\ channels' = <<>>
        <4>1. Heard = <<38>> /\ <<38>> \in Seq(Int)
          BY <3>2 DEF Heard
        <4>2. heard = <<38, 2>> \o <<>>
          BY <1>2, <3>2 DEF Heard
        <4>3. heard = Append(<<38>>, v)
          BY <3>2, <4>2
        <4>. QED
          BY <1>1, <2>1, <2>2, <2>6, <4>1, <4>3, EndsMore
      <3>3. CASE next' = "channel" /\ next = "channel" /\ channels' = Append(channels, v)
        <4>1. PICK c, h : c = channels /\ h = <<38, 2>> \o c
          OBVIOUS
        <4>2. Heard = h /\ c \in Seq(Int)
          BY <1>1, <3>3, <4>1 DEF Heard
        <4>3. heard = <<38, 2>> \o Append(c, v)
          BY <1>2, <3>3, <4>1 DEF Heard
        <4>4. <<38, 2>> \in Seq(Int) /\ h \in Seq(Int)
          <5>1. <<38, 2>> \in Seq(Int)
            OBVIOUS
          <5>. QED
            BY <4>1, <4>2, <5>1, ConcatProperties
        <4>5. <<38, 2>> \o Append(c, v) = Append(<<38, 2>> \o c, v)
          <5>1. ASSUME NEW y \in Seq(Int), NEW z \in Seq(Int) PROVE y \o Append(z, v) = Append(y \o z, v)
            BY <2>2
          <5>. QED
            BY <4>2, <4>4, <5>1
        <4>. QED
          BY <1>1, <2>1, <2>2, <2>6, <4>1, <4>2, <4>3, <4>4, <4>5, EndsMore
      <3>4. CASE next' \notin {"foreground", "channel"}
        <4>1. heard = <<>>
          BY <1>2, <3>4 DEF Heard
        <4>. QED
          BY <2>9, <4>1, EndsNothing
      <3>. QED
        BY <2>10, <3>1, <3>2, <3>3, <3>4
    <2>12. next' = "channel" => Len(channels') <= 2
      <3>1. CASE channels' = <<>>
        BY <3>1
      <3>2. CASE channels' = Append(channels, v) /\ Len(channels) < 2
        <4>1. Len(channels') = Len(channels) + 1 /\ Len(channels) \in Nat
          BY <1>1, <2>2, <3>2, AppendProperties
        <4>. QED
          BY <3>2, <4>1
      <3>. QED
        BY <2>10, <3>1, <3>2
    <2>13. ColoursIn(s, text)
      <3>1. CASE Value(v).shows = <<>>
        <4>1. s = shown
          BY <1>1, <1>2, <1>4, <2>1, <3>1, ConcatEmptySeq
        <4>. QED
          BY <1>1, <4>1
      <3>2. ASSUME NEW op \in ShownOps, Value(v).shows = <<op>>
            PROVE  ColoursIn(s, text)
        <4>1. s = Append(shown, op)
          BY <1>1, <1>2, <1>4, <2>1, <3>2, AppendIsConcat
        <4>2. op.kind = "colour" /\ Len(op.is) = 5 => next = "channel" /\ op.is = (<<38, 2>> \o channels) \o <<v>>
          BY <2>10, <3>2
        <4>3. ASSUME op.kind = "colour", Len(op.is) = 5 PROVE Stands(op.is, NumbersOf(text))
          <5>1. PICK h : h = <<38, 2>> \o channels
            OBVIOUS
          <5>2. Heard = h /\ h \in Seq(Int)
            <6>1. <<38, 2>> \in Seq(Int)
              OBVIOUS
            <6>. QED
              BY <1>1, <4>2, <4>3, <5>1, <6>1, ConcatProperties DEF Heard
          <5>3. op.is = Append(h, v)
            BY <2>2, <4>2, <4>3, <5>1, <5>2, AppendIsConcat
          <5>4. EndsWith(m, op.is)
            BY <1>1, <2>1, <2>2, <2>6, <5>2, <5>3, EndsMore
          <5>5. PICK rest \in Seq(Numbers) : NumbersOf(text) = m \o rest
            BY <2>9
          <5>6. Stands(op.is, m \o rest)
            <6>1. PICK c : c = op.is
              OBVIOUS
            <6>. QED
              BY <2>9, <4>3, <5>4, <6>1, EndStands
          <5>. QED
            BY <5>5, <5>6
        <4>. QED
          BY <1>1, <4>1, <4>3, ColoursMore
      <3>. QED
        BY <1>1, <2>2, <3>1, <3>2, ValueIs
    <2>. QED
      BY <1>1, <1>2, <2>8, <2>11, <2>12, <2>13, ColoursThen
  <1>. QED
    BY <1>3, <1>4, EscapedSteps

LEMMA TextColoursStep == TextPlaced /\ TextLetters /\ TextColours /\ [TextGoesOn]_chatTextVars => TextColours'
  <1> SUFFICES ASSUME TextPlaced, TextLetters, TextColours, [TextGoesOn]_chatTextVars PROVE TextColours'
    OBVIOUS
  <1>1. CASE Clean
    <2>1. shown' = <<>> /\ next' = next /\ channels' = channels /\ stage' = "clean"
      BY <1>1 DEF Clean, TextLetters
    <2>. QED
      BY <2>1 DEF TextColours, ColoursIn
  <1>2. CASE UNCHANGED chatTextVars
    <2>1. /\ text' = text /\ at' = at /\ shown' = shown /\ stage' = stage /\ next' = next /\ channels' = channels
          /\ Heard' = Heard
      BY <1>2 DEF chatTextVars, Heard
    <2>2. PICK s, heard, numbers : s = shown /\ heard = Heard /\ numbers = NumbersTo(at - 1)
      OBVIOUS
    <2>3. s = shown' /\ heard = Heard' /\ numbers = NumbersTo(at' - 1)
      BY <2>1, <2>2
    <2>4. ColoursIn(s, text) /\ (next' = "channel" => Len(channels') <= 2) /\ (stage' = "escape" => EndsWith(numbers, heard))
      BY <2>1, <2>2 DEF TextColours
    <2>. QED
      BY <2>1, <2>3, <2>4, ColoursThen
  <1>. QED
    BY <1>1, <1>2, CleanEndsColours, WritePieceColours, EscapedColours DEF TextGoesOn

LEMMA TextColoursIs == TextColours => ColoursAreWhole
  BY DEF TextColours, ColoursIn, Stands, ColoursAreWhole

-----------------------------------------------------------------------------
TextKept == TextPlaced /\ TextCleaned /\ TextLetters /\ TextConverts /\ TextColours

\* A text that was overrun had an escape too near its end; nothing was shown.
TextOverrun ==
    /\ stage = "overrun" /\ shown = <<>> /\ Len(text) = Len(given) + 1 /\ at \in 0..Len(text) + 1
    /\ \E i \in DOMAIN given : i + 2 > Len(given) /\ given[i] = Escape /\ ~IsColour(given, i)

ChatTextInv == TextKept \/ TextOverrun

\* The pass leaves the text only over such an escape.
LEMMA OverrunFirst ==
    ASSUME TextPlaced, TextLetters, CleanOverruns
    PROVE  TextOverrun'
  <1>1. /\ stage = "clean" /\ text[at] = Escape /\ ~IsColour(text, at) /\ at + 2 >= Len(text)
        /\ text' = CleanedAt(at) /\ stage' = "overrun" /\ given' = given /\ at' = at /\ shown' = shown
    BY DEF CleanOverruns, RunsOver
  <1>2. PICK n : n = Len(given)
    OBVIOUS
  <1>3. /\ n \in Nat /\ Len(text) = n + 1 /\ text[n + 1] = End /\ at \in 1..n + 1 /\ DOMAIN given = 1..n
        /\ text \in Seq(Kinds \cup {End})
    BY <1>2, TextTypes DEF TextPlaced
  <1>4. at \in 1..n
    BY <1>1, <1>3 DEF Escape, End
  <1>5. \A k \in at..n : text[k] = given[k]
    BY <1>1, <1>2 DEF TextPlaced
  <1>6. given[at] = Escape /\ at + 2 > n
    BY <1>1, <1>3, <1>4, <1>5
  <1>7. ~IsColour(given, at)
    <2> SUFFICES ASSUME IsColour(given, at) PROVE FALSE
      OBVIOUS
    <2>1. at < n /\ given[at + 1] = Bracket
      BY <1>2 DEF IsColour
    <2>2. text[at + 1] = Bracket /\ at + 1 = n
      BY <1>3, <1>4, <1>5, <1>6, <2>1
    <2>3. \A j \in at + 2..Len(text) : text[j] = End
      BY <1>3, <1>4, <2>2
    <2>. QED
      BY <1>1, <1>3, <1>4, <2>2, <2>3 DEF IsColour
  <1>8. Len(text') = n + 1
    <2>1. Trailing(text[at]) = 0 /\ text[at] \notin {"control", "cont"}
      BY <1>1, SymbolsDiffer DEF Escape
    <2>2. text' = Blanked(at + 2, at + 2)
      BY <1>1, <2>1 DEF CleanedAt
    <2>3. DOMAIN text = 1..n + 1
      BY <1>3
    <2>4. text' = [k \in 1..n + 1 |-> IF k \in at + 2..at + 2 THEN Space ELSE text[k]]
      BY <2>2, <2>3 DEF Blanked
    <2>5. \A k \in 1..n + 1 : (IF k \in at + 2..at + 2 THEN Space ELSE text[k]) \in Kinds \cup {End}
      BY <1>3, <2>3 DEF Kinds
    <2>6. text' \in Seq(Kinds \cup {End})
      BY <1>3, <2>4, <2>5
    <2>. QED
      BY <1>3, <2>4, <2>6
  <1>9. shown = <<>>
    BY <1>1 DEF TextLetters
  <1>10. \E i \in DOMAIN given' : i + 2 > Len(given') /\ given'[i] = Escape /\ ~IsColour(given, i)'
    <2>1. ~IsColour(given, at)'
      BY <1>1, <1>7 DEF IsColour
    <2>. QED
      BY <1>1, <1>2, <1>3, <1>4, <1>6, <2>1
  <1>. QED
    BY <1>1, <1>2, <1>3, <1>4, <1>8, <1>9, <1>10 DEF TextOverrun

LEMMA ChatTextStarts == ChatTextInit => ChatTextInv
  BY TextStarts, TextCleanedStarts, TextLettersStarts, TextConvertsStarts, TextColoursStarts DEF ChatTextInv, TextKept

LEMMA ChatTextStep == ChatTextInv /\ [ChatTextNext]_chatTextVars => ChatTextInv'
  <1> SUFFICES ASSUME ChatTextInv, [ChatTextNext]_chatTextVars PROVE ChatTextInv'
    OBVIOUS
  <1>1. CASE TextKept /\ [TextGoesOn]_chatTextVars
    <2>1. TextKept'
      BY <1>1, TextPlacedStep, TextCleanedStep, TextLettersStep, TextConvertsStep, TextColoursStep DEF TextKept
    <2>. QED
      BY <2>1 DEF ChatTextInv
  <1>2. CASE TextKept /\ CleanOverruns
    BY <1>2, OverrunFirst DEF TextKept, ChatTextInv
  <1>3. CASE TextOverrun
    <2>1. stage = "overrun"
      BY <1>3 DEF TextOverrun
    <2>2. UNCHANGED chatTextVars
      BY <2>1 DEF ChatTextNext, Clean, CleanOverruns, CleanEnds, WritePiece, Escaped
    <2>3. text' = text /\ given' = given /\ at' = at /\ stage' = stage /\ shown' = shown
      BY <2>2 DEF chatTextVars
    <2>4. TextOverrun'
      BY <1>3, <2>3 DEF TextOverrun, IsColour
    <2>. QED
      BY <2>4 DEF ChatTextInv
  <1>. QED
    BY <1>1, <1>2, <1>3 DEF ChatTextInv, ChatTextNext, TextGoesOn

LEMMA ChatTextIs == ChatTextInv => ChatTextTypeOK /\ ChatTextSound
  <1>1. TextKept => ChatTextTypeOK /\ ChatTextSound
    BY TextPlacedIs, TextCleanedIs, TextLettersIs, TextConvertsIs, TextColoursIs DEF TextKept, ChatTextSound
  <1>2. ASSUME TextOverrun PROVE ChatTextTypeOK /\ ChatTextSound
    <2>1. stage = "overrun" /\ shown = <<>> /\ ~EscapesAreColours
      BY <1>2 DEF TextOverrun, EscapesAreColours
    <2>2. ChatTextTypeOK /\ EndStays
      BY <1>2 DEF TextOverrun, ChatTextTypeOK, EndStays
    <2>3. NothingBroken /\ CleanedTextConverts /\ LettersAreShown
      BY <2>1 DEF NothingBroken, CleanedTextConverts, LettersAreShown
    <2>4. ColoursAreWhole
      BY <2>1 DEF ColoursAreWhole
    <2>. QED
      BY <2>2, <2>3, <2>4 DEF ChatTextSound
  <1>. QED
    BY <1>1, <1>2 DEF ChatTextInv

-----------------------------------------------------------------------------
(* The arena (HeapArena) *)

(* What the arena gave lies inside it; what is not zeroed yet is unwritten. *)
HoldsPages ==
    \A m \in Mappers : /\ Span(m) \subseteq Page
                       /\ ~held[m].zeroed => held[m].wrote = {}

HeapInv == HeapTypeOK /\ HoldsPages /\ ArenaInvariant

USE HeapAssumption

-----------------------------------------------------------------------------
(* The search (Allocate).                                                  *)

LEMMA FirstOfMany ==
    ASSUME NEW S \in SUBSET Nat, S # {}
    PROVE  First(S) \in S
  <1>1. PICK x \in S : \A y \in S : ~ (<<y, x>> \in OpToRel(<, Nat))
    BY NatLessThanWellFounded, WFMin
  <1>2. \A y \in S : ~(y < x)
    BY <1>1 DEF OpToRel
  <1>3. x \in Nat /\ \A y \in S : y \in Nat
    BY <1>1
  <1>4. \A y \in S : x <= y
    BY <1>2, <1>3
  <1> QED
    BY <1>1, <1>4 DEF First

(* What is found fits, and nothing is found only when nothing fits.        *)
LEMMA FindFits ==
    ASSUME HeapTypeOK, NEW pages \in 1..(Pages + 1)
    PROVE  \/ Find(pages) = Pages /\ Fitting(0, pages) = {}
           \/ Find(pages) \in Page /\ Fits(Find(pages), pages)
  <1>1. hint \in Nat
    BY DEF HeapTypeOK
  <1>2. ASSUME NEW from \in Nat, Fitting(from, pages) # {}
        PROVE  First(Fitting(from, pages)) \in Page /\ Fits(First(Fitting(from, pages)), pages)
    <2>1. Fitting(from, pages) \in SUBSET Nat
      BY <1>2 DEF Fitting
    <2>2. First(Fitting(from, pages)) \in Fitting(from, pages)
      BY <1>2, <2>1, FirstOfMany
    <2> QED
      BY <1>2, <2>2 DEF Fitting, Fits, Page
  <1> QED
    BY <1>1, <1>2 DEF Find

(* Counting.                                                               *)
LEMMA PageFinite ==
    /\ IsFiniteSet(Page) /\ Cardinality(Page) = Pages
    /\ \A S \in SUBSET Page : IsFiniteSet(S) /\ Cardinality(S) \in 0..Pages
  <1>1. IsFiniteSet(Page) /\ Cardinality(Page) = Pages
    BY FS_Interval DEF Page
  <1> QED
    BY <1>1, FS_Subset, FS_CardinalityType

LEMMA RunCount ==
    ASSUME NEW first \in Nat, NEW pages \in Nat
    PROVE  IsFiniteSet(Run(first, pages)) /\ Cardinality(Run(first, pages)) = pages
  BY FS_Interval DEF Run

(* A mapper that holds nothing spans nothing.                              *)
LEMMA NothingSpans ==
    ASSUME NEW m \in Mappers, held[m] = Nothing
    PROVE  Span(m) = {}
  BY DEF Nothing, Given, Span, Run

-----------------------------------------------------------------------------
LEMMA HeapInitInv == HeapInit => HeapInv
  <1> SUFFICES ASSUME HeapInit PROVE HeapInv
    OBVIOUS
  <1>1. \A m \in Mappers : Span(m) = {} /\ held[m].zeroed /\ held[m].wrote = {}
    BY NothingSpans DEF HeapInit, Nothing, Given
  <1>2. HeapTypeOK
    BY DEF HeapInit, HeapTypeOK, Holding, Nothing, Given
  <1>3. used = UNION {Span(m) : m \in Mappers}
    BY <1>1 DEF HeapInit
  <1>4. UsedPagesCounted
    BY FS_EmptySet DEF HeapInit, UsedPagesCounted
  <1> QED
    BY <1>1, <1>2, <1>3, <1>4
    DEF HeapInit, HeapInv, HoldsPages, ArenaInvariant, PagesHaveOneHolder, BytesAreTheHolders

(* Memory of the system: the mapper spans nothing of the arena.            *)
LEMMA MmapSystemInv ==
    ASSUME HeapInv, NEW m \in Mappers, NEW pages \in 1..(Pages + 1), held[m] = Nothing,
           held' = [held EXCEPT ![m] = Given(0, pages, TRUE, TRUE)],
           UNCHANGED <<used, hint, usedPages, dirty>>
    PROVE  HeapInv'
  <1>1. held'[m] = Given(0, pages, TRUE, TRUE) /\ \A n \in Mappers \ {m} : held'[n] = held[n]
    BY DEF HeapInv, HeapTypeOK
  <1>2. \A n \in Mappers : Span(n)' = Span(n)
    BY <1>1, NothingSpans DEF Span, Given
  <1>3. HeapTypeOK'
    BY <1>1 DEF HeapInv, HeapTypeOK, Holding, Given
  <1>4. \A n \in Mappers : held'[n].zeroed = held[n].zeroed /\ held'[n].wrote = held[n].wrote
    <2>1. held[m].zeroed = TRUE /\ held[m].wrote = {}
      BY DEF Given, Nothing
    <2>2. held'[m].zeroed = TRUE /\ held'[m].wrote = {}
      BY <1>1 DEF Given
    <2> QED
      BY <1>1, <2>1, <2>2
  <1>5. PagesHaveOneHolder'
    BY <1>2 DEF HeapInv, ArenaInvariant, PagesHaveOneHolder
  <1>6. UsedPagesCounted' /\ BytesAreTheHolders' /\ HoldsPages'
    BY <1>2, <1>4 DEF HeapInv, ArenaInvariant, UsedPagesCounted, BytesAreTheHolders, HoldsPages
  <1> QED
    BY <1>3, <1>5, <1>6 DEF HeapInv, ArenaInvariant

(* Pages of the arena: they were free, so nobody else holds them.          *)
LEMMA MmapArenaInv ==
    ASSUME HeapInv, NEW m \in Mappers, NEW pages \in 1..(Pages + 1), NEW found \in Page,
           Fits(found, pages), held[m] = Nothing,
           held' = [held EXCEPT ![m] = Given(found, pages, FALSE, FALSE)],
           used' = used \cup Run(found, pages), hint' = found + pages,
           usedPages' = usedPages + pages, UNCHANGED dirty
    PROVE  HeapInv'
  <1>1. held'[m] = Given(found, pages, FALSE, FALSE) /\ \A n \in Mappers \ {m} : held'[n] = held[n]
    BY DEF HeapInv, HeapTypeOK
  <1>2. Span(m) = {} /\ Span(m)' = Run(found, pages) /\ \A n \in Mappers \ {m} : Span(n)' = Span(n)
    BY <1>1, NothingSpans DEF Span, Given
  <1>3. Run(found, pages) \subseteq Page /\ Run(found, pages) \cap used = {}
    BY DEF Fits, Run, Page
  <1>4. used' \subseteq Page
    BY <1>3 DEF HeapInv, HeapTypeOK
  <1>5. PagesHaveOneHolder'
    <2>1. \A n \in Mappers : Span(n) \subseteq used
      BY DEF HeapInv, ArenaInvariant, PagesHaveOneHolder
    <2>2. \A n, o \in Mappers : n # o => (Span(n) \cap Span(o) = {})'
      BY <1>2, <1>3, <2>1 DEF HeapInv, ArenaInvariant, PagesHaveOneHolder
    <2>3. used' = UNION {Span(n)' : n \in Mappers}
      BY <1>2 DEF HeapInv, ArenaInvariant, PagesHaveOneHolder
    <2> QED
      BY <2>2, <2>3 DEF PagesHaveOneHolder
  <1>6. UsedPagesCounted'
    <2>1. /\ IsFiniteSet(used) /\ IsFiniteSet(Run(found, pages))
          /\ Cardinality(Run(found, pages)) = pages
      BY PageFinite, RunCount DEF HeapInv, HeapTypeOK, Page
    <2>2. Cardinality(used \cap Run(found, pages)) = 0
      BY <1>3, FS_EmptySet
    <2>3. Cardinality(used) \in Nat
      BY <2>1, FS_CardinalityType
    <2> QED
      BY <2>1, <2>2, <2>3, FS_Union DEF HeapInv, ArenaInvariant, UsedPagesCounted
  <1>7. HeapTypeOK'
    <2>1. held' \in [Mappers -> Holding] /\ hint' \in 0..Pages
      BY <1>1 DEF HeapInv, HeapTypeOK, Holding, Given, Fits, Page
    <2>2. usedPages' \in 0..Pages
      BY <1>4, <1>6, PageFinite DEF UsedPagesCounted
    <2> QED
      BY <1>4, <2>1, <2>2 DEF HeapInv, HeapTypeOK
  <1>8. BytesAreTheHolders' /\ HoldsPages'
    BY <1>1, <1>2, <1>3 DEF HeapInv, ArenaInvariant, BytesAreTheHolders, HoldsPages, Given
  <1> QED
    BY <1>5, <1>6, <1>7, <1>8 DEF HeapInv, ArenaInvariant

LEMMA MmapInv ==
    ASSUME HeapInv, NEW m \in Mappers, NEW pages \in 1..(Pages + 1), Mmap(m, pages)
    PROVE  HeapInv'
  <1>1. CASE Find(pages) = Pages
    BY <1>1, MmapSystemInv DEF Mmap
  <1>2. CASE Find(pages) # Pages
    <2>1. Find(pages) \in Page /\ Fits(Find(pages), pages)
      BY <1>2, FindFits DEF HeapInv
    <2> QED
      BY <1>2, <2>1, MmapArenaInv DEF Mmap
  <1> QED
    BY <1>1, <1>2

LEMMA ZeroInv ==
    ASSUME HeapInv, NEW m \in Mappers, Zero(m)
    PROVE  HeapInv'
  <1>1. /\ held'[m] = [held[m] EXCEPT !.zeroed = TRUE] /\ held[m] \in Holding
        /\ \A n \in Mappers \ {m} : held'[n] = held[n]
    BY DEF HeapInv, HeapTypeOK, Zero
  <1>2. \A n \in Mappers : Span(n)' = Span(n) /\ held'[n].wrote = held[n].wrote
    BY <1>1 DEF Span, Holding
  <1>3. HeapTypeOK'
    BY <1>1 DEF HeapInv, HeapTypeOK, Holding, Zero
  <1>4. PagesHaveOneHolder' /\ UsedPagesCounted'
    BY <1>2 DEF HeapInv, ArenaInvariant, PagesHaveOneHolder, UsedPagesCounted, Zero
  <1>5. BytesAreTheHolders'
    <2>1. \A n \in Mappers \ {m} : Span(n) \cap dirty' = Span(n) \cap dirty
      BY DEF HeapInv, ArenaInvariant, PagesHaveOneHolder, Zero
    <2>2. Span(m) \cap dirty' = {} /\ held[m].wrote = {}
      BY DEF HeapInv, HoldsPages, Zero
    <2> QED
      BY <1>1, <1>2, <2>1, <2>2 DEF HeapInv, ArenaInvariant, BytesAreTheHolders
  <1>6. HoldsPages'
    BY <1>1, <1>2 DEF HeapInv, HoldsPages, Holding
  <1> QED
    BY <1>3, <1>4, <1>5, <1>6 DEF HeapInv, ArenaInvariant

LEMMA WriteInv ==
    ASSUME HeapInv, NEW m \in Mappers, NEW page \in Page, Write(m, page)
    PROVE  HeapInv'
  <1>1. /\ held'[m] = [held[m] EXCEPT !.wrote = @ \cup {page}] /\ held[m] \in Holding
        /\ \A n \in Mappers \ {m} : held'[n] = held[n]
    BY DEF HeapInv, HeapTypeOK, Write
  <1>2. \A n \in Mappers : Span(n)' = Span(n) /\ held'[n].zeroed = held[n].zeroed
    BY <1>1 DEF Span, Holding
  <1>3. HeapTypeOK'
    BY <1>1 DEF HeapInv, HeapTypeOK, Holding, Write
  <1>4. PagesHaveOneHolder' /\ UsedPagesCounted'
    BY <1>2 DEF HeapInv, ArenaInvariant, PagesHaveOneHolder, UsedPagesCounted, Write
  <1>5. BytesAreTheHolders'
    <2>1. \A n \in Mappers \ {m} : Span(n) \cap dirty' = Span(n) \cap dirty
      BY DEF HeapInv, ArenaInvariant, PagesHaveOneHolder, Write
    <2>2. Span(m) \cap dirty' = held'[m].wrote
      BY <1>1 DEF HeapInv, ArenaInvariant, BytesAreTheHolders, Write, Holding
    <2>3. ASSUME NEW n \in Mappers \ {m}, held'[n].zeroed
          PROVE  Span(n)' \cap dirty' = held'[n].wrote
      <3>1. held'[n] = held[n] /\ Span(n)' = Span(n)
        BY <1>1, <1>2
      <3> QED
        BY <2>1, <2>3, <3>1 DEF HeapInv, ArenaInvariant, BytesAreTheHolders
    <2> QED
      BY <1>2, <2>2, <2>3 DEF BytesAreTheHolders
  <1>6. HoldsPages'
    BY <1>1, <1>2 DEF HeapInv, HoldsPages, Write
  <1> QED
    BY <1>3, <1>4, <1>5, <1>6 DEF HeapInv, ArenaInvariant

LEMMA MunmapInv ==
    ASSUME HeapInv, NEW m \in Mappers, Munmap(m)
    PROVE  HeapInv'
  <1>1. held'[m] = Nothing /\ \A n \in Mappers \ {m} : held'[n] = held[n]
    BY DEF HeapInv, HeapTypeOK, Munmap
  <1>2. Span(m)' = {} /\ \A n \in Mappers \ {m} : Span(n)' = Span(n)
    BY <1>1 DEF Span, Nothing, Given, Run
  <1>3. used' = used \ Span(m) /\ used' \subseteq Page
    BY DEF HeapInv, HeapTypeOK, Munmap
  <1>4. PagesHaveOneHolder'
    <2>1. \A n, o \in Mappers : n # o => (Span(n) \cap Span(o) = {})'
      BY <1>2 DEF HeapInv, ArenaInvariant, PagesHaveOneHolder
    <2>2. used' = UNION {Span(n)' : n \in Mappers}
      BY <1>2, <1>3 DEF HeapInv, ArenaInvariant, PagesHaveOneHolder
    <2> QED
      BY <2>1, <2>2 DEF PagesHaveOneHolder
  <1>5. UsedPagesCounted'
    <2>1. used \in SUBSET Page
      BY DEF HeapInv, HeapTypeOK
    <2>2. IsFiniteSet(used)
      BY <2>1, PageFinite
    <2>3. Cardinality(used \ Span(m)) = Cardinality(used) - Cardinality(used \cap Span(m))
      BY <2>2, FS_Difference
    <2>4. usedPages' = usedPages - Cardinality(Span(m) \cap used)
      BY DEF Munmap, PagesAfter
    <2>5. usedPages = Cardinality(used) /\ used \cap Span(m) = Span(m) \cap used
      BY DEF HeapInv, ArenaInvariant, UsedPagesCounted
    <2> QED
      BY <1>3, <2>3, <2>4, <2>5 DEF UsedPagesCounted
  <1>6. HeapTypeOK'
    <2>1. held' \in [Mappers -> Holding] /\ hint' \in 0..Pages
      BY <1>1 DEF HeapInv, HeapTypeOK, Holding, Nothing, Given, Munmap
    <2>2. usedPages' \in 0..Pages
      BY <1>3, <1>5, PageFinite DEF UsedPagesCounted
    <2> QED
      BY <1>3, <2>1, <2>2 DEF HeapInv, HeapTypeOK, Munmap
  <1>7. BytesAreTheHolders' /\ HoldsPages'
    BY <1>1, <1>2 DEF HeapInv, ArenaInvariant, BytesAreTheHolders, HoldsPages, Nothing, Given, Munmap
  <1> QED
    BY <1>4, <1>5, <1>6, <1>7 DEF HeapInv, ArenaInvariant

LEMMA HeapStepInv == HeapInv /\ [HeapNext]_heapVars => HeapInv'
  <1> SUFFICES ASSUME HeapInv, [HeapNext]_heapVars PROVE HeapInv'
    OBVIOUS
  <1>1. CASE HeapNext
    BY <1>1, MmapInv, ZeroInv, WriteInv, MunmapInv DEF HeapNext
  <1>2. CASE UNCHANGED heapVars
    <2>1. HeapTypeOK' /\ (UsedPagesCounted <=> UsedPagesCounted')
      BY <1>2 DEF heapVars, HeapInv, HeapTypeOK, UsedPagesCounted
    <2>2. \A m \in Mappers : Span(m)' = Span(m)
      BY <1>2 DEF heapVars, Span
    <2>3. HoldsPages' /\ PagesHaveOneHolder' /\ BytesAreTheHolders'
      BY <1>2, <2>2 DEF heapVars, HeapInv, HoldsPages, ArenaInvariant, PagesHaveOneHolder,
                        BytesAreTheHolders
    <2> QED
      BY <2>1, <2>3 DEF HeapInv, ArenaInvariant
  <1> QED
    BY <1>1, <1>2

(* No page of the arena has two holders, none is lost, the count is exact, *)
(* and what mmap hands out is zero and then only its holder's              *)
(* (heaparena, __mmap, __munmap), for any arena and any number of callers. *)
THEOREM ArenaIsSound == HeapSpec => [](HeapTypeOK /\ ArenaInvariant)
  <1>1. HeapInv => HeapTypeOK /\ ArenaInvariant
    BY DEF HeapInv
  <1> QED
    BY <1>1, HeapInitInv, HeapStepInv, PTL DEF HeapSpec

LEMMA SystemStep ==
    HeapInv /\ [HeapNext]_heapVars =>
        [\A m \in Mappers : held'[m].real /\ ~held[m].real => Fitting(0, held'[m].pages) = {}]_heapVars
  <1> SUFFICES ASSUME HeapInv, HeapNext, NEW n \in Mappers, held'[n].real, ~held[n].real
               PROVE  Fitting(0, held'[n].pages) = {}
    OBVIOUS
  <1>1. ASSUME NEW m \in Mappers, NEW pages \in 1..(Pages + 1), Mmap(m, pages)
        PROVE  Fitting(0, held'[n].pages) = {}
    <2>1. CASE Find(pages) = Pages
      <3>1. Fitting(0, pages) = {}
        BY <2>1, FindFits DEF HeapInv, Page
      <3>2. n = m /\ held'[m].pages = pages
        BY <1>1, <2>1 DEF Mmap, HeapInv, HeapTypeOK, Given
      <3> QED
        BY <3>1, <3>2
    <2>2. CASE Find(pages) # Pages
      BY <1>1, <2>2 DEF Mmap, HeapInv, HeapTypeOK, Given
    <2> QED
      BY <2>1, <2>2
  <1>2. ASSUME NEW m \in Mappers, Zero(m) \/ Munmap(m) \/ \E page \in Page : Write(m, page)
        PROVE  FALSE
    BY <1>2 DEF Zero, Munmap, Write, HeapInv, HeapTypeOK, Holding, Nothing, Given
  <1> QED
    BY <1>1, <1>2 DEF HeapNext

(* Memory is taken from the system only when no run of the arena is long   *)
(* enough (Allocate's two searches, __mmap).                               *)
THEOREM SystemIsLast == HeapSpec => SystemOnlyWhenFull
  BY HeapInitInv, HeapStepInv, SystemStep, PTL DEF HeapSpec, SystemOnlyWhenFull

-----------------------------------------------------------------------------
(* The decompressor (Lzss) *)

LzssStates == {<<"reading">>, <<"refused">>} \cup {<<"returned", n>> : n \in Nat}

(* While it reads, the count is what was written; afterwards only the size *)
(* returned is looked at.                                                  *)
LzssInv ==
    /\ actualSize \in 0..MostSize /\ bufferSize \in 0..MostSize /\ totalBytes \in Nat
    /\ output \in Seq(Bytes) /\ Len(output) <= bufferSize
    /\ lzssState \in LzssStates
    /\ lzssState = <<"reading">> => Len(output) = totalBytes
    /\ lzssState \notin {<<"reading">>, <<"refused">>} =>
          /\ lzssState = <<"returned", Len(output)>>
          /\ Len(output) = actualSize /\ Len(output) = totalBytes

USE LzssAssumption DEF LzssAssumption

(* The byte a reference repeats lies between the reference and the end.    *)
LEMMA SourceIsWritten ==
    ASSUME NEW len \in Nat, NEW d \in 1..len, NEW i \in Nat \ {0}
    PROVE  len - d + 1 + ((i - 1) % d) \in 1..len
  <1>1. (i - 1) % d \in 0..(d - 1)
    OBVIOUS
  <1> QED
    BY <1>1

(* What a reference within the output adds is bytes of the output.         *)
LEMMA CopiedBytes ==
    ASSUME output \in Seq(Bytes), NEW d \in 1..Len(output), NEW n \in Nat
    PROVE  /\ Copied(d, n) \in Seq(Bytes)
           /\ Len(Copied(d, n)) = Len(output) + n
  <1> DEFINE copy == [i \in 1..n |-> IF Source(d, i) >= 1 THEN output[Source(d, i)]
                                      ELSE "before the output"]
  <1>1. Len(output) \in Nat
    BY LenProperties
  <1>2. ASSUME NEW i \in 1..n
        PROVE  copy[i] \in Bytes
    <2>1. Source(d, i) \in 1..Len(output)
      BY <1>1, SourceIsWritten DEF Source
    <2>2. output[Source(d, i)] \in Bytes
      BY <2>1, ElementOfSeq
    <2> QED
      BY <2>1, <2>2
  <1>3. copy \in Seq(Bytes) /\ Len(copy) = n
    <2>1. copy \in [1..n -> Bytes]
      BY <1>2
    <2>2. copy \in Seq(Bytes)
      <3> HIDE DEF copy
      <3> QED
        BY <2>1, SeqDef
    <2> HIDE DEF copy
    <2> QED
      BY <2>1, <2>2, LenProperties
  <1>4. Copied(d, n) = output \o copy
    BY DEF Copied
  <1> HIDE DEF copy
  <1> QED
    BY <1>3, <1>4, ConcatProperties

LEMMA StatesDiffer ==
    /\ <<"reading">> # <<"refused">>
    /\ \A n : <<"returned", n>> \notin {<<"reading">>, <<"refused">>}
  OBVIOUS

LEMMA LzssInitInv == LzssInit => LzssInv
  BY EmptySeq, StatesDiffer DEF LzssInit, LzssInv, LzssStates

(* Reading goes on when what was added is counted and fits.                *)
LEMMA ReadingGoesOn ==
    ASSUME LzssInv, lzssState = <<"reading">>, lzssState' = lzssState,
           UNCHANGED <<actualSize, bufferSize>>,
           output' \in Seq(Bytes), totalBytes' \in Nat,
           Len(output') = totalBytes', totalBytes' <= bufferSize
    PROVE  LzssInv'
  <1>1. lzssState' \in LzssStates /\ lzssState' \in {<<"reading">>, <<"refused">>}
    BY DEF LzssInv
  <1>2. Len(output)' = Len(output')
    OBVIOUS
  <1>3. Len(output)' <= bufferSize'
    BY <1>2
  <1> QED
    BY <1>1, <1>2, <1>3 DEF LzssInv

LEMMA LiteralInv ==
    ASSUME LzssInv, lzssState = <<"reading">>, UNCHANGED <<actualSize, bufferSize>>,
           NEW b \in Bytes, Literal(b)
    PROVE  LzssInv'
  <1>1. CASE totalBytes' > bufferSize
    BY <1>1, StatesDiffer DEF LzssInv, LzssStates, Literal, Refuse
  <1>2. CASE ~(totalBytes' > bufferSize)
    <2>1. /\ Append(output, b) \in Seq(Bytes)
          /\ Len(Append(output, b)) = Len(output) + 1
      BY AppendProperties DEF LzssInv
    <2>2. totalBytes' = totalBytes + 1 /\ output' = Append(output, b) /\ lzssState' = lzssState
      BY <1>2 DEF Literal
    <2>3. Len(output) = totalBytes /\ totalBytes \in Nat /\ bufferSize \in Nat
      BY DEF LzssInv
    <2> QED
      BY <1>2, <2>1, <2>2, <2>3, ReadingGoesOn
  <1> QED
    BY <1>1, <1>2

LEMMA BackReferenceInv ==
    ASSUME LzssInv, lzssState = <<"reading">>, UNCHANGED <<actualSize, bufferSize>>,
           NEW d \in 1..MostDistance, NEW n \in 2..MostCount, BackReference(d, n)
    PROVE  LzssInv'
  <1>1. CASE TooFar(d)
    BY <1>1, StatesDiffer DEF LzssInv, LzssStates, BackReference, Refuse
  <1>2. CASE ~TooFar(d) /\ totalBytes' > bufferSize
    BY <1>2, StatesDiffer DEF LzssInv, LzssStates, BackReference, Refuse
  <1>3. CASE ~TooFar(d) /\ ~(totalBytes' > bufferSize)
    <2>1. /\ d \in 1..Len(output) /\ n \in Nat
          /\ output' = Copied(d, n) /\ totalBytes' = totalBytes + n /\ lzssState' = lzssState
      BY <1>3 DEF LzssInv, TooFar, BackReference
    <2>2. /\ Copied(d, n) \in Seq(Bytes)
          /\ Len(Copied(d, n)) = Len(output) + n
      BY <2>1, CopiedBytes DEF LzssInv
    <2>3. Len(output) = totalBytes /\ totalBytes \in Nat /\ bufferSize \in Nat
      BY DEF LzssInv
    <2> QED
      BY <1>3, <2>1, <2>2, <2>3, ReadingGoesOn
  <1> QED
    BY <1>1, <1>2, <1>3

LEMMA EndMarkerInv ==
    ASSUME LzssInv, lzssState = <<"reading">>, UNCHANGED <<actualSize, bufferSize>>, EndMarker
    PROVE  LzssInv'
  BY StatesDiffer DEF LzssInv, LzssStates, EndMarker

LEMMA LzssStepInv == LzssInv /\ [SafeUncompress]_lzssVars => LzssInv'
  <1>1. CASE SafeUncompress
    BY <1>1, LiteralInv, BackReferenceInv, EndMarkerInv DEF SafeUncompress
  <1>2. CASE UNCHANGED lzssVars
    BY <1>2 DEF LzssInv, lzssVars
  <1> QED
    BY <1>1, <1>2

LEMMA LzssInvSound == LzssInv => LzssTypeOK /\ LzssSound
  <1> SUFFICES ASSUME LzssInv PROVE LzssTypeOK /\ LzssSound
    OBVIOUS
  <1>1. \A i \in DOMAIN output : output[i] \in Bytes
    BY LenProperties, ElementOfSeq DEF LzssInv
  <1>2. lzssState[1] = "returned" => lzssState \notin {<<"reading">>, <<"refused">>}
    OBVIOUS
  <1>3. LzssSound
    BY <1>1, <1>2 DEF LzssInv, LzssSound
  <1>4. output \in Seq(Bytes \cup {"before the output"})
    <2>1. output \in [1..Len(output) -> Bytes \cup {"before the output"}] /\ Len(output) \in Nat
      BY <1>1, LenProperties DEF LzssInv
    <2> QED
      BY <2>1, SeqDef
  <1> QED
    BY <1>3, <1>4 DEF LzssInv, LzssTypeOK

(* The decompressor's safety (lzss.h): it writes nothing past the buffer   *)
(* and copies nothing from before the output, and a size it returns is the *)
(* one the header declared and the one it wrote.                           *)
THEOREM DecompressorSound == LzssSpec => []LzssSound
  BY LzssInitInv, LzssStepInv, LzssInvSound, PTL DEF LzssSpec

-----------------------------------------------------------------------------
(* The parts side by side.  Whichever of them runs, each starts as its own *)
(* specification says and each step is one of its own or leaves it alone.  *)

LEMMA PartsStart ==
    EngineInit => /\ HeapInit /\ StacksInit /\ LzssInit /\ HttpInit /\ DatagramsInit
                  /\ NetMessagesInit /\ StringCommandsInit /\ ChatInit /\ ChatTextInit /\ KeyboardInit
  BY DEF EngineInit

LEMMA PartsStep ==
    [EngineNext]_engineVars =>
        /\ [HeapNext]_heapVars /\ [StacksNext]_stackVars /\ [SafeUncompress]_lzssVars
        /\ [HttpNext]_httpVars /\ [DatagramsNext]_datagramVars /\ [NetMessagesNext]_netMessageVars
        /\ [StringCommandsNext]_stringCommandsVars /\ [ChatNext]_chatVars
        /\ [ChatTextNext]_chatTextVars /\ [KeyboardNext]_keyboardVars
  <1>1. CASE EngineNext
    BY <1>1 DEF EngineNext
  <1>2. CASE UNCHANGED engineVars
    BY <1>2 DEF engineVars
  <1> QED
    BY <1>1, <1>2

\* MemorySound: in the arena, on the threads' stacks and in the decompressor
\* memory is one holder's (heaparena, threadstacks, lzss), for any sizes.
THEOREM MemoryIsSound == EngineSpec => MemorySound
  <1>1. EngineInit => HeapInv /\ StacksInv /\ LzssInv
    BY PartsStart, HeapInitInv, StacksInitInv, LzssInitInv
  <1>2. HeapInv /\ [EngineNext]_engineVars => HeapInv'
    BY PartsStep, HeapStepInv
  <1>3. StacksInv /\ [EngineNext]_engineVars => StacksInv'
    BY PartsStep, StacksStepInv
  <1>4. LzssInv /\ [EngineNext]_engineVars => LzssInv'
    BY PartsStep, LzssStepInv
  <1>5. /\ HeapInv => (part = "heap" => ArenaInvariant)
        /\ StacksInv => (part = "stacks" => SlotsAreAccounted)
        /\ LzssInv => (part = "lzss" => LzssSound)
    BY StacksSound, LzssInvSound DEF HeapInv
  <1>6. HeapInv /\ [EngineNext]_engineVars =>
            [\A m \in Mappers : held'[m].real /\ ~held[m].real => Fitting(0, held'[m].pages) = {}]_heapVars
    BY PartsStep, SystemStep
  <1> QED
    BY <1>1, <1>2, <1>3, <1>4, <1>5, <1>6, PTL DEF EngineSpec, MemorySound, SystemOnlyWhenFull

\* RequestsAreWhole: what the callers of HttpGet, HttpPost and HttpStream rely
\* on, for any number of threads and any body (runtime_http.inl).
THEOREM RequestsAreWholeAlways == EngineSpec => []RequestsAreWhole
  <1>1. EngineInit => HttpInv
    BY PartsStart, HttpInitInv
  <1>2. HttpInv /\ [EngineNext]_engineVars => HttpInv'
    BY PartsStep, HttpStepInv
  <1>3. HttpInv => RequestsAreWhole
    BY HttpSound DEF RequestsAreWhole
  <1> QED
    BY <1>1, <1>2, <1>3, PTL DEF EngineSpec

\* NetworkSound: what comes from the network reaches the engine only as it can
\* take it, whatever messages and datagrams come (runtime_netmessage_fixes.inl).
THEOREM NetworkIsSound == EngineSpec => NetworkSound
  <1>1. EngineInit => DatagramsInv /\ NetMessagesInv
    BY PartsStart, DatagramsInitInv, NetMessagesInitInv
  <1>2. DatagramsInv /\ [EngineNext]_engineVars => DatagramsInv'
    BY PartsStep, DatagramsStepInv
  <1>3. NetMessagesInv /\ [EngineNext]_engineVars => NetMessagesInv'
    BY PartsStep, NetMessagesStepInv
  <1>4. /\ DatagramsInv => (part = "datagrams" => DatagramsSound)
        /\ NetMessagesInv => (part = "messages" => NetMessagesInvariant)
    BY DatagramsAreSound DEF NetMessagesInv
  <1>5. NetMessagesInv /\ [EngineNext]_engineVars => [MessageHandled]_netMessageVars
    BY PartsStep, NetMessagesStepHandled
  <1> QED
    BY <1>1, <1>2, <1>3, <1>4, <1>5, PTL DEF EngineSpec, NetworkSound, HandlersHold, MessageHandled

\* CommandsSound: in no second a client runs more than two quotas of commands,
\* a client is disconnected only for more than the quota, and with the rule on
\* a remote client runs marked commands only (runtime_string_commands.inl).
THEOREM CommandsAreSoundAlways == EngineSpec => []CommandsSound
  <1>1. EngineInit => CommandsInv
    BY PartsStart, CommandsInitInv
  <1>2. CommandsInv /\ [EngineNext]_engineVars => CommandsInv'
    BY PartsStep, CommandsStepInv
  <1>3. CommandsInv => CommandsSound
    BY CommandsAreSound DEF CommandsSound
  <1> QED
    BY <1>1, <1>2, <1>3, PTL DEF EngineSpec

\* ChatIsSound: what a player types arrives as it was typed with the option that
\* asked for it (runtime_chat_ui.inl); no second sees more than two windows'
\* worth of a player's messages go on, none is dropped as too many without
\* cause, and a line is shown as it was meant (runtime_chat.inl,
\* runtime_chat_client.inl); and of a cleaned text every letter is read on every
\* panel, without replacement characters, in the colours that stand in it
\* (chat_text.h).  For any texts, panels, limits and players.
THEOREM ChatIsSoundAlways == EngineSpec => ChatIsSound
  <1>1. EngineInit => ChatInv /\ ChatTextInv /\ KeyboardInv
    BY PartsStart, ChatInitInv, ChatTextStarts, KeyboardStarts
  <1>2. ChatInv /\ [EngineNext]_engineVars => ChatInv'
    BY PartsStep, ChatStepInv
  <1>3. ChatTextInv /\ [EngineNext]_engineVars => ChatTextInv'
    BY PartsStep, ChatTextStep
  <1>4. KeyboardInv /\ [EngineNext]_engineVars => KeyboardInv'
    BY PartsStep, KeyboardStep
  <1>5. /\ ChatInv => (part = "chat" => ChatSound)
        /\ ChatTextInv => (part = "text" => ChatTextSound)
        /\ KeyboardInv => (part = "keyboard" => KeyboardInvariant)
    BY ChatIsSoundly, ChatTextIs, KeyboardSound
  <1>6. KeyboardInv /\ [EngineNext]_engineVars => [TextToItsAsker]_keyboardVars
    BY PartsStep, StepToItsAsker
  <1> QED
    BY <1>1, <1>2, <1>3, <1>4, <1>5, <1>6, PTL DEF EngineSpec, ChatIsSound

\* EngineTypeOK: the state of the component that runs stays in its types, from
\* the arena's pages to the place in a chat message's text.
THEOREM EngineTypeOKAlways == EngineSpec => []EngineTypeOK
  <1> DEFINE EngineInv == /\ HeapInv /\ StacksInv /\ LzssInv /\ HttpInv /\ DatagramsInv
                          /\ NetMessagesInv /\ CommandsInv /\ ChatInv /\ ChatTextInv /\ KeyboardInv
  <1>1. EngineInit => EngineInv
    BY PartsStart, HeapInitInv, StacksInitInv, LzssInitInv, HttpInitInv, DatagramsInitInv, NetMessagesInitInv,
       CommandsInitInv, ChatInitInv, ChatTextStarts, KeyboardStarts
  <1>2. EngineInv /\ [EngineNext]_engineVars => EngineInv'
    BY PartsStep, HeapStepInv, StacksStepInv, LzssStepInv, HttpStepInv, DatagramsStepInv, NetMessagesStepInv,
       CommandsStepInv, ChatStepInv, ChatTextStep, KeyboardStep
  <1>3. EngineInv => EngineTypeOK
    BY LzssInvSound, HttpSound, DatagramsAreSound, CommandsAreSound, ChatIsSoundly, ChatTextIs, KeyboardSound
       DEF EngineTypeOK, HeapInv, StacksInv, NetMessagesInv
  <1> QED
    BY <1>1, <1>2, <1>3, PTL DEF EngineSpec

=============================================================================
