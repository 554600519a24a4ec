--------------------------- MODULE StringCommands ---------------------------
(***************************************************************************)
(* The guard in front of the engine's ExecuteStringCommand on a hosted     *)
(* server (runtime_string_commands.inl): a quota of commands a second for  *)
(* each client slot, the commands a remote client may run, and the legacy  *)
(* commands blocked without cheats.                                        *)
(*                                                                         *)
(* A command is one of CommandKinds, by what the engine's tables and the   *)
(* lists in FixFlags say of its first word.                                *)
(***************************************************************************)
EXTENDS Integers, FiniteSets

CONSTANTS
    CommandSlots,    \* client slots; 0 is the host's
    CommandPlayers,  \* players who join them
    CommandQuotas,   \* values sv_quota_stringcmdspersecond may have; -1 is off
    QuotaSecond,          \* clock ticks in the quota's second
    MaxCommandTime   \* bound: ticks

ASSUME StringCommandsAssumption ==
    /\ CommandSlots \subseteq Nat /\ QuotaSecond \in Nat \ {0} /\ MaxCommandTime \in Nat
    /\ QuotaSecond <= MaxCommandTime /\ "nobody" \notin CommandPlayers
    /\ CommandQuotas \subseteq Nat \cup {-1}

\* "engine": in the engine's own table; "cheat": in the list FixFlags adds;
\* "removed": in the list it clears; "plain": a command without the flag;
\* "convar" and "script": no ConCommand; "legacy": blocked without cheats.
CommandKinds == {"engine", "cheat", "removed", "plain", "convar", "script", "legacy"}
ConCommands == CommandKinds \ {"convar", "script"}
CallSites == {"message", "thunk"}

VARIABLES
    located,         \* what the installation located: "slots", the engine's client array
                   \* (g_engineBaseForPersistence), and "disconnect" (g_clientDisconnect)
    remoteFlag,    \* ConCommands flagged FCVAR_GAMEDLL_FOR_REMOTE_CLIENTS
    flagsFixed,    \* g_flagsFixed
    remoteRuleOn,  \* g_remoteRuleOn
    guardedSites,       \* call sites that reach the guard; "installing" until it is done
    quota,         \* sv_quota_stringcmdspersecond
    cheats,        \* sv_cheats
    quotas,        \* g_quotas
    inSlot,        \* the player in each slot, or "nobody"
    time,          \* sceKernelGetProcessTime
    recent,        \* history, while it counts: what the guard did with each slot's
                   \* commands since it last found them too many, within a second of
                   \* the last of them
    last           \* the last command: [slot, by, kind, guarded, did]

stringCommandsVars ==
    <<located, remoteFlag, flagsFixed, remoteRuleOn, guardedSites, quota, cheats, quotas, inSlot, time,
      recent, last>>

\* What is located is so before a client is in a slot: the server's module and the
\* console commands come first.
StringCommandsInit ==
    /\ remoteFlag = {"removed"} /\ flagsFixed = FALSE /\ remoteRuleOn = FALSE /\ guardedSites = {"installing"}
    /\ quota \in CommandQuotas /\ cheats \in BOOLEAN /\ located \in SUBSET {"slots", "disconnect"}
    /\ quotas = [s \in CommandSlots |-> [start |-> 0, count |-> 0]]
    /\ inSlot = [s \in CommandSlots |-> "nobody"]
    /\ time = QuotaSecond /\ recent = [s \in CommandSlots |-> {}]
    /\ last = [slot |-> 0, by |-> "nobody", kind |-> "script", guarded |-> FALSE, did |-> "ran"]

\* InstallStringCommandGuard: the lookups are as the rule needs them, or not;
\* a call site may be out of reach or not writable.
InstallStringCommandGuard ==
    /\ guardedSites = {"installing"}
    /\ remoteRuleOn' \in BOOLEAN /\ guardedSites' \in SUBSET CallSites
    /\ UNCHANGED <<located, remoteFlag, flagsFixed, quota, cheats, quotas, inSlot, time, recent, last>>

-----------------------------------------------------------------------------
\* SlotOf is -1 while the array is not located: nothing is counted then, and
\* slot 0 is not known to be the host's.
CountsCommands == quota # -1 /\ "slots" \in located
HostsOwn(s, by) == (s = 0 /\ "slots" \in located) \/ by = "host"
IsHostClient(s) == HostsOwn(s, inSlot[s])

\* The slot's quota once this command is counted.
Counted(s) ==
    IF time - quotas[s].start >= QuotaSecond THEN [start |-> time, count |-> 1]
    ELSE [start |-> quotas[s].start, count |-> quotas[s].count + 1]

FixedFlags == (remoteFlag \cup {"engine", "cheat"}) \ {"removed"}

\* A plausible bug: the flags are read before they are fixed.
RefusesAsMarked(s, k) == remoteRuleOn /\ k \in ConCommands \ remoteFlag /\ ~IsHostClient(s)
RefusesCommand(s, k) == remoteRuleOn /\ k \in ConCommands \ FixedFlags /\ ~IsHostClient(s)

\* A command too many is dropped, its client disconnected if that was located.
TooMany == {"kicked", "dropped"}
Outcomes == {"ran", "refused", "blocked"} \cup TooMany
Lately(s) == {c \in recent[s] : c.at > time - QuotaSecond /\ \A d \in recent[s] : d.did \notin TooMany}
Command(s, did) == [at |-> time, window |-> Counted(s).start, n |-> Counted(s).count, did |-> did]
Handled(s, k, did) ==
    /\ last' = [slot |-> s, by |-> inSlot[s], kind |-> k, guarded |-> TRUE, did |-> did]
    /\ recent' = IF CountsCommands THEN [recent EXCEPT ![s] = Lately(s) \cup {Command(s, did)}] ELSE recent

\* A site that is not rewritten calls the engine's function.
Unguarded(s, k, site) ==
    /\ site \notin guardedSites
    /\ last' = [slot |-> s, by |-> inSlot[s], kind |-> k, guarded |-> FALSE, did |-> "ran"]
    /\ UNCHANGED <<remoteFlag, flagsFixed, quotas, inSlot, recent>>

\* Too many: the count starts again, whether or not the client can be disconnected.
Disconnects(s, k, site) ==
    /\ site \in guardedSites /\ CountsCommands /\ Counted(s).count > quota
    /\ quotas' = [quotas EXCEPT ![s] = [Counted(s) EXCEPT !.count = 0]]
    /\ IF "disconnect" \in located
       THEN inSlot' = [inSlot EXCEPT ![s] = "nobody"] /\ Handled(s, k, "kicked")
       ELSE UNCHANGED inSlot /\ Handled(s, k, "dropped")
    /\ UNCHANGED <<remoteFlag, flagsFixed>>

Guarded(s, k, site) ==
    /\ site \in guardedSites /\ (CountsCommands => Counted(s).count <= quota)
    /\ quotas' = IF CountsCommands THEN [quotas EXCEPT ![s] = Counted(s)] ELSE quotas
    /\ flagsFixed' = (flagsFixed \/ remoteRuleOn)
    /\ remoteFlag' = IF remoteRuleOn /\ ~flagsFixed THEN FixedFlags ELSE remoteFlag
    /\ Handled(s, k, IF RefusesCommand(s, k) THEN "refused"
                     ELSE IF ~cheats /\ k = "legacy" THEN "blocked" ELSE "ran")
    /\ UNCHANGED inSlot

StringCommand(s, k, site) ==
    /\ guardedSites # {"installing"} /\ inSlot[s] # "nobody"
    /\ Unguarded(s, k, site) \/ Disconnects(s, k, site) \/ Guarded(s, k, site)
    /\ UNCHANGED <<located, remoteRuleOn, guardedSites, quota, cheats, time>>

-----------------------------------------------------------------------------
(* Around it *)

JoinOrLeave(s) ==
    /\ inSlot' \in {[inSlot EXCEPT ![s] = IF inSlot[s] = "nobody" THEN p ELSE "nobody"] : p \in CommandPlayers}
    /\ UNCHANGED <<located, remoteFlag, flagsFixed, remoteRuleOn, guardedSites, quota, cheats, quotas, time, recent,
                   last>>

CommandTick ==
    /\ time < MaxCommandTime
    /\ time' = time + 1
    /\ UNCHANGED <<located, remoteFlag, flagsFixed, remoteRuleOn, guardedSites, quota, cheats, quotas, inSlot, recent,
                   last>>

StringCommandsNext ==
    \/ InstallStringCommandGuard \/ CommandTick
    \/ \E s \in CommandSlots : \/ JoinOrLeave(s)
                               \/ \E k \in CommandKinds, site \in CallSites : StringCommand(s, k, site)

StringCommandsSpec == StringCommandsInit /\ [][StringCommandsNext]_stringCommandsVars

-----------------------------------------------------------------------------
QuotaStates == [start : 0..MaxCommandTime, count : Nat]
Commands == [at : 0..MaxCommandTime, window : 0..MaxCommandTime, n : Nat, did : Outcomes]

StringCommandsTypeOK ==
    /\ located \subseteq {"slots", "disconnect"} /\ remoteFlag \subseteq ConCommands
    /\ flagsFixed \in BOOLEAN /\ remoteRuleOn \in BOOLEAN
    /\ guardedSites \in (SUBSET CallSites) \cup {{"installing"}}
    /\ quota \in CommandQuotas /\ cheats \in BOOLEAN /\ time \in QuotaSecond..MaxCommandTime
    /\ quotas \in [CommandSlots -> QuotaStates]
    /\ inSlot \in [CommandSlots -> CommandPlayers \cup {"nobody"}]
    /\ recent \in [CommandSlots -> SUBSET Commands]

\* Where clients can be told apart and disconnected, no second of a client sees
\* more than two windows' worth of its commands run; where they can not be
\* disconnected, the count starts again at every command dropped.
QuotaHolds ==
    CountsCommands /\ "disconnect" \in located =>
        \A s \in CommandSlots : Cardinality({c \in recent[s] : c.did = "ran"}) <= 2 * quota

\* A client is disconnected, or its command dropped, only when more than the quota
\* came from its slot within the second, none of them from before the last time.
KickedForCause ==
    \A s \in CommandSlots :
        (\E c \in recent[s] : c.did \in TooMany) => CountsCommands /\ Cardinality(recent[s]) > quota

\* With the rule on, a remote client runs no command the lists leave unmarked,
\* and the host's own client is refused none.
RemoteRunsOnlyMarked ==
    remoteRuleOn /\ last.guarded =>
        /\ last.did = "ran" => \/ HostsOwn(last.slot, last.by)
                               \/ last.kind \in {"engine", "cheat", "convar", "script"}
        /\ last.did = "refused" => ~HostsOwn(last.slot, last.by)

StringCommandsSound == QuotaHolds /\ KickedForCause /\ RemoteRunsOnlyMarked
=============================================================================
