----------------------------- MODULE NetMessages -----------------------------
(***************************************************************************)
(* The launcher's checks of the engine's network messages                  *)
(* (runtime_netmessage_fixes.inl): the installation of the handlers in the *)
(* messages' tables while the engine uses them, what each handler lets     *)
(* through to the engine's own, and what the engine then does.             *)
(*                                                                         *)
(* A message is its kind with what the handler looks at; a name is the     *)
(* engine's own spelling with the case it was written in.                  *)
(***************************************************************************)
EXTENDS Integers, Sequences, FiniteSets, SequencesExt

CONSTANTS
    Vars,              \* the engine's convars: the spelling of each
    Replicated,        \* those a server may set on a client
    MaxEntries,        \* kSetConVarServerLimit
    MaxMarkers,        \* kMaxExecutionMarkers
    EntityLimit,       \* kMaxEntityIndex
    MaxUserCmds,       \* the commands of one message the game has room for
    Clients,           \* the client array
    NetMessageInputs,  \* the messages that arrive
    MaxNetMessages     \* bound on them

ASSUME NetMessagesAssumption ==
    /\ Replicated \subseteq Vars /\ {MaxEntries, MaxMarkers, EntityLimit, MaxUserCmds} \subseteq Nat \ {0}
    /\ MaxMarkers > 2
\* A convar has a name; a SetConVar message is a list of settings.
ASSUME NetMessageInputsAssumption ==
    /\ "" \notin Vars
    /\ \A m \in NetMessageInputs :
          /\ m.kind \in {"screenshot", "setConVar", "move", "stringCmd"}
          /\ m.kind = "setConVar" =>
                m \in [kind : {"setConVar"}, server : BOOLEAN,
                       entries : Seq([name : STRING, spelling : STRING, ends : BOOLEAN])]

\* The hooks in the order they are written; the first has no function to keep.
Hooks == <<"screenshot", "setConVar", "move", "stringCmd">>
Checking == 0
RefusedTables == -1
KeepsOriginal == {"setConVar", "move", "stringCmd"}

VARIABLES
    hookInstall,      \* how far InstallNetMessageFixes is: Checking, a place in Hooks, past it, or refused
    kept,         \* the hooks whose engine function is kept
    hooked,       \* the tables' slots that hold a hook
    layout,       \* g_convarLayoutChecked
    markers,      \* the engine's execution markers
    value,        \* the client's convars: whether a server has set each, by how many
    stored,       \* the count of settings the server stored on a player at a time
    handed,       \* the last thing a handler handed on, or Nothing
    pending,      \* g_pending: the clients that overflowed the baselines
    frame,        \* where the host frame is, the clients it failed to write for so far
    here,         \* the clients whose slots are in use
    seated,       \* those of them a disconnection takes: connected, and no bots
    disconnects,  \* g_disconnectClient is set and g_clientDisconnect found
    messages      \* the number of messages so far

netMessageVars == <<hookInstall, kept, hooked, layout, markers, value, stored, handed, pending, frame, here,
                   seated, disconnects, messages>>
installVars == <<hookInstall, kept, hooked, layout>>
frameVars == <<pending, frame, here, seated, disconnects>>

NothingHanded == [kind |-> "none"]

NetMessagesInit ==
    /\ hookInstall = Checking /\ kept = {} /\ hooked = {} /\ layout = FALSE
    /\ markers = 0 /\ value = [v \in Vars |-> FALSE] /\ stored = 0 /\ handed = NothingHanded
    /\ pending = {} /\ frame = [at |-> "packets", failed |-> {}] /\ here = Clients
    /\ seated = Clients /\ disconnects = FALSE /\ messages = 0

-----------------------------------------------------------------------------
(* InstallNetMessageFixes, on the module watcher *)

\* Every name and slot is checked before the first one is written.
CheckTables ==
    /\ hookInstall = Checking
    /\ layout' \in BOOLEAN
    /\ hookInstall' \in {1, RefusedTables}
    /\ UNCHANGED <<kept, hooked, markers, value, stored, handed, frameVars, messages>>

\* The engine's function is kept, then the slot is written, which the page's
\* protection may not allow.
KeepOriginal ==
    /\ hookInstall \in DOMAIN Hooks /\ Hooks[hookInstall] \in KeepsOriginal \ kept
    /\ kept' = kept \cup {Hooks[hookInstall]}
    /\ UNCHANGED <<hookInstall, hooked, layout, markers, value, stored, handed, frameVars, messages>>

MayWrite(h) == h \in kept \/ h \notin KeepsOriginal

WriteSlot ==
    /\ hookInstall \in DOMAIN Hooks /\ MayWrite(Hooks[hookInstall])
    /\ hooked' \in {hooked, hooked \cup {Hooks[hookInstall]}}
    /\ hookInstall' = hookInstall + 1
    /\ UNCHANGED <<kept, layout, markers, value, stored, handed, frameVars, messages>>

-----------------------------------------------------------------------------
(* The handlers *)

\* SetConVarProcess, entry by entry: the server passes it on as it is, the
\* client in the convar's own spelling, and empty when it may not be set.
Served(e) ==
    IF ~layout \/ e.name \notin Vars THEN e
    ELSE IF e.name \in Replicated THEN [e EXCEPT !.spelling = "own"]
    ELSE [e EXCEPT !.name = "", !.spelling = "own"]

SetConVarPasses(m) ==
    /\ m.server => Len(m.entries) \in 1..MaxEntries
    /\ \A i \in DOMAIN m.entries : m.entries[i].ends
SetConVarHands(m) ==
    [m EXCEPT !.entries = [i \in DOMAIN m.entries |-> IF m.server THEN m.entries[i] ELSE Served(m.entries[i])]]

\* MoveProcess
MovePasses(m) == m.backup >= 0 /\ m.new >= 0 /\ m.length > 0

\* ClientStringCmd: a command that leaves no room for its two markers is dropped.
LeavesRoom == markers + 2 < MaxMarkers

\* What the engine's own handlers do: a client sets what it knows by name, a
\* server stores the settings on the player, and a command is put between two
\* markers, of which the oldest goes when there are too many.
EngineHandles(m) ==
    /\ handed' = m
    /\ value' = IF m.kind = "setConVar" /\ ~m.server
                THEN [v \in Vars |-> value[v] \/ \E i \in DOMAIN m.entries : m.entries[i].name = v]
                ELSE value
    /\ stored' = IF m.kind = "setConVar" /\ m.server THEN Len(m.entries) ELSE stored
    /\ markers' = IF m.kind = "stringCmd" THEN markers + 2 ELSE markers

Blocked == handed' = NothingHanded /\ UNCHANGED <<value, stored, markers>>

Receive(m) ==
    /\ messages < MaxNetMessages /\ messages' = messages + 1
    /\ IF m.kind \notin hooked THEN EngineHandles(m)
       ELSE CASE m.kind = "screenshot" -> Blocked
              [] m.kind = "setConVar" -> IF SetConVarPasses(m) THEN EngineHandles(SetConVarHands(m)) ELSE Blocked
              [] m.kind = "move" -> IF MovePasses(m) THEN EngineHandles(m) ELSE Blocked
              [] m.kind = "stringCmd" -> IF LeavesRoom THEN EngineHandles(m) ELSE Blocked
    /\ UNCHANGED <<installVars, frameVars>>

\* The engine runs its command buffer, and its markers are used up.
RunCommands ==
    /\ markers > 0 /\ markers' = 0
    /\ UNCHANGED <<installVars, value, stored, handed, frameVars, messages>>

-----------------------------------------------------------------------------
(* The game's server: the commands of a player, and the script's entities *)

\* SanitizeUserCmd: vectors that are no numbers are zeroed, and a command of
\* impossible timing loses all that affects play.
Sanitized(c) ==
    LET v == IF c.vectors = "unreal" THEN "zero" ELSE c.vectors
    IN  IF c.timing = "good" THEN [c EXCEPT !.vectors = v]
        ELSE [c EXCEPT !.vectors = "zero", !.buttons = "none"]

\* ProcessUsercmdsGuard checks `total` commands, as far as the array reaches.
Checked(total) == 1..(IF total < 0 THEN 0 ELSE IF total > MaxUserCmds THEN MaxUserCmds ELSE total)

ProcessUsercmds(cmds, total) ==
    /\ messages < MaxNetMessages /\ messages' = messages + 1
    /\ handed' = [kind |-> "usercmds", total |-> total,
                  cmds |-> [i \in DOMAIN cmds |-> IF i \in Checked(total) THEN Sanitized(cmds[i]) ELSE cmds[i]]]
    /\ UNCHANGED <<installVars, markers, value, stored, frameVars>>

\* GetEntByIndexGuard: null from the limit on; the native refuses a negative one.
GetEntByIndex(n) ==
    /\ messages < MaxNetMessages /\ messages' = messages + 1
    /\ handed' = IF n >= EntityLimit \/ n < 0 THEN NothingHanded ELSE [kind |-> "entity", index |-> n]
    /\ UNCHANGED <<installVars, markers, value, stored, frameVars>>

-----------------------------------------------------------------------------
(* A host frame: packets, then each client's server info, then the launcher *)

\* A slot that is taken is a bot's, a connecting client's, or a client's.
LeaveOrJoin(c) ==
    /\ frame.at = "packets"
    /\ here' = IF c \in here THEN here \ {c} ELSE here \cup {c}
    /\ seated' \in IF c \in here THEN {seated \ {c}} ELSE {seated, seated \cup {c}}
    /\ UNCHANGED <<installVars, markers, value, stored, handed, pending, frame, disconnects, messages>>

\* The client array and CBaseClient::Disconnect are found, if they are.
LocateClients ==
    /\ ~disconnects /\ disconnects' = TRUE
    /\ UNCHANGED <<installVars, markers, value, stored, handed, pending, frame, here, seated, messages>>

BeginSending ==
    /\ frame.at = "packets" /\ frame' = [at |-> "sending", failed |-> {}]
    /\ UNCHANGED <<installVars, markers, value, stored, handed, pending, here, seated, disconnects, messages>>

\* baselinefix::Failed: the client's bit is set, and the frame goes on.
WriteBaselinesFails(c) ==
    /\ frame.at = "sending" /\ c \in here
    /\ frame' = [frame EXCEPT !.failed = @ \cup {c}]
    /\ pending' = pending \cup {c}
    /\ UNCHANGED <<installVars, markers, value, stored, handed, here, seated, disconnects, messages>>

\* DisconnectBaselineOverflows, after the frame: the bits are taken at once,
\* and whom DisconnectClient cannot take, or for want of it, stays.
Remaining(bits) == {}
Disconnected(bits) == IF disconnects THEN bits \cap seated ELSE {}

DisconnectBaselineOverflows ==
    /\ frame.at = "sending"
    /\ here' = here \ Disconnected(pending) /\ seated' = seated \ Disconnected(pending)
    /\ pending' = Remaining(pending)
    /\ frame' = [at |-> "packets", failed |-> {}]
    /\ UNCHANGED <<installVars, markers, value, stored, handed, disconnects, messages>>

UserCmds == [vectors : {"finite", "unreal"}, timing : {"good", "bogus"}, buttons : {"some"}]

NetMessagesNext ==
    \/ CheckTables \/ KeepOriginal \/ WriteSlot
    \/ \E m \in NetMessageInputs : Receive(m)
    \/ RunCommands
    \/ \E cmds \in [1..MaxUserCmds -> UserCmds], total \in -1..MaxUserCmds + 1 : ProcessUsercmds(cmds, total)
    \/ \E n \in -1..EntityLimit + 1 : GetEntByIndex(n)
    \/ \E c \in Clients : LeaveOrJoin(c) \/ WriteBaselinesFails(c)
    \/ LocateClients \/ BeginSending \/ DisconnectBaselineOverflows

NetMessagesSpec == NetMessagesInit /\ [][NetMessagesNext]_netMessageVars

-----------------------------------------------------------------------------
NetMessagesTypeOK ==
    /\ kept \subseteq KeepsOriginal /\ hooked \subseteq ToSet(Hooks)
    /\ layout \in BOOLEAN /\ markers \in Nat /\ value \in [Vars -> BOOLEAN]
    /\ pending \subseteq Clients /\ here \subseteq Clients /\ seated \subseteq here
    /\ disconnects \in BOOLEAN

\* A slot that holds a hook has the engine's function to go on to, while the
\* tables are being rewritten under the engine.
OriginalBeforeHook == hooked \cap KeepsOriginal \subseteq kept

\* Every command that is handed to the game is real, and none with impossible
\* timing presses anything, as far as the game reads the array.
CommandsAreSane ==
    handed.kind = "usercmds" =>
        \A i \in DOMAIN handed.cmds : i <= handed.total =>
            /\ handed.cmds[i].vectors # "unreal"
            /\ handed.cmds[i].timing = "bogus" => handed.cmds[i].vectors = "zero" /\ handed.cmds[i].buttons = "none"

EntityIsListed == handed.kind = "entity" => handed.index \in 0..EntityLimit - 1

\* Between frames no disconnection is left over for whoever takes the slot next.
NoneLeftOver == frame.at = "packets" => pending = {}

NetMessagesInvariant == OriginalBeforeHook /\ CommandsAreSane /\ EntityIsListed /\ NoneLeftOver

\* Once the handlers are in: a server sets on a client only what is replicated,
\* however it spells it; the engine never drops a marker; a player's settings
\* are within the limit; and no client leaves at the end of a frame but one
\* whose baselines failed in it, while none of those stays that a
\* disconnection takes, once it can be made.
HandlersHold ==
    [][/\ "setConVar" \in hooked /\ layout =>
             \A v \in Vars : value'[v] /\ ~value[v] => v \in Replicated
       /\ "stringCmd" \in hooked /\ markers' > markers => markers' < MaxMarkers
       /\ "setConVar" \in hooked /\ stored' # stored => stored' \in 1..MaxEntries
       /\ frame.at = "sending" /\ frame'.at = "packets" =>
             /\ here \ here' \subseteq frame.failed
             /\ disconnects => frame.failed \cap seated \cap here' = {}]_netMessageVars

=============================================================================
