----------------------------- MODULE ServerChat -----------------------------
(***************************************************************************)
(* A chat message from the player who says it to the line another player   *)
(* is shown: the hosted server's hook, the script's two ways of sending    *)
(* (runtime_chat.inl, runtime_ui_api.inl) and the hook of a client that    *)
(* receives them (runtime_chat_client.inl).                                *)
(*                                                                         *)
(* A body is "words", or "blank" once ChatText!Clean has passed over it.   *)
(* The vanilla functions, the network and the scripts are external.        *)
(***************************************************************************)
EXTENDS Integers, Sequences, FiniteSets

CONSTANTS
    Senders,         \* player ids: player index + 1, or 0 for no player
    MessageTypes,    \* types a script gives NSBroadcastMessage
    ChatLimit,       \* sv_max_chat_messages_per_sec
    ChatSecond,      \* clock ticks in its second
    MaxChatTime,     \* bound: ticks
    MaxSaid          \* bound: messages sent by players and by the script

ASSUME ServerChatAssumption ==
    /\ Senders \subseteq 0..127 /\ MessageTypes \subseteq Int
    /\ ChatLimit \in Nat /\ ChatSecond \in Nat \ {0} /\ MaxSaid \in Nat
    /\ MaxChatTime \in Nat /\ ChatSecond <= MaxChatTime

kCustomMessageIndexBit == 128
Bodies == {"words", "blank"}
NoType == 256                          \* what no byte holds

VARIABLES
    serverHook,      \* "none", "installed" or "refused" (g_serverChatHooked)
    broadcastReady,  \* g_serverBroadcastReady
    clientHook,      \* the client's jump is written
    serverScript,    \* the SERVER VM and its function are there
    clientScript,    \* the CLIENT VM and its function are there
    present,            \* connected players
    windows,         \* g_chatLimitWindows
    now,             \* sceKernelGetProcessTime
    passed,          \* history: each sender's messages that went on, the last
                     \* second's: when, in which window, as its how manieth
    withScript,      \* messages the server's script was given
    wire,            \* messages to the client, oldest first
    outcome,         \* the last thing that happened to a message
    said             \* messages sent

chatVars == <<serverHook, broadcastReady, clientHook, serverScript, clientScript, present, windows,
              now, passed, withScript, wire, outcome, said>>
hooks == <<serverHook, broadcastReady, clientHook>>
around == <<serverScript, clientScript, present, now>>

ChatInit ==
    /\ serverHook = "none" /\ broadcastReady = FALSE /\ clientHook = FALSE
    /\ serverScript = FALSE /\ clientScript = FALSE /\ present = Senders \ {0}
    /\ windows = [s \in Senders |-> [start |-> 0, count |-> 0]]
    /\ now = ChatSecond /\ passed = [s \in Senders |-> {}]
    /\ withScript = {} /\ wire = <<>> /\ outcome = [is |-> "nothing"] /\ said = 0

\* InstallServerChat, with each map until it has an answer; the broadcast's
\* profile is checked once the hook is in.
InstallServerChat ==
    /\ serverHook = "none"
    /\ \/ serverHook' = "refused" /\ UNCHANGED broadcastReady
       \/ serverHook' = "installed" /\ broadcastReady' \in BOOLEAN
    /\ UNCHANGED <<clientHook, windows, passed, withScript, wire, outcome, said, around>>

InstallClientChat ==
    /\ ~clientHook /\ clientHook' = TRUE
    /\ UNCHANGED <<serverHook, broadcastReady, windows, passed, withScript, wire, outcome, said, around>>

-----------------------------------------------------------------------------
(* The vanilla send: to the client, from a connected player *)

Message(inbox, type, body, team, meant) ==
    [inbox |-> inbox, type |-> type, body |-> body, team |-> team, meant |-> meant]

SayText(id, body, team) ==
    IF id \in present
    THEN Append(wire, Message(id, NoType, body, team, [from |-> id, type |-> 0, team |-> team]))
    ELSE wire

-----------------------------------------------------------------------------
(* RuntimeServerSayText *)

Window(s) == IF now - windows[s].start >= ChatSecond THEN [start |-> now, count |-> 0] ELSE windows[s]
Unlimited(s) == s = 0
\* A plausible bug: the limit is taken for the last message that is too many.
WithinLimitAndOne(s) == Unlimited(s) \/ Window(s).count <= ChatLimit
WithinLimit(s) == Unlimited(s) \/ Window(s).count < ChatLimit
Counts(s, body) == body # "blank"

CheckChatLimits(s, body) ==
    windows' = IF Unlimited(s) \/ ~Counts(s, body) THEN windows
               ELSE [windows EXCEPT ![s] = [Window(s) EXCEPT !.count = IF WithinLimit(s) THEN @ + 1 ELSE @]]

PassedLately(s) == {c \in passed[s] : c.at > now - ChatSecond}
PassedNow(s) == [at |-> now, window |-> Window(s).start, n |-> Window(s).count + 1]
GoesOn(s) == passed' = [passed EXCEPT ![s] = PassedLately(s) \cup {PassedNow(s)}]

DropBlank(s, body, team) ==
    /\ serverHook = "installed" /\ body = "blank"
    /\ CheckChatLimits(s, body) /\ outcome' = [is |-> "blank"]
    /\ UNCHANGED <<passed, withScript, wire>>

DropOverLimit(s, body, team) ==
    /\ serverHook = "installed" /\ body # "blank" /\ ~WithinLimit(s)
    /\ CheckChatLimits(s, body) /\ outcome' = [is |-> "limited", from |-> s, lately |-> Cardinality(PassedLately(s))]
    /\ UNCHANGED <<passed, withScript, wire>>

\* CallServerChatScript: the script's thread has the message from here on.
ToScript(s, body, team) ==
    /\ serverHook = "installed" /\ body # "blank" /\ WithinLimit(s) /\ serverScript
    /\ CheckChatLimits(s, body) /\ GoesOn(s)
    /\ withScript' = withScript \cup {[index |-> s - 1, team |-> team]}
    /\ outcome' = [is |-> "with script"] /\ UNCHANGED wire

\* Without the script, or when its call fails.
ToVanilla(s, body, team) ==
    /\ serverHook = "installed" /\ body # "blank" /\ WithinLimit(s)
    /\ CheckChatLimits(s, body) /\ GoesOn(s)
    /\ wire' = SayText(s, body, team)
    /\ outcome' = [is |-> "sent"] /\ UNCHANGED withScript

Unhooked(s, body, team) ==
    /\ serverHook # "installed"
    /\ wire' = SayText(s, body, team)
    /\ outcome' = [is |-> "sent"] /\ UNCHANGED <<windows, passed, withScript>>

RuntimeServerSayText(s, body, team) ==
    /\ s \in present /\ said < MaxSaid /\ said' = said + 1
    /\ \/ DropBlank(s, body, team) \/ DropOverLimit(s, body, team)
       \/ ToScript(s, body, team) \/ ToVanilla(s, body, team) \/ Unhooked(s, body, team)
    /\ UNCHANGED <<hooks, around>>

\* NSSendMessage: the script passes a message on, past the hook.
ServerChatSend(m) ==
    /\ m \in withScript /\ serverScript /\ serverHook = "installed"
    /\ wire' = SayText((m.index + 1) % kCustomMessageIndexBit, "words", m.team)
    /\ withScript' = withScript \ {m} /\ outcome' = [is |-> "sent"]
    /\ UNCHANGED <<windows, passed, said, hooks, around>>

\* NSBroadcastMessage: to one player or to all, from a player or from nobody
\* (index -1); one byte holds the type.
Byte(type) == LET low == type % 256 IN IF low > 127 THEN low - 256 ELSE low
FromPlayerId(index) == IF index < 0 THEN 0 ELSE index + 1 + kCustomMessageIndexBit

BroadcastRefused(type) == type < 1

ServerChatBroadcast(index, type, body, team, toUs) ==
    /\ serverScript /\ said < MaxSaid /\ said' = said + 1
    /\ \/ /\ broadcastReady /\ ~BroadcastRefused(type) /\ toUs
          /\ wire' = Append(wire, Message(FromPlayerId(index), Byte(type), body, team,
                                          [from |-> index + 1, type |-> Byte(type), team |-> team]))
          /\ outcome' = [is |-> "sent"]
       \* A refused type, a profile that does not match, another player's
       \* message, one nobody is there for, or no room in the buffer.
       \/ wire' = wire /\ outcome' = [is |-> "not sent"]
    /\ UNCHANGED <<windows, passed, withScript, hooks, around>>

-----------------------------------------------------------------------------
(* ClientChatReceived, and the vanilla loop it may leave a message to *)

SenderId(m) == m.inbox % kCustomMessageIndexBit
IsCustom(m) == SenderId(m) = 0 \/ m.inbox >= kCustomMessageIndexBit
TypeOf(m) == IF IsCustom(m) THEN m.type ELSE 0

\* A type whose byte is zero ends the text before it begins.
IsEmpty(m) == m.type = 0
Line(by, m) == [is |-> "line", by |-> by, from |-> SenderId(m), type |-> TypeOf(m), team |-> m.team, meant |-> m.meant]

Dealt(m) == clientHook /\ (IsEmpty(m) \/ m.body = "blank")

ClientChatReceived ==
    /\ wire # <<>> /\ wire' = Tail(wire)
    /\ LET m == Head(wire)
       IN  \/ Dealt(m) /\ outcome' = [is |-> "not shown"]
           \/ clientHook /\ ~Dealt(m) /\ clientScript /\ outcome' = Line("script", m)
           \* The vanilla loop takes what the script does not; it rejects the
           \* custom bit.
           \/ /\ ~Dealt(m) /\ m.inbox < kCustomMessageIndexBit /\ m.inbox # 0
              /\ outcome' = Line("vanilla", m)
           \/ ~Dealt(m) /\ (m.inbox >= kCustomMessageIndexBit \/ m.inbox = 0)
              /\ ~(clientHook /\ clientScript) /\ outcome' = [is |-> "not shown"]
    /\ UNCHANGED <<windows, passed, withScript, said, hooks, around>>

-----------------------------------------------------------------------------
ChatTick ==
    /\ now < MaxChatTime /\ now' = now + 1
    /\ UNCHANGED <<hooks, serverScript, clientScript, present, windows, passed, withScript, wire, outcome, said>>

ChatVms ==
    /\ \/ serverScript' = ~serverScript /\ withScript' = {} /\ UNCHANGED clientScript
       \/ clientScript' = ~clientScript /\ UNCHANGED <<serverScript, withScript>>
    /\ UNCHANGED <<hooks, present, now, windows, passed, wire, outcome, said>>

PlayerLeaves(s) ==
    /\ s \in present /\ present' = present \ {s}
    /\ UNCHANGED <<hooks, serverScript, clientScript, now, windows, passed, withScript, wire, outcome, said>>

ChatNext ==
    \/ InstallServerChat \/ InstallClientChat \/ ChatTick \/ ChatVms \/ ClientChatReceived
    \/ \E s \in Senders \ {0} : PlayerLeaves(s)
    \/ \E s \in Senders, body \in Bodies, team \in BOOLEAN : RuntimeServerSayText(s, body, team)
    \/ \E m \in withScript : ServerChatSend(m)
    \/ \E s \in Senders, type \in MessageTypes, body \in Bodies, team, toUs \in BOOLEAN :
           ServerChatBroadcast(s - 1, type, body, team, toUs)

ChatSpec == ChatInit /\ [][ChatNext]_chatVars

-----------------------------------------------------------------------------
ChatWindows == [start : 0..MaxChatTime, count : 0..ChatLimit]
PassedMessages == [at : 0..MaxChatTime, window : 0..MaxChatTime, n : Nat]
ScriptMessages == [index : 0..126, team : BOOLEAN]
Intents == [from : 0..127, type : -128..127, team : BOOLEAN]
WireMessages == [inbox : 0..255, type : (-128..127) \cup {NoType}, body : Bodies, team : BOOLEAN, meant : Intents]

ChatTypeOK ==
    /\ serverHook \in {"none", "installed", "refused"} /\ broadcastReady \in BOOLEAN /\ clientHook \in BOOLEAN
    /\ serverScript \in BOOLEAN /\ clientScript \in BOOLEAN /\ present \subseteq Senders \ {0}
    /\ windows \in [Senders -> ChatWindows] /\ now \in ChatSecond..MaxChatTime
    /\ passed \in [Senders -> SUBSET PassedMessages]
    /\ withScript \subseteq ScriptMessages /\ wire \in Seq(WireMessages) /\ said \in 0..MaxSaid

\* No second sees more than two windows' worth of a player's messages go on.
LimitHolds == \A s \in Senders \ {0} : Cardinality(passed[s]) <= 2 * ChatLimit

\* A message is dropped as too many only when the limit's worth of the
\* player's messages went on within the second: blank ones do not count.
LimitedForCause == outcome.is = "limited" => outcome.lately >= ChatLimit

\* A line is shown as it was meant: by the sender, of the type and for the team
\* it was sent with, by a player or by the server's script.
ShownAsMeant ==
    outcome.is = "line" =>
        outcome.meant = [from |-> outcome.from, type |-> outcome.type, team |-> outcome.team]

\* What the script broadcasts is left out by the vanilla loop, whatever it is.
CustomOnlyByScript == outcome.is = "line" /\ outcome.meant.type # 0 => outcome.by = "script"

ChatSound == LimitHolds /\ LimitedForCause /\ ShownAsMeant /\ CustomOnlyByScript
=============================================================================
