------------------------------ MODULE MCEngine ------------------------------
(***************************************************************************)
(* The parts of the runtime that stand between the engine and the console, *)
(* side by side: they share no state, so in a behaviour one of them runs   *)
(* and the others stay where they start.  MCEngine gives their inputs.     *)
(***************************************************************************)
EXTENDS HeapArena, ThreadStacks, Lzss, HttpTransport, Datagrams, NetMessages,
        StringCommands, ServerChat, ChatText, ChatKeyboard

VARIABLE part        \* the component that runs

engineVars == <<part, heapVars, stackVars, lzssVars, httpVars, datagramVars, netMessageVars,
                stringCommandsVars, chatVars, chatTextVars, keyboardVars>>

Parts == {"heap", "stacks", "lzss", "http", "datagrams", "messages", "commands", "chat", "text", "keyboard"}

\* Of a component that stays, one initial state is enough.
EngineInit ==
    /\ part \in Parts
    /\ HeapInit /\ StacksInit /\ HttpInit /\ DatagramsInit /\ NetMessagesInit /\ ChatInit
    /\ IF part = "lzss" THEN LzssInit ELSE /\ actualSize = 1 /\ bufferSize = 1 /\ LzssInit
    /\ IF part = "commands" THEN StringCommandsInit ELSE /\ quota = -1 /\ cheats = FALSE /\ located = {}
                                                    /\ StringCommandsInit
    /\ IF part = "text" THEN ChatTextInit ELSE given = <<>> /\ ChatTextInit
    /\ IF part = "keyboard" THEN KeyboardInit
       ELSE /\ clientVm = FALSE /\ inMatch = FALSE /\ option = [o \in EditedOptions |-> <<"a">>]
            /\ KeyboardInit

EngineNext ==
    /\ UNCHANGED part
    /\ IF part = "heap" THEN HeapNext ELSE UNCHANGED heapVars
    /\ IF part = "stacks" THEN StacksNext ELSE UNCHANGED stackVars
    /\ IF part = "lzss" THEN SafeUncompress ELSE UNCHANGED lzssVars
    /\ IF part = "http" THEN HttpNext ELSE UNCHANGED httpVars
    /\ IF part = "datagrams" THEN DatagramsNext ELSE UNCHANGED datagramVars
    /\ IF part = "messages" THEN NetMessagesNext ELSE UNCHANGED netMessageVars
    /\ IF part = "commands" THEN StringCommandsNext ELSE UNCHANGED stringCommandsVars
    /\ IF part = "chat" THEN ChatNext ELSE UNCHANGED chatVars
    /\ IF part = "text" THEN ChatTextNext ELSE UNCHANGED chatTextVars
    /\ IF part = "keyboard" THEN KeyboardNext ELSE UNCHANGED keyboardVars

EngineSpec == EngineInit /\ [][EngineNext]_engineVars

\* The run's bounds on what comes together: a second message comes while no
\* client is in its slot, and at most two chat messages are on the wire.
FewMessages == messages' <= 1 \/ here' = {}
FewOnTheWire == Len(wire') <= 2

EngineRun == EngineInit /\ [][EngineNext /\ FewMessages /\ FewOnTheWire]_engineVars

-----------------------------------------------------------------------------
(* Properties are asked of the component that runs. *)
EngineTypeOK ==
    /\ part = "heap" => HeapTypeOK
    /\ part = "stacks" => StacksTypeOK
    /\ part = "lzss" => LzssTypeOK
    /\ part = "http" => HttpTypeOK
    /\ part = "datagrams" => DatagramsTypeOK
    /\ part = "messages" => NetMessagesTypeOK
    /\ part = "commands" => StringCommandsTypeOK
    /\ part = "chat" => ChatTypeOK
    /\ part = "text" => ChatTextTypeOK
    /\ part = "keyboard" => KeyboardTypeOK

\* Memory is one holder's: the pages of the arena, the stacks of threads, and
\* the buffer a payload is decompressed into (HeapArena, ThreadStacks, Lzss).
MemorySound ==
    /\ [](part = "heap" => ArenaInvariant) /\ SystemOnlyWhenFull
    /\ [](part = "stacks" => SlotsAreAccounted)
    /\ [](part = "lzss" => LzssSound)

\* What the callers of HttpGet, HttpPost and HttpStream rely on (HttpTransport).
RequestsAreWhole == part = "http" => HttpInvariant

\* What comes from the network reaches the engine only as it can take it
\* (Datagrams, NetMessages).
NetworkSound ==
    /\ [](part = "datagrams" => DatagramsSound)
    /\ [](part = "messages" => NetMessagesInvariant) /\ HandlersHold

\* Clients' commands: their quota, and what they may run (StringCommands).
CommandsSound == part = "commands" => StringCommandsSound

\* Chat, from the keyboard over the server's script to the panels
\* (ChatKeyboard, ServerChat, ChatText).
ChatIsSound ==
    /\ [](part = "keyboard" => KeyboardInvariant) /\ [][TextToItsAsker]_keyboardVars
    /\ [](part = "chat" => ChatSound)
    /\ [](part = "text" => ChatTextSound)

-----------------------------------------------------------------------------
(* Inputs *)

MCQuotas == {0, 1, -1}
MCHuds == <<1, 0>>

\* Short texts of every kind of character, and the colours and cuts that take
\* more of them.
Symbols == {"a", "newline", "control", "esc", "[", "31", "0", "m", "lead2", "cont", "surrogate"}
MCTexts ==
    UNION {[1..n -> Symbols] : n \in 0..3}
    \cup {<<"esc", "[", "38", "sep", "2", "sep", "5", "sep", "0", "sep", "31", "m", "a">>,
          <<"esc", "[", "38", "sep", "2", "sep", "5", "sep", "255", "sep", "31", "m", "a">>,
          <<"esc", "[", "38", "sep", "2", "sep", "5", "sep", "255", "sep", "31", "sep", "0", "m">>,
          <<"esc", "[", "38", "sep", "5", "sep", "31", "m", "a">>,
          <<"esc", "[", "38", "sep", "38", "sep", "31", "m", "a">>,
          <<"a", "esc", "[", "111", "sep", "38", "[">>,
          <<"a", "a", "a", "lead2", "cont", "esc", "[", "31", "m", "a">>,
          <<"lead5", "cont", "cont", "cont", "cont">>, <<"lead5", "cont", "cont", "cont", "a">>}

\* Messages of every kind, with settings the client has in its own spelling or
\* another, too many of them, or none that ends.
Ending == [name : {"sv", "cl"}, spelling : {"own", "other"}, ends : {TRUE}]
Other == [name : {"sv"}, spelling : {"other"}, ends : {TRUE}]
Endless == [name : {"sv"}, spelling : {"own"}, ends : {FALSE}]
MCMessages ==
    [kind : {"setConVar"}, server : BOOLEAN,
     entries : {<<>>} \cup {<<e>> : e \in Ending \cup Endless} \cup {<<e, f>> : e \in Other, f \in Endless}
               \cup {<<e, e, e>> : e \in [name : {"sv"}, spelling : {"own"}, ends : {TRUE}]}]
    \cup [kind : {"move"}, backup : {-1, 0}, new : {1}, length : {0, 1}]
    \cup [kind : {"move"}, backup : {0}, new : {-1}, length : {1}]
    \cup [kind : {"stringCmd", "screenshot"}]

=============================================================================
