---------------------------- MODULE ChatKeyboard ----------------------------
(***************************************************************************)
(* The system's on-screen keyboard, used for chat and for the Host Options *)
(* menu's texts (runtime_chat_ui.inl), with the menu scripts whose threads *)
(* open it and wait for it (ps4_chat_menu.nut, ps4_host_options_menu.nut). *)
(*                                                                         *)
(* A UTF-8 text is a sequence of characters: "a", "space", "pair" (one     *)
(* that takes two UTF-16 units), what a broken pair becomes, and the       *)
(* replacement character; the keyboard's text is a sequence of units.      *)
(***************************************************************************)
EXTENDS Integers, Sequences, SequencesExt

CONSTANTS
    EditedOptions,   \* options the menu edits: ConVars
    TextLimit,       \* the longest text the menu asks for, in units
    MaxKeyboards     \* bound: keyboards opened

ChatKeyboardAssumption ==
    /\ TextLimit \in Nat \ {0}
    /\ EditedOptions \cap {"chat", "nobody"} = {}
ASSUME ChatKeyboardAssumption

Secret == "ns_server_password"  Required == "ns_server_name"
TypedTexts(limit) == {t \in BoundedSeq({"a", "space", "high", "low"}, limit) :
                     \A i \in DOMAIN t : /\ t[i] = "high" <=> i < Len(t) /\ t[i + 1] = "low"
                                         /\ t[i] = "low" => i > 1 /\ t[i - 1] = "high"}

VARIABLES
    dialog,        \* the system's keyboard: [is, asker, text]; is "none", "running",
                   \* "finished" or "cancelled"
    chatOpen,      \* g_chatKeyboardOpen
    chatTeam,      \* g_chatKeyboardTeam
    inputOpen,     \* g_textInputOpen
    inputResult,   \* g_textInputResult
    waiting,       \* menus' threads that wait for the keyboard
    option,        \* the edited ConVars
    clientVm,      \* the CLIENT VM and NS_PreSendMessage are there
    inMatch,       \* the local client's state is there
    sentText,          \* messages that went out: [text, team, by]
    opened         \* keyboards opened

keyboardVars == <<dialog, chatOpen, chatTeam, inputOpen, inputResult, waiting, option, clientVm, inMatch, sentText, opened>>
textInput == <<inputOpen, inputResult, option>>
chatInput == <<chatOpen, chatTeam, sentText>>

NoDialog == [is |-> "none", asker |-> "nobody", text |-> <<>>]

KeyboardInit ==
    /\ dialog = NoDialog /\ chatOpen = FALSE /\ chatTeam = FALSE /\ inputOpen = FALSE
    /\ inputResult = <<>> /\ waiting = {} /\ clientVm \in BOOLEAN /\ inMatch \in BOOLEAN
    /\ option \in [EditedOptions -> {<<"a">>, <<"pair">>, <<"a", "pair">>}]
    /\ sentText = {} /\ opened = 0

-----------------------------------------------------------------------------
(* Conversions *)

Utf16Units(c) ==
    CASE c = "pair" -> <<"high", "low">>
      [] c = "broken" -> <<"rep", "rep", "rep">>
      [] OTHER -> <<c>>
Utf16Of(text) == FlattenSeq([i \in DOMAIN text |-> Utf16Units(text[i])])

PairAt(t, i) == i \in 1..Len(t) - 1 /\ t[i] = "high" /\ t[i + 1] = "low"
Utf8At(t, i) ==
    CASE PairAt(t, i) -> <<"pair">>
      [] PairAt(t, i - 1) -> <<>>
      [] OTHER -> IF t[i] \in {"high", "low"} THEN <<"broken">> ELSE <<t[i]>>
Utf16ToUtf8(t) == FlattenSeq([i \in DOMAIN t |-> Utf8At(t, i)])

Blank(text) == \A i \in DOMAIN text : text[i] = "space"
strip(text) ==
    LET ink == {i \in DOMAIN text : text[i] # "space"}
    IN  IF ink = {} THEN <<>>
        ELSE SubSeq(text, CHOOSE i \in ink : \A j \in ink : i <= j, CHOOSE i \in ink : \A j \in ink : i >= j)

-----------------------------------------------------------------------------
(* Opening it, for chat or for an option; the system may refuse *)

\* A plausible bug: only its own keyboard is looked at.
OnlyItsOwn == chatOpen
IsOpen == chatOpen \/ inputOpen

OpenChatKeyboard(team) ==
    /\ opened < MaxKeyboards /\ ~IsOpen
    /\ chatTeam' = team
    /\ \/ /\ dialog' = [is |-> "running", asker |-> "chat", text |-> <<>>]
          /\ chatOpen' = TRUE /\ waiting' = waiting \cup {"chat"} /\ opened' = opened + 1
       \/ chatOpen' = FALSE /\ UNCHANGED <<dialog, waiting, opened>>
    /\ UNCHANGED <<textInput, clientVm, inMatch, sentText>>

\* PS4HostOptions_Edit: the text starts as the option, or empty when secret.
InitialText(o) ==
    LET units == IF o = Secret THEN <<>> ELSE Utf16Of(option[o])
    IN  SubSeq(units, 1, IF Len(units) < TextLimit THEN Len(units) ELSE TextLimit)
OpenTextInput(o) ==
    /\ opened < MaxKeyboards /\ ~IsOpen
    /\ \/ /\ dialog' = [is |-> "running", asker |-> o, text |-> InitialText(o)]
          /\ inputOpen' = TRUE /\ waiting' = waiting \cup {o} /\ opened' = opened + 1
       \/ inputOpen' = FALSE /\ UNCHANGED <<dialog, waiting, opened>>
    /\ UNCHANGED <<chatInput, inputResult, option, clientVm, inMatch>>

-----------------------------------------------------------------------------
(* The waiting threads' turns, once the keyboard no longer runs *)

SendChat == inMatch                    \* without the script, the engine's own send
NS_PreSendMessage(text) ==
    sentText' = IF clientVm \/ SendChat
            THEN sentText \cup {[text |-> text, team |-> chatTeam, by |-> IF clientVm THEN "script" ELSE "engine"]}
            ELSE sentText

Typed == IF dialog.is = "finished" THEN Utf16ToUtf8(dialog.text) ELSE <<>>

UpdateChatKeyboard ==
    /\ "chat" \in waiting /\ (chatOpen => dialog.is # "running")
    /\ waiting' = waiting \ {"chat"} /\ chatOpen' = FALSE
    /\ IF chatOpen
       THEN /\ dialog' = NoDialog
            /\ IF Blank(Typed) THEN UNCHANGED sentText ELSE NS_PreSendMessage(Typed)
       ELSE UNCHANGED <<dialog, sentText>>
    /\ UNCHANGED <<chatTeam, textInput, clientVm, inMatch, opened>>

\* The thread reads the text and sets the option in the same turn.
Sets(o, text) == text # <<>> \/ o # Required

UpdateTextInput(o) ==
    /\ o \in waiting /\ (inputOpen => dialog.is # "running")
    /\ waiting' = waiting \ {o} /\ inputOpen' = FALSE
    /\ IF inputOpen
       THEN /\ dialog' = NoDialog /\ inputResult' = Typed
            /\ option' = IF dialog.is = "finished" /\ Sets(o, strip(Typed))
                         THEN [option EXCEPT ![o] = strip(Typed)] ELSE option
       ELSE UNCHANGED <<dialog, inputResult, option>>
    /\ UNCHANGED <<chatInput, clientVm, inMatch, opened>>

-----------------------------------------------------------------------------
(* The player, and what happens around the keyboard *)

Type ==
    /\ dialog.is = "running"
    /\ \/ \E t \in TypedTexts(TextLimit) : dialog' = [dialog EXCEPT !.is = "finished", !.text = t]
       \/ \E is \in {"finished", "cancelled"} : dialog' = [dialog EXCEPT !.is = is]
    /\ UNCHANGED <<chatInput, textInput, waiting, clientVm, inMatch, opened>>

MatchChanges ==
    /\ clientVm' \in BOOLEAN /\ inMatch' \in BOOLEAN
    /\ UNCHANGED <<dialog, chatInput, textInput, waiting, opened>>

\* The UI VM is destroyed with its threads; the runtime is not told.
UiVmEnds ==
    /\ waiting' = {}
    /\ UNCHANGED <<dialog, chatInput, textInput, clientVm, inMatch, opened>>

KeyboardNext ==
    \/ Type \/ MatchChanges \/ UiVmEnds \/ UpdateChatKeyboard
    \/ \E team \in BOOLEAN : OpenChatKeyboard(team)
    \/ \E o \in EditedOptions : OpenTextInput(o) \/ UpdateTextInput(o)

KeyboardSpec == KeyboardInit /\ [][KeyboardNext]_keyboardVars

-----------------------------------------------------------------------------
KeyboardTypeOK ==
    /\ dialog.is \in {"none", "running", "finished", "cancelled"}
    /\ waiting \subseteq EditedOptions \cup {"chat"}
    /\ \A o \in EditedOptions : option[o] \in Seq({"a", "space", "pair", "broken", "rep"})

\* One keyboard at a time: the flags say who has the system's, and only its
\* asker waits for it.
OneKeyboard ==
    /\ chatOpen <=> dialog.asker = "chat"
    /\ inputOpen <=> dialog.asker \in EditedOptions
    /\ waiting \subseteq {dialog.asker}

\* What was typed goes where the keyboard was opened from, as it was typed.
TextToItsAsker ==
    \A o \in EditedOptions :
        option'[o] # option[o] =>
            /\ dialog.asker = o /\ dialog.is = "finished"
            /\ Utf16Of(option'[o]) \in {strip(dialog.text)} \/ "broken" \in ToSet(option'[o])

\* No keyboard leaves the server without a name, none sends a blank message.
NothingEmpty ==
    /\ Required \in EditedOptions => option[Required] # <<>>
    /\ \A m \in sentText : ~Blank(m.text)

\* An option that fits is what it was when its text is accepted untouched.
Untouched(o) == dialog.is = "running" /\ dialog.asker = o /\ o # Secret
FitsAsItIs ==
    \A o \in EditedOptions : Untouched(o) /\ Len(Utf16Of(option[o])) <= TextLimit /\ "broken" \notin ToSet(option[o]) =>
        Utf16ToUtf8(dialog.text) = option[o]

KeyboardInvariant == OneKeyboard /\ NothingEmpty /\ FitsAsItIs
=============================================================================
