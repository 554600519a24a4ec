------------------------------ MODULE ChatText ------------------------------
(***************************************************************************)
(* A chat message's text on its way to the screen (chat_text.h): the       *)
(* server and the client clean it, and the client's writer shows it piece  *)
(* by piece, with the colour escapes applied and each piece turned into    *)
(* UTF-16.                                                                 *)
(*                                                                         *)
(* A text is a sequence of symbols, one for each kind of byte the code     *)
(* tells apart, and one for a run of digits, by its value.                 *)
(***************************************************************************)
EXTENDS Lists, SequencesExt

CONSTANTS
    ChatTexts,       \* the texts received, without their terminator
    ChunkLimit,      \* the longest piece before an escape that is shown whole
    HudContext       \* the context of each chat panel that has a text box

Escape == "esc"  Bracket == "["  Separator == "sep"  Letter == "a"  NewLine == "newline"  Space == "space"
Numbers == {"0", "31", "38", "2", "5", "111", "255"}
Kinds == {Escape, Bracket, Separator, Letter, NewLine, Space, "m", "control", "cont", "lead2", "surrogate", "lead5"}
         \cup Numbers
ValueOf(s) == CASE s = "0" -> 0 [] s = "31" -> 31 [] s = "38" -> 38 [] s = "2" -> 2
                [] s = "5" -> 5 [] s = "111" -> 111 [] s = "255" -> 255
Trailing(s) == CASE s = "lead2" -> 1 [] s = "surrogate" -> 2 [] s = "lead5" -> 4 [] OTHER -> 0
End == "end"

ChatTextsAssumption ==
    /\ ChunkLimit \in Nat \ {0} /\ HudContext \in Seq(Nat)
    /\ ChatTexts \subseteq Seq(Kinds)
ASSUME ChatTextsAssumption

VARIABLES
    text,        \* the text with its terminator
    given,       \* the text that was received
    at,          \* the place the code is at; 0 when it is done
    stage,       \* "clean", "write", "escape", "shown", or "overrun": it has left the text
    shown,       \* what the writer was given: pieces, colours and swatches
    next,        \* the escape parser's m_next
    channels     \* m_expanded

chatTextVars == <<text, given, at, stage, shown, next, channels>>

ChatTextInit ==
    /\ given \in ChatTexts
    /\ text = Append(given, End)
    /\ at = 1 /\ stage = "clean" /\ shown = <<>> /\ next = "type" /\ channels = <<>>

-----------------------------------------------------------------------------
(* RemoveAsciiControlSequences, one turn of its loop *)

\* The continuation bytes that follow, as far as they are wanted.
Follow(i) == CHOOSE k \in 0..Trailing(text[i]) :
                 /\ \A j \in 1..k : text[i + j] = "cont"
                 /\ k = Trailing(text[i]) \/ text[i + k + 1] # "cont"

Blanked(i, j) == [k \in DOMAIN text |-> IF k \in i..j THEN Space ELSE text[k]]

\* SkipValidAnsiCsiSgr: an escape, a bracket, then numbers and separators up to
\* an m, or up to the end.
IsColour(t, i) ==
    /\ i < Len(t) /\ t[i + 1] = Bracket
    /\ \A j \in i + 2..Len(t) :
           \/ t[j] \in Numbers \cup {Separator, "m", End}
           \/ \E k \in i + 2..j - 1 : t[k] = "m"

\* A pass that finds a control character, a lone or missing continuation, or an
\* escape; one that is no colour blanks the byte two places on.
CleanedAt(i) ==
    LET s == text[i]
    IN  CASE Trailing(s) > 0 /\ Follow(i) < Trailing(s) -> Blanked(i, i + Follow(i))
          [] s \in {"control", "cont"} -> Blanked(i, i)
          [] s = Escape /\ ~IsColour(text, i) -> Blanked(i + 2, i + 2)
          [] OTHER -> text
After(i) ==
    LET s == text[i]
    IN  CASE Trailing(s) > 0 -> i + Follow(i) + 1
          [] s = Escape -> IF IsColour(text, i) THEN i + 2 ELSE i + 3
          [] OTHER -> i + 1

\* With such an escape the text's last or last but one byte, what is blanked is
\* the terminator or the byte behind it, and the loop goes on in what lies there.
RunsOver == text[at] = Escape /\ ~IsColour(text, at) /\ at + 2 >= Len(text)

Clean ==
    /\ stage = "clean" /\ text[at] # End /\ ~RunsOver
    /\ text' = CleanedAt(at) /\ at' = After(at)
    /\ UNCHANGED <<given, stage, shown, next, channels>>

\* What lies there is the engine's, and not modelled: nothing is said of a text
\* that was overrun.
CleanOverruns ==
    /\ stage = "clean" /\ RunsOver
    /\ text' = CleanedAt(at) /\ stage' = "overrun"
    /\ UNCHANGED <<given, at, shown, next, channels>>

\* The client's script has the cleaned text written: NSChatWrite, NSChatWriteRaw
\* (as it is), or NSChatWriteLine (a new line in the main colour before it).
EndPlace == SelectInSeq(text, LAMBDA s : s = End)
Piece(i, j) == [kind |-> "text", is |-> SubSeq(text, i, j - 1)]
Swatch(name) == [kind |-> "swatch", is |-> <<name>>]

ChatWrite == shown' = <<>> /\ stage' = "write"
ChatWriteRaw == shown' = <<Piece(1, EndPlace)>> /\ stage' = "shown"
ChatWriteLine == shown' = <<[kind |-> "char", is |-> <<NewLine>>], Swatch("main")>> /\ stage' = "write"

CleanEnds ==
    /\ stage = "clean" /\ text[at] = End
    /\ ChatWrite \/ ChatWriteRaw \/ ChatWriteLine
    /\ at' = 1 /\ UNCHANGED <<text, given, next, channels>>

-----------------------------------------------------------------------------
(* WriteChatText, one piece and one escape a turn *)

\* Utf8ToUtf16: a sequence that is not whole, or of no code point, gives the
\* replacement character for its first byte.
WholeIn(piece, i) ==
    /\ i + Trailing(piece[i]) <= Len(piece)
    /\ \A j \in 1..Trailing(piece[i]) : piece[i + j] = "cont"
Begins(piece, i) ==
    piece[i] = "cont" => ~(i > 1 /\ piece[i - 1] = "lead2" /\ WholeIn(piece, i - 1))
UnitAt(piece, i) ==
    CASE piece[i] \in {"cont", "surrogate", "lead5"} -> "replacement"
      [] piece[i] = "lead2" -> IF WholeIn(piece, i) THEN "letter" ELSE "replacement"
      [] OTHER -> piece[i]
Units(piece) ==
    FlattenSeq([i \in DOMAIN piece |-> IF Begins(piece, i) THEN <<UnitAt(piece, i)>> ELSE <<>>])

EscapesFrom(i) == {j \in i..Len(text) - 1 : text[j] = Escape /\ text[j + 1] = Bracket}

\* The text up to the next escape, cut, or to the end.
Cut(i, j) == IF j - i > ChunkLimit THEN i + ChunkLimit ELSE j

WritePiece ==
    /\ stage = "write"
    /\ IF EscapesFrom(at) = {}
       THEN /\ shown' = Append(shown, Piece(at, EndPlace))
            /\ stage' = "shown" /\ UNCHANGED <<at, next, channels>>
       ELSE LET e == CHOOSE j \in EscapesFrom(at) : \A k \in EscapesFrom(at) : j <= k
            IN  /\ shown' = IF e = at THEN shown ELSE Append(shown, Piece(at, Cut(at, e)))
                /\ stage' = "escape" /\ at' = e + 2 /\ next' = "type" /\ channels' = <<>>
    /\ UNCHANGED <<text, given>>

\* AnsiEscapeParser::HandleVal: what is shown, and what comes next.
Value(v) ==
    CASE next = "type" /\ v \in {0, 39} -> [shows |-> <<Swatch("main")>>, next |-> "type", channels |-> <<>>]
      [] next = "type" /\ v \in 30..37 \cup 90..97 -> [shows |-> <<[kind |-> "colour", is |-> <<v>>]>>, next |-> "type", channels |-> <<>>]
      [] next = "type" /\ v \in 110..113 -> [shows |-> <<Swatch(<<"main", "sameTeam", "enemyTeam", "network">>[v - 109])>>, next |-> "type", channels |-> <<>>]
      [] next = "type" /\ v = 38 -> [shows |-> <<>>, next |-> "foreground", channels |-> <<>>]
      [] next = "foreground" /\ v = 2 -> [shows |-> <<>>, next |-> "channel", channels |-> <<>>]
      [] next = "foreground" /\ v = 5 -> [shows |-> <<>>, next |-> "eightBit", channels |-> <<>>]
      [] next = "eightBit" /\ v < 255 -> [shows |-> <<[kind |-> "colour", is |-> <<38, 5, v>>]>>, next |-> "type", channels |-> <<>>]
      [] next = "channel" /\ v < 255 ->
             IF Len(channels) < 2 THEN [shows |-> <<>>, next |-> "channel", channels |-> Append(channels, v)]
             ELSE [shows |-> <<[kind |-> "colour", is |-> <<38, 2>> \o channels \o <<v>>]>>, next |-> "type", channels |-> <<>>]
      [] OTHER -> [shows |-> <<>>, next |-> "type", channels |-> <<>>]
\* ApplyAnsiEscape: a number, behind white space, then a separator to go on, an
\* m to end, or the text that resumes.
Escaped ==
    /\ stage = "escape"
    /\ LET n == CHOOSE j \in at..Len(text) : text[j] \notin {Space, NewLine} /\ \A k \in at..j - 1 : text[k] \in {Space, NewLine}
       IN  IF text[n] \notin Numbers \/ (text[n] = "0" /\ n # at)
           THEN stage' = "write" /\ UNCHANGED <<at, shown, next, channels>>
           ELSE /\ shown' = shown \o Value(ValueOf(text[n])).shows
                /\ next' = Value(ValueOf(text[n])).next
                /\ channels' = Value(ValueOf(text[n])).channels
                /\ stage' = IF text[n + 1] = Separator THEN "escape" ELSE "write"
                /\ at' = IF text[n + 1] \in {Separator, "m"} THEN n + 2 ELSE n + 1
    /\ UNCHANGED <<text, given>>

-----------------------------------------------------------------------------
(* HudChatWriter: what each panel of the context is given *)

Context == 1                           \* the context the script writes to
SwatchOf(hud, name) == <<hud, name>>   \* each panel has its own colours

Inserted(hud, op) ==
    CASE op.kind = "text" -> <<[kind |-> "string", is |-> Units(op.is)], [kind |-> "fade", is |-> <<>>]>>
      [] op.kind = "char" -> <<op>>
      [] op.kind = "colour" -> <<op>>
      [] op.kind = "swatch" -> <<[kind |-> "colour", is |-> SwatchOf(hud, op.is[1])]>>

ForEachChatHud == {hud \in DOMAIN HudContext : HudContext[hud] = Context}
HudContents(hud) ==
    IF hud \notin ForEachChatHud THEN <<>>
    ELSE FlattenSeq([i \in DOMAIN shown |-> Inserted(hud, shown[i])])

ChatTextNext == Clean \/ CleanOverruns \/ CleanEnds \/ WritePiece \/ Escaped

ChatTextSpec == ChatTextInit /\ [][ChatTextNext]_chatTextVars

-----------------------------------------------------------------------------
ChatTextTypeOK ==
    /\ Len(text) = Len(given) + 1
    /\ at \in 0..Len(text) + 1 /\ stage \in {"clean", "write", "escape", "shown", "overrun"}

\* What is to be read on a panel.
Written(hud) ==
    FlattenSeq([i \in DOMAIN HudContents(hud) |->
                   IF HudContents(hud)[i].kind = "string" THEN HudContents(hud)[i].is ELSE <<>>])
IsCut == \E i \in DOMAIN shown : shown[i].kind = "text" /\ Len(shown[i].is) = ChunkLimit
Count(s, symbol) == Cardinality({i \in DOMAIN s : s[i] = symbol})
NumbersOf(s) == Only(s, Numbers)

\* The terminator stays where it was, whatever is blanked, but where an escape
\* that is no colour came as the text's last or last but one byte.
EndStays ==
    IF stage = "overrun"
    THEN \E i \in DOMAIN given : i + 2 > Len(given) /\ given[i] = Escape /\ ~IsColour(given, i)
    ELSE EndPlace = Len(given) + 1

EscapesAreColours == \A i \in DOMAIN given : given[i] = Escape => IsColour(given, i)

\* In what was cleaned no control character is left, and no byte of a broken
\* sequence; behind an escape that is no colour nothing is promised.
NothingBroken ==
    stage # "clean" /\ EscapesAreColours =>
        /\ Count(text, "control") = 0
        /\ \A i \in 1..Len(given) : /\ Trailing(text[i]) = Follow(i)
                                    /\ text[i] = "cont" => \E k \in 1..i - 1 : i - k <= Trailing(text[k])

\* So no panel shows a replacement character, but where a piece was cut, and
\* for sequences of code points that are none.
CleanedTextConverts ==
    EscapesAreColours =>
    \A hud \in ForEachChatHud :
        Count(Written(hud), "replacement") > 0 =>
            IsCut \/ Count(given, "surrogate") + Count(given, "lead5") > 0

\* Every letter that was not blanked is shown once on every panel: the escapes
\* take only what is theirs.
LettersAreShown ==
    stage = "shown" =>
        \A hud \in ForEachChatHud :
            \/ Count(Written(hud), Letter) = Count(text, Letter)
            \/ IsCut

\* A colour that is shown stands in the text, number by number.
ColoursAreWhole ==
    \A i \in DOMAIN shown : shown[i].kind = "colour" /\ Len(shown[i].is) = 5 =>
        \E j \in DOMAIN NumbersOf(text) :
            /\ j + 4 <= Len(NumbersOf(text))
            /\ \A k \in 1..5 : ValueOf(NumbersOf(text)[j + k - 1]) = shown[i].is[k]

ChatTextSound == EndStays /\ NothingBroken /\ CleanedTextConverts /\ LettersAreShown /\ ColoursAreWhole
=============================================================================
