-------------------------------- MODULE Lzss --------------------------------
(***************************************************************************)
(* The rewrite of the engine's LZSS decompressor (lzss.h), one command a   *)
(* step.  A payload is its declared size and its commands: a literal, a    *)
(* back-reference of a distance and a count, or the end (a count of 1).    *)
(***************************************************************************)
EXTENDS Integers, Sequences

CONSTANTS
    Bytes,           \* literals
    MostSize,        \* bound: sizes declared, and the buffer's
    MostDistance,    \* the longest distance a reference can name
    MostCount        \* the longest count

LzssAssumption == {MostSize, MostDistance, MostCount} \subseteq Nat \ {0}
ASSUME LzssAssumption

VARIABLES
    actualSize,      \* the header's size
    bufferSize,
    totalBytes,
    output,          \* the bytes written, a place for each
    lzssState        \* "reading", "refused", or the size returned

lzssVars == <<actualSize, bufferSize, totalBytes, output, lzssState>>

\* The header: no size, or one above the buffer's, is refused at once.
LzssInit ==
    /\ actualSize \in 0..MostSize /\ bufferSize \in 0..MostSize
    /\ totalBytes = 0 /\ output = <<>>
    /\ lzssState = IF actualSize = 0 \/ actualSize > bufferSize THEN <<"refused">> ELSE <<"reading">>

Refuse == lzssState' = <<"refused">> /\ UNCHANGED output

Literal(b) ==
    /\ totalBytes' = totalBytes + 1
    /\ IF totalBytes' > bufferSize THEN Refuse ELSE output' = Append(output, b) /\ UNCHANGED lzssState

\* The reference must lie within what has been written.
TooFar(distance) == distance > totalBytes

\* Copied byte by byte, so a count above the distance repeats what it has just
\* written: the bytes between the reference and the end, over and over.
Source(distance, i) == Len(output) - distance + 1 + ((i - 1) % distance)
Copied(distance, count) ==
    output \o [i \in 1..count |-> IF Source(distance, i) >= 1 THEN output[Source(distance, i)]
                                  ELSE "before the output"]

BackReference(distance, count) ==
    IF TooFar(distance) THEN Refuse /\ UNCHANGED totalBytes
    ELSE /\ totalBytes' = totalBytes + count
         /\ IF totalBytes' > bufferSize THEN Refuse
            ELSE output' = Copied(distance, count) /\ UNCHANGED lzssState

EndMarker ==
    /\ lzssState' = IF totalBytes = actualSize THEN <<"returned", totalBytes>> ELSE <<"refused">>
    /\ UNCHANGED <<totalBytes, output>>

SafeUncompress ==
    /\ lzssState = <<"reading">>
    /\ \/ \E b \in Bytes : Literal(b)
       \/ \E distance \in 1..MostDistance, count \in 2..MostCount : BackReference(distance, count)
       \/ EndMarker
    /\ UNCHANGED <<actualSize, bufferSize>>

LzssSpec == LzssInit /\ [][SafeUncompress]_lzssVars

-----------------------------------------------------------------------------
LzssTypeOK ==
    /\ actualSize \in 0..MostSize /\ bufferSize \in 0..MostSize /\ totalBytes \in Nat
    /\ output \in Seq(Bytes \cup {"before the output"})

\* Nothing is written past the buffer or read from before the output, what is
\* returned is what was written, and a refusal leaves the count behind at most.
LzssSound ==
    /\ Len(output) <= bufferSize
    /\ \A i \in DOMAIN output : output[i] \in Bytes
    /\ lzssState # <<"refused">> => Len(output) = totalBytes
    /\ lzssState[1] = "returned" => lzssState = <<"returned", Len(output)>> /\ Len(output) = actualSize
=============================================================================
