---------------------------- MODULE HttpTransport ----------------------------
(***************************************************************************)
(* The HTTP transport every request of the runtime goes through. It is set *)
(* up at boot, and again by whatever thread needs it when that failed; the *)
(* handles are plain globals. A request reads its body into a buffer. A    *)
(* stream asks its flag, reads a piece and passes it on, one after the     *)
(* other, and the flag may be set at any moment between.                   *)
(***************************************************************************)
EXTENDS Naturals, Sequences

CONSTANTS
    HttpThreads,
    Capacity,    \* bytes a request's buffer has room for
    MaxBody,     \* bytes of the longest body
    MaxInits     \* bound: set-ups begun

ASSUME HttpAssumption == Capacity \in Nat \ {0} /\ MaxBody \in Nat /\ MaxInits \in Nat

VARIABLES
    ready,       \* g_httpReady
    handle,      \* g_httpNetPool, g_httpSslCtx, g_httpCtx and g_httpTemplate: valid or not
    request,     \* the InitHttpTransport, HttpRequest or HttpStream each thread is in
    open,        \* connections and requests of the transport, by thread
    cancel,      \* the flag a stream is given
    inits,       \* set-ups begun
    raced        \* history: two set-ups overlapped

httpVars == <<ready, handle, request, open, cancel, inits, raced>>

InitSteps == <<"pool", "ssl", "ctx", "template">>
None == [pc |-> "idle", step |-> 1, streams |-> FALSE, body |-> 0, got |-> 0, ok |-> FALSE,
         piece |-> 0,    \* bytes a stream has read and not passed on yet
         late |-> 0]     \* history: pieces it passed on after the flag was set

Calls == [pc: {"idle", "init", "connect", "create", "send", "poll", "read", "deliver", "close"},
          step: 1..4, streams: BOOLEAN, body: 0..MaxBody, got: 0..MaxBody, ok: BOOLEAN,
          piece: 0..MaxBody, late: Nat]
HttpTypeOK ==
    /\ ready \in BOOLEAN /\ handle \in [{"pool", "ssl", "ctx", "template"} -> BOOLEAN]
    /\ request \in [HttpThreads -> Calls]
    /\ open \in [HttpThreads -> SUBSET {"connection", "request"}]
    /\ cancel \in BOOLEAN /\ inits \in 0..MaxInits /\ raced \in BOOLEAN

HttpInit ==
    /\ ready = FALSE /\ handle = [h \in {"pool", "ssl", "ctx", "template"} |-> FALSE]
    /\ request = [t \in HttpThreads |-> None] /\ open = [t \in HttpThreads |-> {}]
    /\ cancel = FALSE /\ inits = 0 /\ raced = FALSE

Goto(t, pc) == request' = [request EXCEPT ![t].pc = pc]
Kept == UNCHANGED <<cancel, inits, raced>>

----------------------------------------------------------------------------
(* InitHttpTransport, unguarded: each step's result goes to its global, and  *)
(* a failure ends the set-up with what there is.                             *)

(* HttpRequest and HttpStream begin with it; boot runs it on its own. The    *)
(* one caller of HttpStream is the mod download, one at a time, which clears *)
(* the flag before.                                                          *)
Begin(t, streams) ==
    /\ request[t] = None /\ (streams => \A u \in HttpThreads : ~request[u].streams)
    /\ IF ready
       THEN /\ request' = [request EXCEPT ![t] = [None EXCEPT !.pc = "connect", !.streams = streams]]
            /\ UNCHANGED <<inits, raced>>
       ELSE /\ inits < MaxInits /\ inits' = inits + 1
            /\ request' = [request EXCEPT ![t] = [None EXCEPT !.pc = "init", !.streams = streams]]
            /\ raced' = (raced \/ \E u \in HttpThreads : request[u].pc = "init")
    /\ cancel' \in {cancel, cancel /\ ~streams}
    /\ UNCHANGED <<ready, handle, open>>

InitStep(t, succeeds) ==
    LET s == request[t].step IN
    /\ request[t].pc = "init"
    /\ handle' = [handle EXCEPT ![InitSteps[s]] = succeeds]
    /\ IF ~succeeds
       THEN request' = [request EXCEPT ![t] = None] /\ UNCHANGED ready
       ELSE IF s < Len(InitSteps)
       THEN request' = [request EXCEPT ![t].step = s + 1] /\ UNCHANGED ready
       ELSE request' = [request EXCEPT ![t].pc = "connect"] /\ ready' = TRUE
    /\ UNCHANGED open /\ Kept

----------------------------------------------------------------------------
(* One request. A transport whose template is not valid refuses it.          *)

Connect(t, succeeds) ==
    /\ request[t].pc = "connect" /\ (succeeds => handle["template"])
    /\ IF succeeds
       THEN open' = [open EXCEPT ![t] = {"connection"}] /\ Goto(t, "create")
       ELSE request' = [request EXCEPT ![t] = None] /\ UNCHANGED open
    /\ UNCHANGED <<ready, handle>> /\ Kept

DeleteConnection(t) == open' = [open EXCEPT ![t] = @ \ {"connection"}]
CreateRequest(t, succeeds) ==
    /\ request[t].pc = "create"
    /\ IF succeeds
       THEN open' = [open EXCEPT ![t] = @ \cup {"request"}] /\ Goto(t, "send")
       ELSE /\ DeleteConnection(t)
            /\ request' = [request EXCEPT ![t] = None]
    /\ UNCHANGED <<ready, handle>> /\ Kept

(* sceHttpSendRequest and the status; the answer has some body. *)
SendRequest(t, succeeds, body) ==
    /\ request[t].pc = "send"
    /\ request' = [request EXCEPT ![t].pc = IF ~succeeds THEN "close"
                                             ELSE IF request[t].streams THEN "poll" ELSE "read",
                                  ![t].body = body]
    /\ UNCHANGED <<ready, handle, open>> /\ Kept

Close(t, r, ok) == request' = [request EXCEPT ![t] = [r EXCEPT !.pc = "close", !.ok = ok]]
Room(r) == IF r.streams THEN MaxBody ELSE Capacity - r.got
Full(r) == ~r.streams /\ r.got >= Capacity
(* A plausible bug: the flag is asked before the first read only. *)
PollAtFirst(t) ==
    /\ request[t].pc = "poll"
    /\ IF cancel /\ request[t].got = 0 THEN Close(t, request[t], FALSE) ELSE Goto(t, "read")
    /\ UNCHANGED <<ready, handle, open>> /\ Kept
(* The flag is asked once, before each read. *)
PollCancel(t) ==
    /\ request[t].pc = "poll"
    /\ IF cancel THEN Close(t, request[t], FALSE) ELSE Goto(t, "read")
    /\ UNCHANGED <<ready, handle, open>> /\ Kept
(* sceHttpReadData gives some bytes, after however long. *)
ReadData(t, n) ==
    LET r == request[t]  s == [r EXCEPT !.got = @ + n] IN
    /\ r.pc = "read" /\ n \in 1..Room(r) /\ r.got + n <= r.body
    /\ IF r.streams THEN request' = [request EXCEPT ![t] = [r EXCEPT !.pc = "deliver", !.piece = n]]
       ELSE IF Full(s) THEN Close(t, s, TRUE)
       ELSE request' = [request EXCEPT ![t] = s]
    /\ UNCHANGED <<ready, handle, open>> /\ Kept
ReadEnds(t) ==
    /\ request[t].pc = "read" /\ request[t].got = request[t].body
    /\ Close(t, request[t], TRUE)
    /\ UNCHANGED <<ready, handle, open>> /\ Kept
ReadFails(t) ==
    /\ request[t].pc = "read"
    /\ Close(t, request[t], FALSE)
    /\ UNCHANGED <<ready, handle, open>> /\ Kept
(* onChunk gets the piece, the flag set in the meantime or not; it may refuse. *)
PassedOn(r) == [r EXCEPT !.got = @ + r.piece, !.piece = 0, !.late = IF cancel THEN @ + 1 ELSE @]
Deliver(t, accepted) ==
    /\ request[t].pc = "deliver"
    /\ IF accepted THEN request' = [request EXCEPT ![t] = [PassedOn(request[t]) EXCEPT !.pc = "poll"]]
       ELSE Close(t, PassedOn(request[t]), FALSE)
    /\ UNCHANGED <<ready, handle, open>> /\ Kept
Cancel ==
    /\ ~cancel /\ cancel' = TRUE
    /\ UNCHANGED <<ready, handle, request, open, inits, raced>>

CloseBoth(t) ==
    /\ request[t].pc = "close"
    /\ open' = [open EXCEPT ![t] = {}]
    /\ request' = [request EXCEPT ![t] = None]
    /\ UNCHANGED <<ready, handle>> /\ Kept

HttpNext ==
    \/ \E t \in HttpThreads, ok \in BOOLEAN :
          \/ Begin(t, ok) \/ InitStep(t, ok) \/ Connect(t, ok) \/ CreateRequest(t, ok) \/ Deliver(t, ok)
          \/ \E body \in 0..MaxBody : SendRequest(t, ok, body)
    \/ \E t \in HttpThreads :
          PollCancel(t) \/ ReadEnds(t) \/ ReadFails(t) \/ CloseBoth(t) \/ \E n \in 1..MaxBody : ReadData(t, n)
    \/ Cancel
HttpSpec == HttpInit /\ [][HttpNext]_httpVars /\ \A t \in HttpThreads : WF_httpVars(CloseBoth(t))

----------------------------------------------------------------------------
Valid == \A h \in DOMAIN handle : handle[h]

(* A transport that is ready is whole, unless two threads set it up at once:   *)
(* each writes the globals as it goes, and a loser's failure stays in them.  *)
ReadyIsWhole == ready /\ ~raced => Valid

(* No request leaves a connection behind, at whichever step it fails.        *)
NothingLeftOpen == \A t \in HttpThreads : request[t] = None => open[t] = {}

(* Success means the whole body, or, for a request, as much as its buffer     *)
(* holds (HttpRequest, HttpStream).                                          *)
BodiesAreWhole ==
    \A t \in HttpThreads : request[t].ok =>
        request[t].got = (IF request[t].streams \/ request[t].body < Capacity
                          THEN request[t].body ELSE Capacity)

(* A stream whose flag is set passes on at most the piece it was reading by    *)
(* then, however the setting falls between the asking, the read and onChunk. *)
CancelledStops == \A t \in HttpThreads : request[t].late <= 1

(* What the callers of HttpGet, HttpPost and HttpStream rely on. *)
HttpInvariant == ReadyIsWhole /\ NothingLeftOpen /\ BodiesAreWhole /\ CancelledStops

=============================================================================
