----------------------------- MODULE ServerJoin -----------------------------
(***************************************************************************)
(* Joining a server and signing in to the own one (runtime_server_join).   *)
(* The UI thread starts a worker for each, polls for its answer, and spends *)
(* it: it puts the connection's token in serverfilter and the account in   *)
(* platform_user_id, and connects. The workers read the identity, which    *)
(* the sign-in listener and they themselves may replace meanwhile.          *)
(***************************************************************************)
EXTENDS AtlasIdentity

CONSTANTS MaxRequests   \* bound: requests the scripts start

ASSUME RequestsAssumption == MaxRequests \in Nat

Workers == {"join", "self"}

VARIABLES
    fetch,         \* joinState and selfAuthState
    worker,        \* the worker threads: step and locals
    result,        \* joinResult and selfAuthResult; filed is the account the answer's
                   \* pdata is recorded under
    authSucceeded, \* what NSWasAuthSuccessful answers
    pending,       \* pendingConnection: whose authToken, or Nobody
    selfAuthToken, \* whose selfAuthToken, or Nobody
    serverFilter,  \* whose connection token the convar holds, or Nobody
    platformUid,   \* the convar platform_user_id
    changed,       \* history: the identity was replaced since each request
    requests

uiVars == <<authSucceeded, pending, selfAuthToken, serverFilter, platformUid>>
workVars == <<fetch, worker, result, changed>>
joinVars == <<uiVars, workVars, requests>>
vars == <<identityVars, outsideVars, listenerVars, joinVars>>

Steps == {"Off", "ReadToken", "Send", "Wait", "Refresh", "Compare", "Store", "Save",
          "CheckId", "Record"}
Account0 == Accounts \cup {Nobody}
AnyUid == Accounts \cup {Torn, Nobody}
NoResult == [success |-> FALSE, owner |-> Nobody, refused |-> FALSE, filed |-> Nobody]
Idle == [pc |-> "Off", attempt |-> 0, used |-> NoToken, id |-> Nobody, reply |-> NoToken]

WorkerStates == [pc: Steps, attempt: 0..1, used: Token \cup {Torn, NoToken},
                 id: AnyUid, reply: Token \cup {Torn, NoToken}]
Results == [success: BOOLEAN, owner: Account0, refused: BOOLEAN, filed: AnyUid]

TypeOK ==
    /\ IdentityTypeOK
    /\ fetch \in [Workers -> {"Idle", "Requesting", "Ready"}]
    /\ worker \in [Workers -> WorkerStates]
    /\ result \in [Workers -> Results]
    /\ authSucceeded \in BOOLEAN
    /\ {pending, selfAuthToken, serverFilter} \subseteq Account0
    /\ platformUid \in AnyUid
    /\ changed \in [Workers -> BOOLEAN]
    /\ requests \in 0..MaxRequests

Init ==
    /\ IdentityInit
    /\ fetch = [w \in Workers |-> "Idle"]
    /\ worker = [w \in Workers |-> Idle]
    /\ result = [w \in Workers |-> NoResult]
    /\ authSucceeded = FALSE
    /\ pending = Nobody /\ selfAuthToken = Nobody /\ serverFilter = Nobody
    /\ platformUid = uid
    /\ changed = [w \in Workers |-> FALSE]
    /\ requests = 0

----------------------------------------------------------------------------
(* The UI thread.                                                           *)

(* PublishJoinResult, PublishSelfAuthResult: take over a finished answer.   *)
(* The lobby starts even when self-auth failed, unless Atlas refused the   *)
(* token.                                                                    *)
Published(w) == fetch[w] = "Ready"
FetchAfter(ws) == [w \in Workers |-> IF w \in ws /\ Published(w) THEN "Idle" ELSE fetch[w]]
ResultAfter(ws) == [w \in Workers |-> IF w \in ws /\ Published(w) THEN NoResult ELSE result[w]]
SucceededAfter(ws) ==
    IF "self" \in ws /\ Published("self") THEN ~result["self"].refused
    ELSE IF "join" \in ws /\ Published("join") THEN result["join"].success
    ELSE authSucceeded
PendingAfter(ws) ==
    IF "join" \in ws /\ Published("join") /\ result["join"].success
    THEN result["join"].owner ELSE pending
SelfTokenAfter(ws) ==
    IF "self" \in ws /\ Published("self")
    THEN IF result["self"].success THEN result["self"].owner ELSE Nobody
    ELSE selfAuthToken

(* IsAuthenticating, and every native that publishes and does no more.      *)
Poll == /\ \E w \in Workers : Published(w)
        /\ fetch' = FetchAfter(Workers) /\ result' = ResultAfter(Workers)
        /\ authSucceeded' = SucceededAfter(Workers)
        /\ pending' = PendingAfter(Workers) /\ selfAuthToken' = SelfTokenAfter(Workers)
        /\ UNCHANGED <<serverFilter, platformUid, worker, changed, requests>>
        /\ UNCHANGED <<identityVars, outsideVars, listenerVars>>

(* TryRemoteAuth and TryLocalAuth up to the exchange of the state; the      *)
(* thread may fail to start, which answers at once.                          *)
TryAuth(w) ==
    /\ requests < MaxRequests /\ requests' = requests + 1
    /\ FetchAfter({w})[w] = "Idle"
    /\ authSucceeded' = FALSE
    /\ pending' = IF w = "join" THEN Nobody ELSE pending
    /\ selfAuthToken' = IF w = "self" THEN Nobody ELSE selfAuthToken
    /\ IF AtlasIdentityReady
       THEN \/ /\ fetch' = [fetch EXCEPT ![w] = "Requesting"]
               /\ worker' = [worker EXCEPT ![w] = [Idle EXCEPT !.pc = "ReadToken"]]
               /\ result' = [result EXCEPT ![w] = NoResult]
               /\ changed' = [changed EXCEPT ![w] = FALSE]
            \/ /\ fetch' = [fetch EXCEPT ![w] = "Ready"]
               /\ result' = [result EXCEPT ![w] = NoResult]
               /\ UNCHANGED <<worker, changed>>
       ELSE /\ fetch' = FetchAfter({w}) /\ result' = ResultAfter({w})
            /\ UNCHANGED <<worker, changed>>
    /\ UNCHANGED <<serverFilter, platformUid>>
    /\ UNCHANGED <<identityVars, outsideVars, listenerVars>>

(* EnsureConnectUid: the account replaces what the engine made of the       *)
(* convar; refused without one.                                              *)
EnsureConnectUid == uid # Nobody /\ platformUid' = uid
(* CompleteAuth: spend the connection.                                       *)
CompleteAuth ==
    /\ PendingAfter({"join"}) # Nobody
    /\ fetch' = FetchAfter({"join"}) /\ result' = ResultAfter({"join"})
    /\ authSucceeded' = SucceededAfter({"join"})
    /\ pending' = Nobody
    /\ serverFilter' = PendingAfter({"join"})
    /\ EnsureConnectUid
    /\ UNCHANGED <<selfAuthToken, worker, changed, requests>>
    /\ UNCHANGED <<identityVars, outsideVars, listenerVars>>

(* CompleteLocalAuth: serverfilter holds the own session's token or none.   *)
CompleteLocalAuth ==
    /\ SucceededAfter({"self"})
    /\ fetch' = FetchAfter({"self"}) /\ result' = ResultAfter({"self"})
    /\ authSucceeded' = SucceededAfter({"self"})
    /\ selfAuthToken' = SelfTokenAfter({"self"})
    /\ serverFilter' = SelfTokenAfter({"self"})
    /\ platformUid' = IF SelfTokenAfter({"self"}) # Nobody /\ uid # Nobody THEN uid ELSE platformUid
    /\ UNCHANGED <<pending, worker, changed, requests>>
    /\ UNCHANGED <<identityVars, outsideVars, listenerVars>>

(* The engine writes the console's account id, or "1", over the convar.     *)
EngineRewritesUid ==
    /\ platformUid # Nobody /\ platformUid' = Nobody
    /\ UNCHANGED <<authSucceeded, pending, selfAuthToken, serverFilter, workVars, requests>>
    /\ UNCHANGED <<identityVars, outsideVars, listenerVars>>

----------------------------------------------------------------------------
(* ServerJoinWorker and SelfAuthWorker.                                      *)

Goes(w, pc) == /\ worker' = [worker EXCEPT ![w].pc = pc]
               /\ UNCHANGED fetch
(* A plausible bug: the last store is forgotten on the way out.             *)
LeavesOff(w) == /\ worker' = [worker EXCEPT ![w] = Idle]
                /\ UNCHANGED fetch
(* The last store of a worker hands its answer over. *)
Finishes(w) == /\ worker' = [worker EXCEPT ![w] = Idle]
               /\ fetch' = [fetch EXCEPT ![w] = "Ready"]
Elsewhere == UNCHANGED <<uiVars, requests, listenerVars>>

ReadToken(w) ==
    /\ worker[w].pc = "ReadToken"
    /\ worker' = [worker EXCEPT ![w].used = token, ![w].pc = "Send"]
    /\ result' = [result EXCEPT ![w] = NoResult]
    /\ Elsewhere /\ UNCHANGED <<fetch, changed, identityVars, atlas, minted>>

(* The uid is put in the URL after the token was copied. *)
Send(w) ==
    /\ worker[w].pc = "Send"
    /\ worker' = [worker EXCEPT ![w].id = uid, ![w].pc = "Wait"]
    /\ Elsewhere /\ UNCHANGED <<fetch, result, changed, identityVars, atlas, minted>>

(* Atlas's answer: success, the token refused, another error or none.        *)
Answer(w) ==
    /\ worker[w].pc = "Wait"
    /\ \/ /\ AtlasKnows(worker[w].id, worker[w].used)
          /\ result' = [result EXCEPT ![w] =
                 [NoResult EXCEPT !.success = TRUE, !.owner = worker[w].id]]
          /\ IF w = "self" THEN Goes(w, "CheckId") ELSE Finishes(w)
       \/ /\ ~AtlasKnows(worker[w].id, worker[w].used)
          /\ result' = [result EXCEPT ![w] = [NoResult EXCEPT !.refused = TRUE]]
          /\ IF worker[w].attempt = 0 /\ paired # NoHelper THEN Goes(w, "Refresh") ELSE Finishes(w)
       \/ /\ result' = [result EXCEPT ![w] = NoResult]
          /\ Finishes(w)
    /\ Elsewhere /\ UNCHANGED <<changed, identityVars, atlas, minted>>

(* The second attempt of the loop. *)
Retry(w) == /\ worker' = [worker EXCEPT ![w] = [Idle EXCEPT !.pc = "ReadToken", !.attempt = 1]]
            /\ UNCHANGED fetch

RefreshLocks(w) ==
    /\ worker[w].pc = "Refresh" /\ ~busy /\ busy' = TRUE
    /\ Goes(w, "Compare")
    /\ Elsewhere /\ UNCHANGED <<result, changed, atlas, minted,
                                uid, token, paired, identityState, file>>

(* RefreshAtlasToken under the lock: another request has refreshed already, *)
(* or the helper is asked; a reply that is not accepted, or none, fails.     *)
RefreshAtlasToken(w) ==
    /\ worker[w].pc = "Compare"
    /\ \/ /\ worker[w].used # token
          /\ busy' = FALSE /\ Retry(w)
          /\ UNCHANGED <<token, atlas, minted>>
       \/ /\ worker[w].used = token
          /\ \E reply \in [uid: Accounts, token: Token], a \in Accounts :
                /\ HelperMints(a, reply) \/ HelperRepeats(a, token, reply)
                /\ IF AcceptRefreshedToken(reply, worker[w].used)
                   THEN /\ token' = Torn /\ UNCHANGED busy
                        /\ worker' = [worker EXCEPT ![w].reply = reply.token, ![w].pc = "Store"]
                        /\ UNCHANGED fetch
                   ELSE /\ busy' = FALSE /\ UNCHANGED token
                        /\ Finishes(w)
       \/ /\ worker[w].used = token
          /\ busy' = FALSE /\ Finishes(w)
          /\ UNCHANGED <<token, atlas, minted>>
    /\ Elsewhere /\ UNCHANGED <<result, changed, uid, paired, identityState, file>>

RefreshStores(w) ==
    /\ worker[w].pc = "Store"
    /\ token' = worker[w].reply
    /\ Goes(w, "Save")
    /\ Elsewhere /\ UNCHANGED <<result, changed, atlas, minted,
                                uid, paired, identityState, file, busy>>

RefreshSaves(w) ==
    /\ worker[w].pc = "Save"
    /\ Saved([uid |-> uid, token |-> worker[w].reply, paired |-> paired])
    /\ busy' = FALSE
    /\ Retry(w)
    /\ Elsewhere /\ UNCHANGED <<result, changed, atlas, minted,
                                uid, token, paired, identityState>>

(* SelfAuthWorker: the answer must be for this console's account.            *)
IsOwnAnswer(w) == result[w].owner = uid
CheckId(w) ==
    /\ worker[w].pc = "CheckId"
    /\ IF IsOwnAnswer(w)
       THEN Goes(w, "Record") /\ changed' = [changed EXCEPT ![w] = FALSE] /\ UNCHANGED result
       ELSE Finishes(w) /\ result' = [result EXCEPT ![w] = NoResult] /\ UNCHANGED changed
    /\ Elsewhere /\ UNCHANGED <<identityVars, atlas, minted>>

(* The record is filed under the account as it is now.                       *)
AddSelfAuthRecord(w) ==
    /\ worker[w].pc = "Record"
    /\ result' = [result EXCEPT ![w].filed = uid]
    /\ Finishes(w)
    /\ Elsewhere /\ UNCHANGED <<changed, identityVars, atlas, minted>>

WorkerStep(w) ==
    \/ ReadToken(w) \/ Send(w) \/ Answer(w)
    \/ RefreshLocks(w) \/ RefreshAtlasToken(w) \/ RefreshStores(w) \/ RefreshSaves(w)
    \/ CheckId(w) \/ AddSelfAuthRecord(w)

----------------------------------------------------------------------------
(* A push replaces the account under the requests that are under way and    *)
(* the connection that waits to be spent.                                    *)
Listens ==
    /\ ListenerStep
    /\ changed' = IF uid' # uid THEN [w \in Workers |-> TRUE] ELSE changed
    /\ UNCHANGED <<uiVars, fetch, worker, result, requests>>

Outside ==
    /\ \/ \E a \in Accounts : SignInElsewhere(a)
       \/ \E h \in Helpers, a \in Accounts, here, right \in BOOLEAN : Serve(h, a, here, right)
    /\ UNCHANGED joinVars

Next ==
    \/ Poll \/ CompleteAuth \/ CompleteLocalAuth \/ EngineRewritesUid
    \/ \E w \in Workers : TryAuth(w) \/ WorkerStep(w)
    \/ Listens \/ Outside

Spec == /\ Init /\ [][Next]_vars
        /\ \A w \in Workers : WF_vars(WorkerStep(w))
        /\ WF_vars(Listens)

----------------------------------------------------------------------------
(* While nobody writes it, the identity is whole: the token is one Atlas     *)
(* made for the account, so that neither a refresh nor a push leaves one     *)
(* account with the other's token, and so is the file a restart reads.       *)
WholeIn(u, t) == t = NoToken \/ (t # Torn /\ t.owner = u)
IdentityWhole ==
    /\ ~busy => uid # Torn /\ WholeIn(uid, token)
    /\ file # NoFile => WholeIn(file.uid, file.token)

(* A connect carries the account Atlas made its token for, unless the        *)
(* console was signed in to another account since the join was asked for.    *)
ConnectsAsAuthenticated ==
    [][CompleteAuth => platformUid' = serverFilter' \/ changed["join"]]_vars

(* A self-auth record holds its account's save, unless a push came after the *)
(* worker had compared the account of the answer.                            *)
RecordsOwnSave ==
    result["self"].filed \notin {Nobody, result["self"].owner} => changed["self"]

(* A request the scripts wait for is answered.                               *)
RequestsEnd == \A w \in Workers : fetch[w] = "Requesting" ~> fetch[w] # "Requesting"

=============================================================================
