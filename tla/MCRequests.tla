----------------------------- MODULE MCRequests -----------------------------
(***************************************************************************)
(* What the game asks of the network and waits for: joins and self-auths,  *)
(* the server list, and the scripts' requests.  The components share no    *)
(* state here, so in a behaviour one of them runs and the others stay      *)
(* where they start.  MCRequests gives the answers.                        *)
(***************************************************************************)
EXTENDS ServerJoin, ScriptCalls, ServerBrowser

VARIABLE part        \* the component that runs

requestsVars == <<part, vars, scriptCallsVars, browserVars>>

\* Of a component that stays, one initial state is enough.
RequestsInit ==
    /\ part \in {"join", "calls", "list"} /\ ScriptCallsInit /\ BrowserInit
    /\ IF part = "join" THEN Init ELSE file = NoFile /\ Init

\* The bound on joins: of a second request, a push and a third token, at most two.
FewAtOnce == requests' <= 1 \/ pushes' = 0 \/ minted' <= 2

RequestsNext ==
    /\ UNCHANGED part
    /\ IF part = "join" THEN Next /\ FewAtOnce ELSE UNCHANGED vars
    /\ IF part = "calls" THEN ScriptCallsNext ELSE UNCHANGED scriptCallsVars
    /\ IF part = "list" THEN BrowserNext ELSE UNCHANGED browserVars

(* The fairness of each component, while it runs. *)
RequestsSpec ==
    /\ RequestsInit /\ [][RequestsNext]_requestsVars
    /\ \A w \in Workers : WF_vars(part = "join" /\ WorkerStep(w))
    /\ WF_vars(part = "join" /\ Listens)
    /\ \A h \in 1..MaxHandles :
           WF_scriptCallsVars(part = "calls" /\ \E m \in http : m.handle = h /\ ScriptHttpWorker(m))
    /\ \A c \in Contexts : WF_scriptCallsVars(part = "calls" /\ DrainContext(c))
    /\ WF_browserVars(part = "list" /\ WorkerSteps) /\ WF_browserVars(part = "list" /\ PollList)

-----------------------------------------------------------------------------
(* Properties are asked of the component that runs. *)
RequestsTypeOK ==
    /\ part = "join" => TypeOK
    /\ part = "calls" => ScriptCallsTypeOK
    /\ part = "list" => BrowserTypeOK

\* The identity is one account's, and what is joined and recorded is that
\* account's (ServerJoin, AtlasIdentity).
JoinsAsOneself ==
    [](part = "join" => IdentityWhole /\ RecordsOwnSave) /\ ConnectsAsAuthenticated

\* Results go to the VM that asked, which the hooks follow (ScriptCalls).
CallsReachTheAsker == [](part = "calls" => LifecycleFollowsTheVm) /\ ResultsGoToTheAsker

\* The list is sorted, takes answers whole, and is joined by what it shows
\* (ServerBrowser).
BrowserSound == [](part = "list" => ListIsSorted) /\ BrowserAnswers

\* A request that the scripts wait for is answered: a join's, a self-auth's
\* (ServerJoin), and one for the list (ServerBrowser).
EveryRequestEnds == RequestsEnd /\ ListRequestsEnd

-----------------------------------------------------------------------------
(* Inputs: servers as the list gives them, with those that are malformed. *)
Server(id, players, lacks) == [id |-> id, players |-> players, lacks |-> lacks]
MCItems == {Server("A", 1, "nothing"), Server("A", 3, "region"), Server("B", 2, "nothing"),
            Server("C", 2, "map"), Server("", 0, "brace")}

=============================================================================
