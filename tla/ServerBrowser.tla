---------------------------- MODULE ServerBrowser ----------------------------
(***************************************************************************)
(* The server browser: a worker fetches Atlas's list into variables it     *)
(* owns while fetchState says so, and hands them over; the UI thread takes *)
(* them in whatever native its script calls next, merges them into the     *)
(* list it has, and joins servers by their place in it.                     *)
(***************************************************************************)
EXTENDS Integers, FiniteSets, SequencesExt, Lists

CONSTANTS
    Items,         \* elements of the array: objects, and text that is none
    MaxItems,      \* bound: elements of an answer
    MaxListRequests    \* bound: requests

(* An object may lack a member; only the region can be missing. *)
Object(item) == item.lacks # "brace"
WellFormed(item) == item.lacks \in {"nothing", "region"}
ASSUME BrowserAssumption ==
    /\ MaxItems \in Nat /\ MaxListRequests \in Nat
    /\ \A i \in Items : i.players \in Nat /\ i.id \in STRING
                        /\ i.lacks \in {"nothing", "region", "map", "brace"}

VARIABLES
    fetchState,    \* fetchState
    fetched,       \* fetched
    fetchOk,       \* fetchOk
    listWorker,        \* where ServerListWorker is, and the answer it got
    servers,       \* servers
    reachable,     \* fetchAttempted and lastFetchOk
    shown,         \* what GameServers last gave the script
    current,       \* history: nothing was asked for since, or is under way
    joined,        \* joinServerId, and the place the script asked for
    listRequests       \* requests made

browserVars == <<fetchState, fetched, fetchOk, listWorker, servers, reachable, shown, current, joined, listRequests>>

Answers == {[got |-> FALSE, root |-> "", items |-> <<>>, closed |-> FALSE],
            [got |-> TRUE, root |-> "{", items |-> <<>>, closed |-> TRUE]}
           \cup [got: {TRUE}, root: {"["}, items: BoundedSeq(Items, MaxItems), closed: BOOLEAN]
NoAnswer == CHOOSE a \in Answers : ~a.got
Servers == {i \in Items : WellFormed(i)}

BrowserTypeOK ==
    /\ fetchState \in {"idle", "requesting", "ready"}
    /\ fetched \in Seq(Servers) /\ fetchOk \in BOOLEAN
    /\ listWorker.at \in {"none", "started", "cleared", "answered"} /\ listWorker.answer \in Answers
    /\ servers \in Seq(Servers) /\ reachable \in {"unknown", "yes", "no"} /\ shown \in Seq(Servers)
    /\ current \in BOOLEAN /\ joined.id \in {i.id : i \in Items} \cup {""} /\ listRequests \in 0..MaxListRequests

BrowserInit ==
    /\ fetchState = "idle" /\ fetched = <<>> /\ fetchOk = FALSE
    /\ listWorker = [at |-> "none", answer |-> NoAnswer]
    /\ servers = <<>> /\ reachable = "unknown" /\ shown = <<>> /\ current = TRUE
    /\ joined = [id |-> "", place |-> 0] /\ listRequests = 0

----------------------------------------------------------------------------
(* ParseServerList: malformed objects are skipped, a broken array fails.      *)
Parses(a) ==
    a.got /\ a.root = "[" /\ a.closed /\ \A n \in DOMAIN a.items : Object(a.items[n])
Parsed(a) == IF Parses(a) THEN Only(a.items, Servers) ELSE <<>>

(* MergeServerList: known ids are replaced in place, others appended; then a  *)
(* stable sort by players, most first.                                       *)
PlaceOf(s, list) == CHOOSE n \in 1..(Len(list) + 1) :
                        /\ n > Len(list) \/ list[n].id = s.id
                        /\ \A m \in 1..(n - 1) : list[m].id # s.id
PutServer(list, s) == IF PlaceOf(s, list) > Len(list) THEN Append(list, s)
                 ELSE [list EXCEPT ![PlaceOf(s, list)] = s]
PutServers(list, incoming) ==
    LET put[n \in 0..Len(incoming)] ==
            IF n = 0 THEN list ELSE PutServer(put[n - 1], incoming[n])
    IN  put[Len(incoming)]
SortIn(list, s) == LET more == Cardinality({n \in DOMAIN list : list[n].players >= s.players}) IN
                   SubSeq(list, 1, more) \o <<s>> \o SubSeq(list, more + 1, Len(list))
Sorted(list) ==
    LET upTo[n \in 0..Len(list)] == IF n = 0 THEN <<>> ELSE SortIn(upTo[n - 1], list[n])
    IN  upTo[Len(list)]
(* A plausible bug: the answer is appended to the list.                        *)
AppendServerList(into, incoming) == Sorted(into \o incoming)
MergeServerList(into, incoming) == Sorted(PutServers(into, incoming))

----------------------------------------------------------------------------
(* ServerListWorker. *)
WorkerClears ==
    /\ listWorker.at = "started" /\ listWorker' = [listWorker EXCEPT !.at = "cleared"]
    /\ fetched' = <<>> /\ fetchOk' = FALSE
    /\ UNCHANGED <<fetchState, servers, reachable, shown, current, joined, listRequests>>
WorkerParses(a) ==
    /\ listWorker.at = "cleared" /\ listWorker' = [at |-> "answered", answer |-> a]
    /\ fetched' = Parsed(a) /\ fetchOk' = Parses(a)
    /\ UNCHANGED <<fetchState, servers, reachable, shown, current, joined, listRequests>>
WorkerHandsOver ==
    /\ listWorker.at = "answered" /\ listWorker' = [listWorker EXCEPT !.at = "none"]
    /\ fetchState' = "ready"
    /\ UNCHANGED <<fetched, fetchOk, servers, reachable, shown, current, joined, listRequests>>

(* PublishFetchedServers, with which every native begins. *)
Taken == fetchState = "ready"
ListNow == IF Taken /\ fetchOk THEN MergeServerList(servers, fetched) ELSE servers
StateNow == IF Taken THEN "idle" ELSE fetchState
PublishFetchedServers ==
    /\ reachable' = IF Taken THEN (IF fetchOk THEN "yes" ELSE "no") ELSE reachable
    /\ IF Taken THEN fetched' = <<>> ELSE UNCHANGED fetched

(* A request that cannot start is handed over as failed. *)
RequestServers(starts) ==
    /\ servers' = ListNow
    /\ current' = FALSE
    /\ UNCHANGED <<shown, joined>>
    /\ IF StateNow # "idle"
       THEN /\ PublishFetchedServers
            /\ UNCHANGED <<fetchState, fetchOk, listWorker, listRequests>>
       ELSE /\ PublishFetchedServers
            /\ listRequests < MaxListRequests /\ listRequests' = listRequests + 1
            /\ IF starts
               THEN /\ fetchState' = "requesting" /\ listWorker' = [listWorker EXCEPT !.at = "started"]
                    /\ UNCHANGED fetchOk
               ELSE fetchState' = "ready" /\ fetchOk' = FALSE /\ UNCHANGED listWorker

(* IsRequestingServers, MasterServerReachable and ServerCount. *)
PollList ==
    /\ Taken /\ PublishFetchedServers
    /\ servers' = ListNow /\ fetchState' = "idle"
    /\ UNCHANGED <<fetchOk, listWorker, shown, current, joined, listRequests>>

ClearServers ==
    /\ PublishFetchedServers
    /\ servers' = <<>> /\ fetchState' = StateNow /\ current' = FALSE
    /\ UNCHANGED <<fetchOk, listWorker, shown, joined, listRequests>>

ListGiven == ListNow
GameServers ==
    /\ PublishFetchedServers
    /\ servers' = ListNow /\ fetchState' = StateNow /\ shown' = ListGiven
    /\ current' = (StateNow = "idle")
    /\ UNCHANGED <<fetchOk, listWorker, joined, listRequests>>

TryRemoteAuth(place) ==
    /\ PublishFetchedServers
    /\ servers' = ListNow /\ fetchState' = StateNow
    /\ place \in DOMAIN ListNow
    /\ joined' = [id |-> ListNow[place].id, place |-> place]
    /\ UNCHANGED <<fetchOk, listWorker, shown, current, listRequests>>

BrowserNext ==
    \/ WorkerClears \/ WorkerHandsOver \/ \E a \in Answers : WorkerParses(a)
    \/ \E ok \in BOOLEAN : RequestServers(ok)
    \/ PollList \/ ClearServers \/ GameServers
    \/ \E n \in 1..Len(ListNow) : TryRemoteAuth(n)
WorkerSteps == WorkerClears \/ WorkerHandsOver \/ \E a \in Answers : WorkerParses(a)
(* Requests end at their timeouts, and the script asks every frame whether.   *)
BrowserSpec == BrowserInit /\ [][BrowserNext]_browserVars
               /\ WF_browserVars(WorkerSteps) /\ WF_browserVars(PollList)

----------------------------------------------------------------------------
Listed(list) == {list[n] : n \in 1..Len(list)}

(* The list has every server once, the fullest first. *)
ListIsSorted ==
    \A m, n \in 1..Len(servers) : m < n =>
        servers[m].id # servers[n].id /\ servers[m].players >= servers[n].players

(* A server of a good answer is listed as that answer has it (its last       *)
(* object, when it has several), others stay, and a bad answer changes         *)
(* nothing, although the worker and the UI share `fetched` without a lock.     *)
TakesWhole ==
    Taken /\ (PollList \/ GameServers) =>
        LET new == Parsed(listWorker.answer)
            NewOf(id) == {n \in 1..Len(new) : new[n].id = id}
        IN IF fetchOk
           THEN Listed(servers') = {new[n] : n \in {k \in 1..Len(new) : \A m \in NewOf(new[k].id) : m <= k}}
                                   \cup {s \in Listed(servers) : NewOf(s.id) = {}}
           ELSE servers' = servers
AnswersAreTakenWhole == [][TakesWhole]_browserVars

(* A join by place goes to the server shown there, unless the script has      *)
(* asked for a refresh since, which may reorder the list underneath it.        *)
JoinsTheServerShown ==
    [][\A n \in DOMAIN shown : TryRemoteAuth(n) /\ current => joined'.id = shown[n].id]_browserVars

(* What the browser's script relies on, and that a request always ends.        *)
BrowserAnswers == AnswersAreTakenWhole /\ JoinsTheServerShown
ListRequestsEnd == (fetchState = "requesting") ~> (fetchState = "idle")

=============================================================================
