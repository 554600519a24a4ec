---------------------------- MODULE ScriptCalls ----------------------------
(***************************************************************************)
(* The script VMs and the results that reach them later. The engine makes  *)
(* and releases a VM per context; the runtime's hooks bind it, run the     *)
(* mods' callbacks and clean up. Script HTTP requests end on threads of    *)
(* their own and queue a message for the context, valid for one generation *)
(* of it; save-file loads queue a result under the VM's address. The host  *)
(* frame drains both. Addresses are reused by later VMs.                   *)
(***************************************************************************)
EXTENDS Naturals, Sequences, FiniteSets

CONSTANTS
    Contexts,      \* script contexts, among "SERVER", "CLIENT" and "UI"
    Addresses,     \* where the allocator may put a VM
    NoVm,
    MaxLives,      \* bound: VMs made
    MaxHandles     \* bound: requests and loads

ASSUME ScriptAssumption ==
    /\ Contexts \subseteq {"SERVER", "CLIENT", "UI"} /\ NoVm \notin Addresses
    /\ MaxLives \in Nat /\ MaxHandles \in Nat

VARIABLES
    vm,          \* the engine's VM of each context: where, which, natives registered
    lives,       \* how many VMs were made
    hook,        \* the SERVER hooks: untried, installed or given up
    binding,     \* g_squirrelHelperBindings: the VM of each context
    lifecycle,   \* owner and started of each VmLifecycle
    modInits,    \* history: how often each context's VM ran the mods' init callbacks
    generation,  \* g_asyncGenerations
    queue,       \* g_asyncQueues
    http,        \* script HTTP requests under way
    loads,       \* pendingLoads; their order is left out
    handles,     \* g_lastHttpHandle and lastLoadHandle
    refused      \* history: the SERVER's callback metadata was rejected

scriptCallsVars == <<vm, lives, hook, binding, lifecycle, modInits, generation, queue, http, loads,
          handles, refused>>
callVars == <<generation, queue, http, loads, handles>>

NoLife == [at |-> NoVm, life |-> 0, ready |-> FALSE]
Life == [at: Addresses, life: 1..MaxLives, ready: BOOLEAN]
Result == [context: Contexts, handle: 1..MaxHandles, life: 1..MaxLives,
           generation: Nat, at: Addresses]

ScriptCallsTypeOK ==
    /\ vm \in [Contexts -> Life \cup {NoLife}] /\ lives \in 0..MaxLives
    /\ hook \in {"untried", "installed", "exhausted"}
    /\ binding \in [Contexts -> Addresses \cup {NoVm}]
    /\ lifecycle \in [Contexts -> [owner: Addresses \cup {NoVm}, started: BOOLEAN]]
    /\ modInits \in [Contexts -> Nat] /\ generation \in [Contexts -> Nat]
    /\ queue \in [Contexts -> Seq(Result)] /\ http \subseteq Result /\ loads \subseteq Result
    /\ handles \in 0..MaxHandles /\ refused \in BOOLEAN

NoOwner == [owner |-> NoVm, started |-> FALSE]
ScriptCallsInit ==
    /\ vm = [c \in Contexts |-> NoLife] /\ lives = 0
    /\ hook = "untried"
    /\ binding = [c \in Contexts |-> NoVm]
    /\ lifecycle = [c \in Contexts |-> NoOwner]
    /\ modInits = [c \in Contexts |-> 0]
    /\ generation = [c \in Contexts |-> 0] /\ queue = [c \in Contexts |-> <<>>]
    /\ http = {} /\ loads = {} /\ handles = 0 /\ refused = FALSE

Occupied == {vm[c].at : c \in Contexts} \ {NoVm}
Elements(s) == {s[i] : i \in 1..Len(s)}

----------------------------------------------------------------------------
(* Making and releasing VMs, on the main thread.                            *)

(* TryInstallServerVm: server.prx is found, and fits or does not. *)
TryInstallServerVm ==
    /\ hook = "untried" /\ hook' \in {"installed", "exhausted"}
    /\ UNCHANGED <<vm, lives, binding, lifecycle, modInits, refused, callVars>>

(* ResetAsyncCalls: what is queued is dropped, what is under way outdated.  *)
ResetAsyncCalls(c) ==
    /\ queue' = [queue EXCEPT ![c] = <<>>]
    /\ generation' = [generation EXCEPT ![c] = @ + 1]

Made(c, a, ready) == /\ lives < MaxLives /\ lives' = lives + 1
                     /\ vm[c] = NoLife /\ a \notin Occupied
                     /\ vm' = [vm EXCEPT ![c] = [at |-> a, life |-> lives + 1, ready |-> ready]]
                     /\ modInits' = [modInits EXCEPT ![c] = 0]

(* RuntimeVmInit: constants, init scripts or natives may fail; the VM is    *)
(* bound all the same, and cleaned up when the engine releases it.           *)
RuntimeVmInit(c, a, succeeds) ==
    /\ c # "SERVER" /\ Made(c, a, succeeds)
    /\ ResetAsyncCalls(c)
    /\ binding' = [binding EXCEPT ![c] = a]
    /\ lifecycle' = [lifecycle EXCEPT ![c] = [owner |-> a, started |-> FALSE]]
    /\ UNCHANGED <<hook, refused, http, loads, handles>>

(* RuntimeServerVmInit: nothing is done for a VM that is made before the     *)
(* hooks or that the engine could not initialize; rejected metadata leaves  *)
(* it bound without an owner.                                                *)
UnhookedServerVm(a) ==
    /\ Made("SERVER", a, FALSE)
    /\ UNCHANGED <<hook, binding, lifecycle, refused, callVars>>
RuntimeServerVmInit(a, metadataRead, succeeds) ==
    /\ hook = "installed" /\ Made("SERVER", a, metadataRead /\ succeeds)
    /\ ResetAsyncCalls("SERVER")
    /\ binding' = [binding EXCEPT !["SERVER"] = a]
    /\ lifecycle' = [lifecycle EXCEPT !["SERVER"] =
                        [owner |-> IF metadataRead THEN a ELSE NoVm, started |-> FALSE]]
    /\ refused' = (refused \/ ~metadataRead)
    /\ UNCHANGED <<hook, http, loads, handles>>

(* DispatchLifecycle and RuntimeServerMapSpawn: the mods' Before and After   *)
(* callbacks around the game's own; on the SERVER once per VM. The client    *)
(* contexts also deliver their VM's loads here.                              *)
LoadsOf(a) == {l \in loads : l.at = a}
(* A plausible bug: the first pending load stays, whoever asked for it.       *)
LoadsButTheFirst(a) == {l \in loads : l.at # a \/ \A k \in loads : l.handle <= k.handle}
LoadsBut(a) == {l \in loads : l.at # a}
RunsMods(c) ==
    c = "SERVER" => lifecycle[c].owner = vm[c].at /\ ~lifecycle[c].started
InitCallback(c) ==
    /\ vm[c].ready /\ modInits[c] < 2
    /\ IF RunsMods(c)
       THEN /\ lifecycle' = [lifecycle EXCEPT ![c].started = TRUE]
            /\ modInits' = [modInits EXCEPT ![c] = @ + 1]
       ELSE UNCHANGED <<lifecycle, modInits>>
    /\ loads' = IF c = "SERVER" THEN loads ELSE LoadsBut(vm[c].at)
    /\ UNCHANGED <<vm, lives, hook, binding, generation, queue, http, handles, refused>>

(* RuntimeUiDestroy, RuntimeServerDestroy: Destroy callbacks, then every     *)
(* trace of the VM; an owner the hooks do not know is only released.         *)
DropPendingLoads(a) == loads' = LoadsBut(a)
Unbound(a) == [c \in Contexts |-> IF binding[c] = a THEN NoVm ELSE binding[c]]
Release(c) ==
    /\ vm[c] # NoLife
    /\ vm' = [vm EXCEPT ![c] = NoLife]
    /\ IF lifecycle[c].owner = vm[c].at
       THEN /\ ResetAsyncCalls(c)
            /\ binding' = Unbound(vm[c].at)
            /\ DropPendingLoads(vm[c].at)
            /\ lifecycle' = [lifecycle EXCEPT ![c] = NoOwner]
       ELSE UNCHANGED <<generation, queue, binding, loads, lifecycle>>
    /\ UNCHANGED <<lives, hook, modInits, http, handles, refused>>

----------------------------------------------------------------------------
(* Requests of scripts, and their results.                                  *)

Asked(c) == [context |-> c, handle |-> handles + 1, life |-> vm[c].life,
             generation |-> generation[c], at |-> vm[c].at]
Asks(c) == vm[c].ready /\ handles < MaxHandles /\ handles' = handles + 1

(* MakeScriptHttpRequest: a thread that cannot start is answered with -1.    *)
MakeScriptHttpRequest(c) ==
    /\ Asks(c)
    /\ http' \in {http, http \cup {Asked(c)}}
    /\ UNCHANGED <<vm, lives, hook, binding, lifecycle, modInits, generation, queue, loads, refused>>

(* LoadFile: read at once, delivered later.                                  *)
LoadFile(c) ==
    /\ Asks(c)
    /\ loads' = loads \cup {Asked(c)}
    /\ UNCHANGED <<vm, lives, hook, binding, lifecycle, modInits, generation, queue, http, refused>>

(* ScriptHttpWorker: every outcome of the request queues one message, which *)
(* QueueAsyncMessage drops when the context has a later generation.          *)
(* A plausible bug: results of an earlier VM are queued.                     *)
AnyGeneration(m) == TRUE
CurrentGeneration(m) == generation[m.context] = m.generation
ScriptHttpWorker(m) ==
    /\ m \in http /\ http' = http \ {m}
    /\ queue' = IF CurrentGeneration(m) THEN [queue EXCEPT ![m.context] = Append(@, m)] ELSE queue
    /\ UNCHANGED <<vm, lives, hook, binding, lifecycle, modInits, generation, loads, handles, refused>>

(* RuntimeHostFrameUpdate for one context: DrainPendingLoadsForVm, then      *)
(* RunAsyncCalls (which scripts may also call themselves).                   *)
Drained(c) == LoadsOf(binding[c]) \cup Elements(queue[c])
DrainContext(c) ==
    /\ binding[c] # NoVm /\ Drained(c) # {}
    /\ loads' = LoadsBut(binding[c])
    /\ queue' = [queue EXCEPT ![c] = <<>>]
    /\ UNCHANGED <<vm, lives, hook, binding, lifecycle, modInits, generation, http, handles, refused>>

ScriptCallsNext ==
    \/ TryInstallServerVm
    \/ \E c \in Contexts, a \in Addresses, ok \in BOOLEAN : RuntimeVmInit(c, a, ok)
    \/ \E a \in Addresses : "SERVER" \in Contexts /\ UnhookedServerVm(a)
    \/ \E a \in Addresses, read, ok \in BOOLEAN :
          "SERVER" \in Contexts /\ RuntimeServerVmInit(a, read, ok)
    \/ \E c \in Contexts : InitCallback(c) \/ Release(c) \/ DrainContext(c)
    \/ \E c \in Contexts : MakeScriptHttpRequest(c) \/ LoadFile(c)
    \/ \E m \in http : ScriptHttpWorker(m)

(* Requests end at their timeouts, and frames keep coming.                   *)
ScriptCallsSpec == /\ ScriptCallsInit /\ [][ScriptCallsNext]_scriptCallsVars
        /\ \A h \in 1..MaxHandles : WF_scriptCallsVars(\E m \in http : m.handle = h /\ ScriptHttpWorker(m))
        /\ \A c \in Contexts : WF_scriptCallsVars(DrainContext(c))

----------------------------------------------------------------------------
Outstanding == http \cup loads \cup UNION {Elements(queue[c]) : c \in Contexts}
Alive(m) == vm[m.context].life = m.life
(* The VM the engine has at an address. *)
LifeAt(a) == IF \E c \in Contexts : vm[c].at = a /\ a # NoVm
             THEN vm[CHOOSE c \in Contexts : vm[c].at = a].life ELSE 0

(* A result is called into the VM that asked for it and no other, whatever   *)
(* VM has its context or its address by then; and it is not dropped while    *)
(* that VM is there (QueueAsyncMessage, DrainPendingLoadsForVm,              *)
(* DropPendingLoads, ResetAsyncCalls).                                       *)
GoToTheAsker ==
    /\ \A c \in Contexts : DrainContext(c) =>
          \A m \in Drained(c) : LifeAt(binding[c]) = m.life
    /\ \A c \in Contexts : InitCallback(c) /\ c # "SERVER" =>
          \A m \in LoadsOf(vm[c].at) : vm[c].life = m.life
    /\ \A m \in Outstanding : Alive(m) /\ Alive(m)' =>
          m \in Outstanding' \/ \E c \in Contexts : DrainContext(c) \/ InitCallback(c)
ResultsGoToTheAsker == [][GoToTheAsker]_scriptCallsVars

(* What the hooks keep follows the engine's VMs: calls for a VM go to the     *)
(* module SquirrelHelperBase finds by its address, so no binding may outlive  *)
(* its VM (metadata that RuntimeServerVmInit rejects does leave one behind);  *)
(* and the SERVER's mods are initialized once per VM, re-entry or not.        *)
LifecycleFollowsTheVm ==
    /\ ~refused => \A c \in Contexts : binding[c] # NoVm => vm[c].at = binding[c]
    /\ "SERVER" \in Contexts => modInits["SERVER"] <= 1

(* A result arrives while its VM lives.                                      *)
ResultsArrive ==
    \A h \in 1..MaxHandles :
        (\E m \in Outstanding : m.handle = h /\ Alive(m)) ~>
            ~(\E m \in Outstanding : m.handle = h /\ Alive(m))

=============================================================================
