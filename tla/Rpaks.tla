------------------------------- MODULE Rpaks --------------------------------
(***************************************************************************)
(* The paks of mods and the game's pak loader (runtime_rpaks.inl).  The    *)
(* launcher finds the loadable paks of the enabled mods, rewrites the two  *)
(* call sites of the game's loader, and from then on loads each mod's pak  *)
(* behind the engine's request for the pak it follows.  The hook may come  *)
(* after the engine's first requests, so the loader's table says which mod *)
(* paks are overdue.                                                       *)
(*                                                                         *)
(* A request is the directory of a mod, or Game, with a file name.  The    *)
(* loader and its worker are the game's: a request is given a handle, or   *)
(* none, and a table entry which the worker later finishes.                *)
(***************************************************************************)
EXTENDS RpakFile

CONSTANTS
    PakThreads,        \* the engine's threads that request paks
    RpakMods,          \* the enabled mods with paks, in discovery order: a
                       \* sequence of [config, preload, postload, aliases, files, paks]
    GamePaks,          \* the names of the paks the game has
    Wanted,            \* the names the engine requests
    Commons,           \* common.rpak, the pak Preload paks wait for
    MaxPakRequests,    \* bound on the engine's requests
    MaxPakRefusals     \* bound on the requests the loader refuses

\* Mods and paks are counted, and a directory holds a name once.
ASSUME RpakModsAssumption ==
    /\ DOMAIN RpakMods \subseteq Nat
    /\ \A i \in DOMAIN RpakMods :
         /\ DOMAIN RpakMods[i].paks \subseteq Nat
         /\ \A j, k \in DOMAIN RpakMods[i].paks :
              RpakMods[i].paks[j].name = RpakMods[i].paks[k].name => j = k

Game == 0                                 \* where mods count from 1
Unset == -1                               \* kInvalidPakHandle
Sites == {1, 2}                           \* the loader's two call sites
Bare(n) == [dir |-> Game, name |-> n]

VARIABLES
    found,      \* g_modRpaks without the handles, g_modStarpaks, g_rpakAliases, g_modPaksByName
    handle,     \* the handle of each pak of found.paks, by its place
    install,    \* how far InstallModRpakHook is
    patched,    \* the call sites that reach the hook
    unrestored, \* history: those of them whose page did not take its protection back
    streamHook, \* the worker's stream open reaches ModOpenRtechStarpak
    original,   \* g_originalLoadPak is set
    base,       \* g_rtechBase is set
    hookReady,  \* g_modRpakHookReady
    table,      \* the loader's pak table
    loading,    \* g_loadingModRpaks
    thread,     \* per engine thread, the request it makes and how far it is
    requested,  \* the number of requests made; history: the names asked of the
                \* loader, and those the hook was called with
    refusals    \* the requests the loader refused

rpaksVars == <<found, handle, install, patched, unrestored, streamHook, original, base, hookReady,
               table, loading, thread, requested, refusals>>
hookVars == <<found, install, patched, unrestored, streamHook, original, base, hookReady>>

-----------------------------------------------------------------------------
(* Discovery *)

\* A pak of a mod by its place: the mod's number in discovery order, and the
\* pak's among the mod's, which are sorted by name.
Paks == UNION {{i} \X DOMAIN RpakMods[i].paks : i \in DOMAIN RpakMods}
Pak(k) == RpakMods[k[1]].paks[k[2]]
Earlier(j, k) == j[1] < k[1] \/ (j[1] = k[1] /\ j[2] < k[2])

\* ModRpakRequestPath
Request(k) == [dir |-> k[1], name |-> Pak(k).name]

\* ResolveRpakRule: Preload before Postload, and neither without a usable config.
Preload(k) == RpakMods[k[1]].config # "unusable" /\ Pak(k).name \in RpakMods[k[1]].preload
Postload(k) == /\ RpakMods[k[1]].config # "unusable" /\ ~Preload(k)
               /\ Pak(k).name \in DOMAIN RpakMods[k[1]].postload
\* The pak behind which it is loaded.
After(k) == IF Preload(k) THEN Commons ELSE RpakMods[k[1]].postload[Pak(k).name]

\* A streamed pak is taken only if the mod has the file: the other names are
\* the game's own.
StreamsOf(k) == {[dir |-> k[1], name |-> r.name] : r \in
                    {q \in ToSet(Pak(k).archive.streams) : q.name \in RpakMods[k[1]].files}}

\* The paks the engine may load, those of them a rule loads, and the aliases.
Discovered ==
    LET good == {k \in Paks : Loadable(Pak(k).archive)}
    IN  [paks    |-> {k \in good : Preload(k) \/ Postload(k)},
         streams |-> UNION {StreamsOf(k) : k \in good},
         aliases |-> UNION {{i} \X DOMAIN RpakMods[i].aliases :
                              i \in {m \in DOMAIN RpakMods : RpakMods[m].config # "unusable"}},
         byName  |-> good]
NothingFound == [paks |-> {}, streams |-> {}, aliases |-> {}, byName |-> {}]

-----------------------------------------------------------------------------
(* The hook's installation: InstallModRpakHook, on the module watcher *)

DiscoverModRpaks ==
    /\ install = "waiting"
    /\ found' = Discovered
    /\ handle' = [k \in Discovered.paks |-> Unset]
    /\ IF Discovered.paks = {}
       THEN install' = "skipped" /\ UNCHANGED original
       ELSE install' = "streams" /\ original' = TRUE
    /\ UNCHANGED <<patched, unrestored, streamHook, base, hookReady, table, loading, thread, requested, refusals>>

\* What PatchRpakCallSite may do at a site: leave it and say so, rewrite it, or
\* rewrite it and report a failure, when the page's protection is not restored.
Outcomes == {[written |-> FALSE, said |-> FALSE], [written |-> TRUE, said |-> TRUE],
             [written |-> TRUE, said |-> FALSE]}

\* The stream open is rewritten first, when a mod has streams.
PatchStreamOpen ==
    /\ install = "streams"
    /\ IF found.streams = {}
       THEN install' = "siteA" /\ UNCHANGED <<streamHook, original>>
       ELSE \E o \in Outcomes :
            /\ install' = IF o.said THEN "siteA" ELSE "refused"
            /\ streamHook' = o.written /\ original' = o.said
    /\ UNCHANGED <<found, handle, patched, unrestored, base, hookReady, table, loading, thread, requested, refusals>>

\* The sites are rewritten one after the other; with neither the hook fails.
PatchCallSite(site, o) ==
    /\ patched' = IF o.written THEN patched \cup {site} ELSE patched
    /\ unrestored' = IF o.written /\ ~o.said THEN unrestored \cup {site} ELSE unrestored
PatchSites ==
    \E o \in Outcomes :
        /\ \/ /\ install = "siteA"
              /\ install' = IF o.said THEN "siteB, one" ELSE "siteB"
              /\ PatchCallSite(1, o)
              /\ UNCHANGED original
           \/ /\ install \in {"siteB", "siteB, one"}
              /\ install' = IF o.said \/ install = "siteB, one" THEN "sites" ELSE "refused"
              /\ PatchCallSite(2, o)
              /\ original' = (install' = "sites")
        /\ UNCHANGED <<found, handle, streamHook, base, hookReady, table, loading, thread, requested, refusals>>

\* The last two assignments of InstallModRpakHook.
PublishHook ==
    /\ \/ install = "sites" /\ base' = TRUE /\ install' = "based" /\ UNCHANGED hookReady
       \/ install = "based" /\ hookReady' = TRUE /\ install' = "done" /\ UNCHANGED base
    /\ UNCHANGED <<found, handle, patched, unrestored, streamHook, original, table, loading, thread, requested,
                   refusals>>

-----------------------------------------------------------------------------
(* The game's loader *)

\* The loader is given a request: a new entry and its handle, or no handle.
PakLoads(r, by) == table' = Append(table, [request |-> r, state |-> 1, by |-> by]) /\ UNCHANGED refusals
Refuses == refusals < MaxPakRefusals /\ refusals' = refusals + 1 /\ UNCHANGED table

\* The worker loads an entry (7).  One that fails (11) is to the hook as one
\* that is still loading (1).
Worker ==
    /\ \E i \in DOMAIN table : table[i].state = 1 /\ table' = [table EXCEPT ![i].state = 7]
    /\ UNCHANGED <<hookVars, handle, loading, thread, requested, refusals>>

-----------------------------------------------------------------------------
(* The hook *)

\* A thread's call of the hook.  The last two are history: what a scan set out
\* to load, and whether it met another thread's pass.
HookCall(at, r) == [at |-> at, request |-> r, due |-> {}, entry |-> 0, overdue |-> {}, turnedAway |-> FALSE]
AtRest == HookCall("idle", Bare(Commons))

\* ResolveRpakRequest: the last alias, then the first mod's pak of a name the
\* game lacks.
Alias(k) == RpakMods[k[1]].aliases[k[2]]
Aliased(n) ==
    LET hits == {k \in found.aliases : Alias(k).from = n}
    IN  IF hits = {} THEN n
        ELSE Alias(CHOOSE k \in hits : \A j \in hits \ {k} : Earlier(j, k)).to
ResolveRpakRequest(n) ==
    LET to == Aliased(n)
        own == {k \in found.byName : Pak(k).name = to}
    IN  IF own = {} \/ to \in GamePaks THEN Bare(to)
        ELSE Request(CHOOSE k \in own : \A j \in own \ {k} : Earlier(k, j))

\* The paks to load behind a request.  Paths are compared by their file names
\* (RpakNameMatches).
Due(r) == {k \in DOMAIN handle : handle[k] = Unset /\ After(k) = r.name}

\* The order of a pass: the Preload paks, then the others.
PassOrder(j, k) == IF Preload(j) = Preload(k) THEN Earlier(j, k) ELSE Preload(j)

\* LoadModRpaks up to its loop; `next` is where the caller goes on.
EnterPass(t, r, next, entry) ==
    IF \/ ~hookReady \/ found.paks = {} \/ loading
    THEN /\ thread' = [thread EXCEPT ![t] = [@ EXCEPT !.at = next, !.entry = entry,
                                                      !.turnedAway = thread[t].turnedAway \/ loading]]
         /\ UNCHANGED loading
    ELSE /\ thread' = [thread EXCEPT ![t] = [@ EXCEPT !.at = "pass", !.entry = entry, !.due = Due(r)]]
         /\ loading' = TRUE

\* The engine requests a pak through one of the call sites.  A site that is not
\* rewritten calls the loader itself.
EngineRequest(t, site, n) ==
    /\ thread[t].at = "idle" /\ requested.count < MaxPakRequests
    /\ thread' = [thread EXCEPT ![t] =
           IF site \in patched THEN HookCall("asked", ResolveRpakRequest(n)) ELSE HookCall("direct", Bare(n))]
    /\ requested' = [requested EXCEPT !.count = @ + 1, !.hooked = IF site \in patched THEN @ \cup {n} ELSE @]
    /\ UNCHANGED <<hookVars, handle, table, loading, refusals>>

\* The engine's own request, which the loader may refuse.
AskLoader(t) ==
    /\ PakLoads(thread[t].request, "engine") \/ Refuses
    /\ requested' = [requested EXCEPT !.names = @ \cup {thread[t].request.name}]

AskDirectly(t) ==
    /\ thread[t].at = "direct"
    /\ AskLoader(t)
    /\ thread' = [thread EXCEPT ![t] = AtRest]
    /\ UNCHANGED <<hookVars, handle, loading>>

\* ModLoadPakAsync makes the engine's own request first.  Without an original
\* the call jumps to null, and the game ends.
AskOriginal(t) ==
    /\ thread[t].at = "asked" /\ original
    /\ AskLoader(t)
    /\ thread' = [thread EXCEPT ![t].at = "behind"]
    /\ UNCHANGED <<hookVars, handle, loading>>

\* Then the paks that follow it ...
LoadBehind(t) ==
    /\ thread[t].at = "behind"
    /\ EnterPass(t, thread[t].request, "pending", 0)
    /\ UNCHANGED <<hookVars, handle, table, requested, refusals>>

LoadOne(t) ==
    /\ thread[t].at = "pass"
    /\ \E k \in thread[t].due :
         /\ \A j \in thread[t].due \ {k} : PassOrder(k, j)
         /\ \/ /\ PakLoads(Request(k), "mod")
               /\ handle' = [handle EXCEPT ![k] = Len(table) + 1]
            \/ Refuses /\ UNCHANGED handle
         /\ thread' = [thread EXCEPT ![t].due = @ \ {k}]
    /\ UNCHANGED <<hookVars, loading, requested>>

EndPass(t) ==
    /\ thread[t].at = "pass" /\ thread[t].due = {}
    /\ loading' = FALSE
    /\ thread' = [thread EXCEPT ![t].at = IF thread[t].entry = 0 THEN "pending" ELSE "scan"]
    /\ UNCHANGED <<hookVars, handle, table, requested, refusals>>

\* ... and, while a mod's pak is not loaded, those the table says are overdue.
Overdue == {k \in DOMAIN handle : handle[k] = Unset /\
                \E i \in DOMAIN table : table[i].state = 7 /\ table[i].request.name = After(k)}

ModRpaksPending(t) ==
    /\ thread[t].at = "pending"
    /\ thread' = IF base /\ \E k \in DOMAIN handle : handle[k] = Unset
                 THEN [thread EXCEPT ![t] = [@ EXCEPT !.at = "scan", !.entry = 1, !.turnedAway = FALSE,
                                                      !.overdue = IF hookReady THEN Overdue ELSE {}]]
                 ELSE [thread EXCEPT ![t] = AtRest]
    /\ UNCHANGED <<hookVars, handle, table, loading, requested, refusals>>

LoadOverdueModRpaks(t) ==
    /\ thread[t].at = "scan"
    /\ LET loaded == {i \in DOMAIN table : i >= thread[t].entry /\ table[i].state = 7}
           i == CHOOSE j \in loaded : \A k \in loaded : j <= k
       IN  IF loaded = {}
           THEN thread' = [thread EXCEPT ![t] = AtRest] /\ UNCHANGED loading
           ELSE EnterPass(t, table[i].request, "scan", i + 1)
    /\ UNCHANGED <<hookVars, handle, table, requested, refusals>>

HookStep(t) == \/ AskDirectly(t) \/ AskOriginal(t) \/ LoadBehind(t) \/ LoadOne(t) \/ EndPass(t)
               \/ ModRpaksPending(t) \/ LoadOverdueModRpaks(t)

RpaksInit ==
    /\ found = NothingFound /\ handle = [k \in {} |-> Unset] /\ install = "waiting"
    /\ patched = {} /\ unrestored = {}
    /\ streamHook = FALSE /\ original = FALSE /\ base = FALSE /\ hookReady = FALSE
    /\ table = <<>> /\ loading = FALSE /\ thread = [t \in PakThreads |-> AtRest]
    /\ requested = [count |-> 0, names |-> {}, hooked |-> {}] /\ refusals = 0

RpaksNext ==
    \/ DiscoverModRpaks \/ PatchStreamOpen \/ PatchSites \/ PublishHook
    \/ Worker
    \/ \E t \in PakThreads, site \in Sites, n \in Wanted : EngineRequest(t, site, n)
    \/ \E t \in PakThreads : HookStep(t)

RpaksSpec == RpaksInit /\ [][RpaksNext]_rpaksVars

-----------------------------------------------------------------------------
RpaksTypeOK ==
    /\ handle \in [found.paks -> {Unset} \cup DOMAIN table] /\ found.paks \subseteq Paks
    /\ patched \subseteq Sites /\ unrestored \subseteq patched
    /\ {streamHook, original, base, hookReady, loading} \subseteq BOOLEAN
    /\ \A i \in DOMAIN table : table[i].state \in {1, 7, 11}
    /\ \A t \in PakThreads : thread[t].at \in {"idle", "direct", "asked", "behind", "pass", "pending", "scan"}

\* A call site that reaches the hook finds the loader to go on to, at every
\* moment of the installation: but the sites whose page does not take its
\* protection back are counted as not rewritten, and when no other is left the
\* original is forgotten.
OriginalIsKnown == patched \ unrestored # {} => original

\* Whether an entry is a mod's pak that the engine asked for by its name, or by
\* an alias of it, while the game has none of that name.
AskedByName(i) ==
    \E k \in found.byName :
        /\ table[i].request = Request(k) /\ Pak(k).name \notin GamePaks
        /\ \E n \in requested.hooked : Aliased(n) = Pak(k).name

\* The passes load no pak of a mod a second time, whichever threads' meet: a
\* pak of a mod that the loader has twice, the engine itself asked for by name.
LoadedOnce ==
    \A i, j \in DOMAIN table :
        i # j /\ table[i].request = table[j].request /\ table[i].request.dir # Game =>
            \E m \in {i, j} : table[m].by = "engine" /\ AskedByName(m)

\* A mod's pak that the loader has is there by its rule, behind the pak it
\* follows: the loader was asked for that one, by the engine or, of a mod's, as
\* an earlier load.  Otherwise, and so without a rule, the engine itself asked
\* for it by name.
AfterItsParent ==
    \A i \in DOMAIN table : table[i].request.dir # Game =>
        \/ table[i].by = "engine" /\ AskedByName(i)
        \/ \E k \in DOMAIN handle :
              /\ handle[k] = i /\ table[i].request = Request(k)
              /\ \/ After(k) \in requested.names
                 \/ \E j \in 1..i - 1 : table[j].request.name = After(k)

\* Of the paks the passes load behind common.rpak the Preload paks come first:
\* their textures are in before the materials of the Postload paks.  Only the
\* loader's own refusal can leave one out.
PreloadFirst ==
    refusals = 0 =>
        \A k \in {p \in DOMAIN handle : handle[p] # Unset /\ ~Preload(p) /\ After(p) = Commons} :
            \A j \in {p \in DOMAIN handle : Preload(p)} :
                handle[j] # Unset /\ handle[j] < handle[k]

\* The streams redirected to a mod are files the mod has.
StreamsExist == \A s \in found.streams : s.name \in RpakMods[s.dir].files

RpaksInvariant == /\ OriginalIsKnown /\ LoadedOnce /\ AfterItsParent /\ PreloadFirst /\ StreamsExist

\* A scan of the table leaves nothing overdue: a pak whose parent the engine
\* had loaded before the hook came is loaded by the engine's next request, unless
\* the loader refuses it or another thread's pass is met.
OverdueIsLoaded ==
    [][\A t \in PakThreads :
         thread[t].at = "scan" /\ thread'[t].at = "idle" =>
             \/ refusals > 0 \/ thread[t].turnedAway
             \/ \A k \in thread[t].overdue : handle[k] # Unset]_rpaksVars

=============================================================================
