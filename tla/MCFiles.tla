------------------------------- MODULE MCFiles -------------------------------
(***************************************************************************)
(* The files the game reads and scripts write, with the mods behind them.  *)
(* The components share no state, so in a behaviour one of them runs and   *)
(* the others stay where they start.  MCFiles gives the mods and archives. *)
(***************************************************************************)
EXTENDS SaveFiles, ModSet, RpakReader, Rpaks, ServedFiles

VARIABLE part        \* the component that runs

filesVars == <<part, saveVars, modVars, rpakFileVars, rpaksVars, servedVars>>

\* Of a component that stays, one initial state is enough.
FilesInit ==
    /\ part \in {"saves", "mods", "archive", "rpaks", "refusals", "served"}
    /\ SaveFilesInit /\ RpaksInit
    /\ IF part = "mods" THEN ModSetInit
       ELSE /\ settings = CHOOSE s \in FirstSettings : TRUE
            /\ ModSetInit
    /\ IF part = "archive" THEN RpakFileInit
       ELSE /\ archive = CHOOSE a \in PakFiles : TRUE
            /\ RpakFileInit
    /\ IF part = "served" THEN ServedInit
       ELSE served = [file |-> "pdef", reads |-> 0, failures |-> 0] /\ ServedInit

\* Two threads ask once each for paks with a rule, while the hook is installed at
\* both sites and the worker loads in order; or one of them asks twice, for any
\* pak, whatever the hook and the loader need may be refused, and the worker loads
\* in any order.
FirstThread == CHOOSE t \in PakThreads : TRUE
OnceEach ==
    /\ refusals' = 0 /\ unrestored' = {}
    /\ install' \notin {"siteB", "refused"} /\ (install' = "sites" => patched' = Sites)
    /\ \A i \in 1..Len(table') - 1 : table'[i].state = 1 => table'[i + 1].state = 1
    /\ \A t \in PakThreads : /\ thread'[t].request.name # "d"
                            /\ thread[t].at = "idle" /\ thread'[t].at # "idle" =>
                                  (t = FirstThread <=> requested.count = 0)
OneThreadAsks == \A t \in PakThreads \ {FirstThread} : thread'[t] = thread[t]

FilesNext ==
    /\ UNCHANGED part
    /\ IF part = "saves" THEN SaveFilesNext ELSE UNCHANGED saveVars
    /\ IF part = "mods" THEN ModSetNext ELSE UNCHANGED modVars
    /\ IF part = "archive" THEN RpakFileNext ELSE UNCHANGED rpakFileVars
    /\ IF part = "rpaks" THEN RpaksNext /\ OnceEach
       ELSE IF part = "refusals" THEN RpaksNext /\ OneThreadAsks
       ELSE UNCHANGED rpaksVars
    /\ IF part = "served" THEN ServedNext ELSE UNCHANGED servedVars

FilesSpec == FilesInit /\ [][FilesNext]_filesVars

-----------------------------------------------------------------------------
(* Properties are asked of the component that runs. *)
FilesTypeOK ==
    /\ part = "saves" => SaveFilesTypeOK
    /\ part = "mods" => ModSetTypeOK
    /\ part = "archive" => RpakFileTypeOK
    /\ part \in {"rpaks", "refusals"} => RpaksTypeOK
    /\ part = "served" => ServedTypeOK

\* What scripts may rely on of their files (SaveFiles).
ScriptFilesKept == [](part = "saves" => SavesInvariant) /\ LoadsAreWhole

\* What is made from the mods is made from the same mods, with the switches the
\* menus asked for (ModSet).
ModsAgree == [](part = "mods" => ModsInvariant) /\ TogglesAreKept

\* The engine is given only archives whose tables are inside their file, and
\* loads each of them once, behind what it follows (RpakReader, Rpaks).
ArchivesSound ==
    /\ [](part = "archive" => ArchiveHeld)
    /\ [](part \in {"rpaks", "refusals"} => RpaksInvariant) /\ OverdueIsLoaded

\* What the engine reads is the file of the mods enabled now, and of the size
\* it was told (ServedFiles).
ReadsAreServed == part = "served" => ServedSound

-----------------------------------------------------------------------------
(* Inputs *)

MCRequests == {<<"a">>, <<"d", "a">>, <<"d", "..", "..", "n", "a">>}

\* Two mods that ship a script each lists, one with a path that climbs, and an
\* older copy of one of them from a server.
Script(path, when) == [path |-> path, when |-> when]
Mod(name, version, folder, priority, remote, scripts, vpk) ==
    [name |-> name, version |-> version, folder |-> folder, priority |-> priority, remote |-> remote,
     scripts |-> scripts, vpk |-> vpk]
MCMods ==
    {Mod("A", "1", 1, 0, FALSE, <<Script(<<"x">>, "UI"), Script(<<"y">>, "UI"), Script(<<"x">>, "CLIENT")>>, TRUE),
     Mod("B", "1", 2, 1, FALSE, <<Script(<<"x">>, "SERVER"), Script(<<"..", "x">>, "UI")>>, TRUE),
     Mod("A", "2", 3, 0, TRUE, <<Script(<<"x">>, "UI")>>, FALSE)}
MCSettings == {[n \in {"A", "B"} |-> Legacy("none")],
               [n \in {"A", "B"} |-> IF n = "A" THEN Legacy("off") ELSE Legacy("none")]}

\* Archives whose claims fit, or lead out of the file by a little or by far.
MCAssets == [type : {"texture"}, page : 0..1, offset : {0, 1, 15}, head : {1, 2, 14}, marker : {"ps4"}]
            \cup [type : {"material"}, page : {0}, offset : {0}, head : {0}, marker : {"none"}]
            \cup [type : {"texture"}, page : {0}, offset : {0}, head : {2}, marker : {"pc"}]
MCPakFiles ==
    [size : {0, 3, 5, 9, 12}, header : {"rpak 7"}, flags : {0, 1}, patches : {0}, paths : {0},
     terminated : {TRUE}, streams : {<<>>}, slabs : {0, 15}, pages : {<<>>, <<2>>, <<2, 4>>, <<15, 3>>},
     pointers : {0, 1, 14}, assets : {<<>>} \cup {<<x>> : x \in MCAssets}, uses : {0, 13}, dependents : {0}]
    \cup
    [size : {3, 9}, header : {"rpak 7", "other"}, flags : {0}, patches : {0, 1}, paths : {0, 2},
     terminated : BOOLEAN, streams : {<<>>, <<[name |-> "s", escapes |-> TRUE]>>}, slabs : {0},
     pages : {<<2>>}, pointers : {0}, assets : {<<x>> : x \in MCAssets}, uses : {0}, dependents : {0, 1}]

\* A mod with a pak before and one behind common, an alias, and a stream of its
\* own beside one of the game's; and a mod that takes the alias for the first
\* one's own pak, with a pak that follows it and one without a rule.
Archive(type, marker, streams) ==
    [size |-> 12, header |-> "rpak 7", flags |-> 0, patches |-> 0, paths |-> 0, terminated |-> TRUE,
     streams |-> streams, slabs |-> 0, pages |-> <<3>>, pointers |-> 0,
     assets |-> <<[type |-> type, page |-> 0, offset |-> 0, head |-> 2, marker |-> marker]>>,
     uses |-> 0, dependents |-> 0]
MCRpakMods ==
    << [config |-> "usable", preload |-> {"b"}, postload |-> ("a" :> "common"),
        aliases |-> << [from |-> "mp", to |-> "common"] >>, files |-> {"s"},
        paks |-> << [name |-> "a", archive |-> Archive("material", "none",
                         << [name |-> "s", escapes |-> FALSE], [name |-> "g", escapes |-> FALSE] >>)],
                    [name |-> "b", archive |-> Archive("texture", "ps4", <<>>)] >>],
       [config |-> "usable", preload |-> {}, postload |-> ("c" :> "a"),
        aliases |-> << [from |-> "mp", to |-> "a"] >>, files |-> {},
        paks |-> << [name |-> "c", archive |-> Archive("texture", "ps4", <<>>)],
                    [name |-> "d", archive |-> Archive("material", "none", <<>>)] >>] >>

\* Both sets of mods patch a KeyValues file; the second makes no particles.
MCPatched == << {"kv"}, {"kv"} >>
MCUsable == << {"pdef", "particles", "kv"}, {"pdef", "kv"} >>

=============================================================================
