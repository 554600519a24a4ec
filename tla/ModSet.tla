------------------------------- MODULE ModSet -------------------------------
(***************************************************************************)
(* The set of enabled mods and what is made from it: the file overlay, the *)
(* script manifest, the list of archives. The UI's thread toggles mods and *)
(* reloads; an engine thread asks for the manifest and mounts archives      *)
(* meanwhile. Each takes the set from the settings on disk when it needs it. *)
(***************************************************************************)
EXTENDS Integers, FiniteSets, SequencesExt, Lists

CONSTANTS
    Mods,        \* the mods installed: name, version, folder, priority, remote, scripts, vpk
    FirstSettings, \* enabledmods.json before the first boot, as it may be
    MaxToggles   \* bound: toggles and boots

(* A setting of a name: none, PC's legacy switch, or a switch per version.   *)
Names == {m.name : m \in Mods}
Versions == {m.version : m \in Mods}
PerVersion == [Versions -> {"none", "on", "off"}]
Legacy(switch) == [legacy |-> switch, by |-> [v \in Versions |-> "none"]]
Settings == [Names -> [legacy: {"none", "on", "off"}, by: PerVersion]]

ASSUME ModSetAssumption ==
    /\ FirstSettings \subseteq Settings /\ MaxToggles \in Nat
    /\ IsFiniteSet(Mods)
    /\ \A m \in Mods : /\ m.priority \in Int /\ m.folder \in Nat /\ m.remote \in BOOLEAN
                       /\ m.scripts \in Seq([path: Seq(STRING), when: STRING])
    /\ \A m, n \in Mods : m # n => m.folder # n.folder \/ m.remote # n.remote

VARIABLES
    settings,    \* enabledmods.json
    reloaded,    \* g_modsReloaded
    catalog,     \* the menus' catalog, as the switches it shows; NotReady before it is loaded
    overlay,     \* g_modOverlay, as the mods it was built from, in order
    generated,   \* g_runtimeManifestGenerated
    manifest,    \* the manifest on disk, and the mods it was built from
    vpks,        \* g_modVpks
    mounting,    \* g_mountingModVpks and who holds it
    ui, reader,  \* where ReloadMods and the engine thread's ModOpenEx are
    asked,       \* history: what the menus last switched
    raced,       \* history: a reload passed a manifest that was being built
    toggles

modVars == <<settings, reloaded, catalog, overlay, generated, manifest, vpks, mounting, ui,
             reader, asked, raced, toggles>>

----------------------------------------------------------------------------
(* Which mods are enabled, and their order.                                  *)

IsModEnabled(s, m) ==
    LET v == s[m.name] IN
    IF v.legacy # "none" THEN v.legacy = "on" ELSE v.by[m.version] # "off"
ModEnabledNow(m) == (m.remote => reloaded) /\ IsModEnabled(settings, m)
Before(a, b) == \/ a.priority < b.priority
                \/ a.priority = b.priority /\ a.folder < b.folder
                \/ a.priority = b.priority /\ a.folder = b.folder /\ ~a.remote /\ b.remote
(* The one that as many are before as there are places before its own.       *)
InOrder(S) == [n \in 1..Cardinality(S) |->
                  CHOOSE m \in S : Cardinality({o \in S : Before(o, m)}) = n - 1]
(* CollectModNames: names enabled more than once are left out altogether.    *)
OnlyCopies(E) == {m \in E : \A n \in E : n.name = m.name => n = m}
CollectModNames == InOrder(OnlyCopies({m \in Mods : ModEnabledNow(m)}))

(* SetEnabledSetting: a legacy switch gives way to one per version. *)
SetEnabledSetting(s, m, on) ==
    [s EXCEPT ![m.name] = [legacy |-> "none",
                           by |-> [s[m.name].by EXCEPT ![m.version] = IF on THEN "on" ELSE "off"]]]

----------------------------------------------------------------------------
(* BuildRuntimeManifest: a block for every script of every mod in order; a    *)
(* path of an earlier mod is taken over in its place, repeats of one mod stay *)
(* together, and entries that do not name a file are skipped.                *)
NormalizeRequestedPath(path) == path # <<>> /\ \A n \in DOMAIN path : path[n] \notin {"", ".", ".."}
Block(m, s) == [path |-> s.path, when |-> s.when, mod |-> m]
ScriptsOf(m) == [n \in DOMAIN m.scripts |-> Block(m, m.scripts[n])]
ScriptBlocks == UNION {Range(ScriptsOf(m)) : m \in Mods}
At(list, path) == {n \in DOMAIN list : list[n].path = path}
(* A plausible bug: only the first entry of the other mod is taken over.       *)
OverrideFirst(list, b) == [list EXCEPT ![Min(At(list, b.path))] = b]
Override(list, b) ==
    LET first == Min(At(list, b.path)) IN
    Append(SubSeq(list, 1, first - 1), b)
        \o Only(SubSeq(list, first + 1, Len(list)), {o \in ScriptBlocks : o.path # b.path})
AddScript(list, b) ==
    IF ~NormalizeRequestedPath(b.path) THEN list
    ELSE IF At(list, b.path) = {} THEN Append(list, b)
    ELSE IF list[Min(At(list, b.path))].mod = b.mod THEN InsertAt(list, Max(At(list, b.path)) + 1, b)
    ELSE Override(list, b)
AddScripts(list, m) ==
    LET with[n \in 0..Len(m.scripts)] ==
            IF n = 0 THEN list ELSE AddScript(with[n - 1], ScriptsOf(m)[n])
    IN  with[Len(m.scripts)]
Manifest(mods) ==
    LET with[n \in 0..Len(mods)] == IF n = 0 THEN <<>> ELSE AddScripts(with[n - 1], mods[n])
    IN  with[Len(mods)]

(* FindModFileRoot: the last of the overlay's mods that ships the file. A mod *)
(* ships the scripts it lists.                                               *)
Ships(m, path) == \E n \in DOMAIN m.scripts : m.scripts[n].path = path
Shipping(mods, path) == {n \in DOMAIN mods : Ships(mods[n], path)}
Archives(mods) == Only(mods, {m \in Mods : m.vpk})

----------------------------------------------------------------------------
NotReady == [m \in {} |-> FALSE]
NoMods == <<>>
Nowhere == [pc |-> "idle", mods |-> NoMods, n |-> 1]

ModSetTypeOK ==
    /\ settings \in Settings /\ reloaded \in BOOLEAN
    /\ catalog = NotReady \/ catalog \in [Mods -> BOOLEAN]
    /\ overlay \in Seq(Mods) /\ vpks \in Seq(Mods) /\ generated \in BOOLEAN
    /\ manifest.mods \in Seq(Mods) /\ manifest.blocks = Manifest(manifest.mods)
    /\ mounting \in {"free", "ui", "reader"}
    /\ ui \in {"idle", "saved", "overlaid", "reset", "locked", "cleared", "listed"}
    /\ reader.pc \in {"idle", "mount", "ask", "build", "write", "built"}
    /\ reader.mods \in Seq(Mods) /\ reader.n \in 1..(Cardinality(Mods) + 1)
    /\ asked \in [Mods -> {"no", "on", "off"}] /\ raced \in BOOLEAN /\ toggles \in 0..MaxToggles

(* A boot: everything is built from the settings on disk. *)
Booted ==
    /\ reloaded' = FALSE /\ catalog' = NotReady
    /\ overlay' = InOrder(OnlyCopies({m \in Mods : ~m.remote /\ IsModEnabled(settings, m)}))
    /\ vpks' = Archives(overlay')
    /\ generated' = FALSE /\ mounting' = "free" /\ ui' = "idle" /\ reader' = Nowhere
ModSetInit ==
    /\ settings \in FirstSettings /\ reloaded = FALSE /\ catalog = NotReady
    /\ overlay = InOrder(OnlyCopies({m \in Mods : ~m.remote /\ IsModEnabled(settings, m)}))
    /\ vpks = Archives(overlay)
    /\ generated = FALSE /\ manifest = [mods |-> NoMods, blocks |-> <<>>]
    /\ mounting = "free" /\ ui = "idle" /\ reader = Nowhere
    /\ asked = [m \in Mods |-> "no"] /\ raced = FALSE /\ toggles = 0

Restart ==
    /\ toggles < MaxToggles /\ toggles' = toggles + 1
    /\ Booted
    /\ asked' = [m \in Mods |-> "no"] /\ UNCHANGED <<settings, manifest, raced>>

----------------------------------------------------------------------------
(* The UI's thread.                                                          *)

(* LoadCatalog shows every mod installed, with its switch. *)
LoadCatalog == IF catalog = NotReady THEN [m \in Mods |-> ModEnabledNow(m)] ELSE catalog
(* SetEnabled switches the first entry of that name and version only. *)
SameMod(m, n) == m.name = n.name /\ m.version = n.version
FirstOf(m) == CHOOSE n \in Mods : SameMod(m, n) /\ \A o \in Mods : SameMod(m, o) => o = n \/ Before(n, o)
SetEnabled(m, on) ==
    /\ ui = "idle" /\ toggles < MaxToggles /\ toggles' = toggles + 1
    /\ catalog' = [LoadCatalog EXCEPT ![FirstOf(m)] = on]
    /\ asked' = [asked EXCEPT ![m] = IF on THEN "on" ELSE "off"]
    /\ UNCHANGED <<settings, reloaded, overlay, generated, manifest, vpks, mounting, ui, reader, raced>>

(* ReloadMods: the switches are written over the settings in one rename, or   *)
(* nothing changes.                                                          *)
Written(s, shown) ==
    LET with[n \in 0..Cardinality(Mods)] ==
            IF n = 0 THEN s
            ELSE SetEnabledSetting(with[n - 1], InOrder(Mods)[n], shown[InOrder(Mods)[n]])
    IN  with[Cardinality(Mods)]
ReloadMods(commits) ==
    /\ ui = "idle" /\ catalog' = LoadCatalog
    /\ IF commits THEN settings' = Written(settings, catalog') /\ ui' = "saved"
       ELSE UNCHANGED <<settings, ui>>
    /\ UNCHANGED <<reloaded, overlay, generated, manifest, vpks, mounting, reader, asked, raced, toggles>>

UiStep(from, to) == ui = from /\ ui' = to
(* ReloadModState, as far as other threads can tell its steps. *)
ReloadSwitchesOn ==
    /\ UiStep("saved", "overlaid") /\ ~reloaded /\ reloaded' = TRUE
    /\ UNCHANGED <<settings, catalog, overlay, generated, manifest, vpks, mounting, reader, asked, raced, toggles>>
ReloadOverlay ==
    /\ \/ UiStep("overlaid", "reset")
       \/ UiStep("saved", "reset") /\ reloaded
    /\ overlay' = CollectModNames
    /\ UNCHANGED <<settings, reloaded, catalog, generated, manifest, vpks, mounting, reader, asked, raced, toggles>>
ResetManifest == generated' = FALSE
ReloadManifest ==
    /\ UiStep("reset", "locked")
    /\ ResetManifest
    /\ raced' = (raced \/ reader.pc \in {"write", "built"})
    /\ UNCHANGED <<settings, reloaded, catalog, overlay, manifest, vpks, mounting, reader, asked, toggles>>
MountsNothing == mounting = "free"
ReloadLocksVpks ==
    /\ UiStep("locked", "cleared")
    /\ MountsNothing /\ mounting' = "ui" /\ vpks' = <<>>
    /\ UNCHANGED <<settings, reloaded, catalog, overlay, generated, manifest, reader, asked, raced, toggles>>
DiscoverModVpks ==
    /\ UiStep("cleared", "listed")
    /\ vpks' = Archives(CollectModNames) /\ mounting' = "free"
    /\ UNCHANGED <<settings, reloaded, catalog, overlay, generated, manifest, reader, asked, raced, toggles>>
ReloadDone ==
    /\ UiStep("listed", "idle") /\ catalog' = NotReady
    /\ UNCHANGED <<settings, reloaded, overlay, generated, manifest, vpks, mounting, reader, asked, raced, toggles>>

----------------------------------------------------------------------------
(* The engine's thread opens scripts.rson.                                   *)

ReaderStep(from, to) == reader.pc = from /\ reader' = [reader EXCEPT !.pc = to]
(* MountModVpks mounts the list while it holds the flag, or skips it. *)
OpenManifest ==
    /\ reader.pc = "idle"
    /\ IF mounting = "free"
       THEN mounting' = "reader" /\ reader' = [Nowhere EXCEPT !.pc = "mount", !.mods = vpks]
       ELSE reader' = [Nowhere EXCEPT !.pc = "ask"] /\ UNCHANGED mounting
    /\ UNCHANGED <<settings, reloaded, catalog, overlay, generated, manifest, vpks, ui, asked, raced, toggles>>
MountVpk ==
    /\ reader.pc = "mount" /\ reader.n <= Len(vpks)
    /\ reader' = [reader EXCEPT !.n = @ + 1]
    /\ UNCHANGED <<settings, reloaded, catalog, overlay, generated, manifest, vpks, mounting, ui, asked, raced, toggles>>
MountEnds ==
    /\ reader.pc = "mount" /\ reader.n > Len(vpks)
    /\ reader' = [Nowhere EXCEPT !.pc = "ask"] /\ mounting' = "free"
    /\ UNCHANGED <<settings, reloaded, catalog, overlay, generated, manifest, vpks, ui, asked, raced, toggles>>
AskManifest ==
    /\ reader.pc = "ask"
    /\ reader' = [reader EXCEPT !.pc = IF generated THEN "idle" ELSE "build"]
    /\ UNCHANGED <<settings, reloaded, catalog, overlay, generated, manifest, vpks, mounting, ui, asked, raced, toggles>>
BuildCollects ==
    /\ reader.pc = "build" /\ reader' = [reader EXCEPT !.pc = "write", !.mods = CollectModNames]
    /\ UNCHANGED <<settings, reloaded, catalog, overlay, generated, manifest, vpks, mounting, ui, asked, raced, toggles>>
BuildWrites(succeeds) ==
    /\ reader.pc = "write"
    /\ IF succeeds
       THEN /\ manifest' = [mods |-> reader.mods, blocks |-> Manifest(reader.mods)]
            /\ ReaderStep("write", "built")
       ELSE reader' = Nowhere /\ UNCHANGED manifest
    /\ UNCHANGED <<settings, reloaded, catalog, overlay, generated, vpks, mounting, ui, asked, raced, toggles>>
BuildMarks ==
    /\ reader.pc = "built" /\ reader' = Nowhere /\ generated' = TRUE
    /\ UNCHANGED <<settings, reloaded, catalog, overlay, manifest, vpks, mounting, ui, asked, raced, toggles>>

ModSetNext ==
    \/ Restart
    \/ \E m \in Mods, on \in BOOLEAN : SetEnabled(m, on)
    \/ \E commits \in BOOLEAN : ReloadMods(commits)
    \/ ReloadSwitchesOn \/ ReloadOverlay \/ ReloadManifest \/ ReloadLocksVpks \/ DiscoverModVpks \/ ReloadDone
    \/ OpenManifest \/ MountVpk \/ MountEnds \/ AskManifest \/ BuildCollects
    \/ \E ok \in BOOLEAN : BuildWrites(ok)
    \/ BuildMarks
ModSetSpec == ModSetInit /\ [][ModSetNext]_modVars

----------------------------------------------------------------------------
(* When no reload is under way, everything made from the mods is made from    *)
(* the same, current set, whenever the engine asked for it; except that a      *)
(* manifest whose building a reload passed is marked generated all the same. *)
MadeFromTheSameMods ==
    ui = "idle" =>
        /\ overlay = CollectModNames /\ vpks = Archives(overlay)
        /\ generated /\ ~raced => manifest.mods = overlay

(* The overlay and the manifest agree, as the comment of BuildRuntimeManifest *)
(* asks: a script is listed for the mod whose file is served, with every entry *)
(* of that mod and of no other, and once enabled twice a name is not loaded.  *)
ManifestAgreesWithOverlay ==
    \A b \in Range(manifest.blocks) :
        LET last == Max(Shipping(manifest.mods, b.path)) IN
        /\ b.mod = manifest.mods[last]
        /\ LET Listed == {o \in ScriptBlocks : o.path = b.path}
           IN  Only(manifest.blocks, Listed) = Only(ScriptsOf(b.mod), Listed)
EachNameOnce == \A m, n \in DOMAIN overlay : overlay[m].name = overlay[n].name => m = n

(* A committed reload gives each mod the state the menus asked for and leaves  *)
(* the others as they were, whatever form the settings had; but of two copies *)
(* with the same version only the first can be switched.                     *)
TogglesAreKept ==
    [][ui = "idle" /\ ui' = "saved" =>
         \A m \in Mods : (\A n \in Mods : SameMod(m, n) => m = n) =>
             IsModEnabled(settings', m) =
                 (IF asked[m] = "no" THEN ModEnabledNow(m) ELSE asked[m] = "on")]_modVars

(* Archives are mounted from a whole list (MountModVpks, ReloadModState). *)
MountsAWholeList == reader.pc = "mount" => vpks = reader.mods

(* What the players' mods rely on. *)
ModsInvariant == MadeFromTheSameMods /\ ManifestAgreesWithOverlay /\ EachNameOnce /\ MountsAWholeList

=============================================================================
