# A verification project for PS4-Northstar

PS4-Northstar is a C++ runtime that runs inside the PS4 game process and adds what
Northstar adds on PC: mods, hosted servers on the Atlas master server, joining them,
saves kept by Atlas, and the script natives mods need. This directory holds TLA+ models
of the parts whose correctness depends on the order of things (threads, engine hooks,
requests to Atlas, files on the disk) and of the small algorithms a wrong byte of which
would be memory corruption. Each module is translated from the source; the `map` of
PROJECT.json names the lines behind every definition.

To run one model: `tlc -config RemoteSavesWrites.cfg MCRemoteSaves.tla`, or
`tlc -config Engine.cfg MCEngine.tla`; `runs` in PROJECT.json pairs each configuration
with its module. To check the proofs: `tlapm RemoteSavesProofs.tla`, and the same for the
other modules of section 4.

## 1. The system

Everything runs in one process. The **game thread** runs the engine, its hooks and the
SERVER and CLIENT script VMs; the **UI VM** runs on the same thread in the menus. The
runtime starts a detached **thread per request** (one per save write, per join announced
by Atlas, per download, per join the player asks for, per script HTTP call), a **module
watcher** that installs hooks while the engine already runs, and threads that never end:
the **presence reporter** and the **sign-in listener**. They share a few globals under
short critical sections, atomics or nothing at all; no lock is held over a request to
Atlas. Atlas, the engine, the console's libraries and the network are outside the
repository and are modelled from how the code uses them.

| Component | Source (under `src/launcher/`) | State | Operations | Hard because |
|---|---|---|---|---|
| Players' saves | `src/runtime_persistence.inl`, `include/northstar_ps4/persistence_*.h`, `pdata_convert.h` | `g_remoteSaves`, `g_pendingPdata`, the engine's slots | install at connect, install when asked, write at disconnect, map change or on request, completion | write threads of one player overtake each other; slots are reused while they run |
| Atlas admission | `src/runtime_atlas_server.inl` | `g_records`, `g_handledTokens`, `g_authenticatedUids` | signed packet, fetch, record, accept, connect request | packets repeated; a thread each; capped lists |
| Server listing | `src/runtime_atlas_server.inl` | `g_presence`, `g_serverId`, `g_registeredPassword`, the reporter's locals | report, add, heartbeat, remove | settings and reports change while a request is under way |
| Server bans | `src/runtime_bans.inl`, `banlist.h` | `banlist.txt` | ban, unban, check | read piece by piece through one buffer on every thread, while the game thread rewrites it |
| Mod downloads | `src/runtime_mod_download.inl` | `modInstallState`, cancel and busy flags, the catalog, directories on disk | fetch list, download, cancel, poll, install | a worker against the UI thread; failing renames; a crash half way |
| Identity and sign-in | `src/runtime_signin.inl`, `runtime_auth.inl`, `atlas_refresh.h` | account, token, paired helper, identity file | push, refresh, save | a push and a refresh racing, read without a lock; wrong-code limit |
| Joining servers | `src/runtime_server_join.inl` | join and self-auth states, answers, the convars of a connect | request, worker, refresh, poll, spend | a worker's answer against a newer account |
| Server browser | `src/runtime_server_list.inl` | the list and the worker's handover | request, parse, merge, clear, join by place | the list is merged while a menu holds places in it |
| VM lifecycle, script calls | `src/runtime_vm_lifecycle.inl`, `runtime_http_script.inl`, `runtime_save_files.inl` | bindings, generations, queues, pending loads | make, bind, init, release, start, finish, drain | a result for a VM that is gone, addresses reused |
| HTTP transport | `src/runtime_http.inl` | the library's handles, a request's connection | set up, get, post, stream, cancel | each step can fail; two set-ups at once |
| Script save files | `src/runtime_save_files.inl`, `mod_savefiles.h` | a folder per mod | save, load, delete | temporaries, a stop half way, a cap, paths that climb |
| Mod set and reload | `src/runtime_mod_reload.inl`, `mod_catalog.h`, `mod_settings.h`, `runtime.cpp`, `runtime_vpks.inl` | settings, catalog, overlay, manifest, VPK list | toggle, reload, build, mount | four copies of "which mods" on two threads |
| Mod archives: RPaks | `src/runtime_rpaks.inl`, `include/northstar_ps4/mod_rpaks.h` | the rules, the loader's table, the hook | check, install, request, pass | a load re-enters the hook; the engine may ask for a mod's pak itself |
| Generated and served files | `src/runtime_keyvalues.inl`, `runtime_pdef.inl`, `runtime_particles.inl`, `runtime.cpp` | built files, cached sizes, lists | build, size, open, read, reload | rewritten in place while others read |
| Memory | `src/runtime.cpp`, `src/runtime_hardware.inl`, `include/northstar_ps4/lzss.h` | the arena, the stack pool, the decompressor | map, unmap, start, return, decompress | any thread; reuse at the moment of release |
| Network messages | `src/runtime_netmessage_fixes.inl` | hooks, the receivers' table, clients to drop | install, check, retry, disconnect | tables patched under a running engine |
| String commands | `src/runtime_string_commands.inl` | quotas, command flags | run, refuse, disconnect | a quota that belongs to a slot |
| Chat | `src/runtime_chat*.inl`, `chat_text.h`, the menu scripts | the limit's windows, the keyboard's flags, a message's text | say, send, broadcast, show, type | one keyboard for two users; text edited in place |
| Token helper, console commands, text formats, audio, menus, build | the rest | tables and buffers | lookups, parsing, patching | data rather than order |

How they interact. Admission leaves a *connect record* with the player's pdata; the
connect request that carries its token makes the persistence code install that pdata in
the engine's slot. Admission needs the server's auth token, which the listing obtains
and replaces. A ban is looked up twice, on the request thread and on the game thread. A
mod install tells the UI thread to drop its catalog; a reload makes the overlay, the
manifest, the VPK list and the generated files anew. A join and a self-auth read the
identity that the sign-in listener and they themselves replace. Results of HTTP requests
and file loads reach scripts through the queues of their VM. Requests of every kind go
through the HTTP transport, and their threads stand on stacks of the pool. The server's
scripts report the server, and the reporter takes their silence for its end.

What makes each component correct:

* *saves* - a player's data never reaches another account; a write is skipped only when
  it loses nothing; what a save is compared with is a version Atlas has;
* *admission* - accepted means recorded, a token is handled once, the newest records can
  hand out a save, what was rejected is not recorded;
* *listing* - no listing is left behind, the list follows the server, the switch and the
  password, and Atlas is not flooded with adds;
* *bans* - a check gives what the file says, and a command changes one player's ban only,
  as long as the buffer all threads share does not hold a late NUL;
* *downloads* - an install directory holds a whole mod or none, an old copy outlives a
  failed install, and the worker slot is always given back;
* *identity, joins* - account and token stay one account's in memory and on disk, a
  connect carries the account its token was made for, and every request ends;
* *browser* - an answer is taken whole or not at all, and a join goes to the server shown;
* *script calls* - a result goes to the VM that asked, is not lost while it lives, arrives;
* *HTTP* - success means the whole body, and no connection is left behind;
* *save files* - a file is the text last saved or the one before, inside its folder;
* *mod set* - everything made from the mods is made from the same mods, and a reload gives
  each the state the menus asked for;
* *archives* - the engine gets only archives whose claims fit their file, and by their rules
  once each, in the order their textures need;
* *served files* - a read gets the file of the mods enabled now, with the size it was told;
* *memory* - a page, a stack, a byte of a buffer has one holder;
* *network messages, commands* - a hook has its original before it is reached, an empty
  read means an empty socket, a client runs no more and no other commands than allowed;
* *chat* - a line is shown as it was meant, a player's messages are limited, the text
  converts, and the keyboard's text goes to whoever opened it.

## 2. The modules

| Module | Models | Checked by |
|---|---|---|
| `RemoteSaves` | saves, slots and write threads | three passing runs, one divergence |
| `SaveCustody` | what saves promise, in the abstract | refined by `RemoteSaves` |
| `MCRemoteSaves` | `RemoteSaves` with the symmetry of its contents | - |
| `ConnectRecords` | admission | `HostedServer` |
| `ModDownload` | downloads and installs | `ModDownload` |
| `ServerPresence` | the listing and its reporter | `ServerPresence`, one bug |
| `ServerBans` | the ban file, its readers and commands | `HostedServer`, one bug |
| `AtlasIdentity`, `ServerJoin` | the identity, and the joins composed with it | `Requests` |
| `ScriptCalls` | VM lifecycle, script HTTP calls, loads | `Requests` |
| `ServerBrowser` | the server list | `Requests` |
| `HeapArena`, `ThreadStacks`, `Lzss` | memory | `Engine` |
| `HttpTransport` | set-up, requests and streams | `Engine` |
| `Datagrams`, `NetMessages`, `StringCommands` | what comes from clients and servers | `Engine` |
| `ServerChat`, `ChatText`, `ChatKeyboard` | chat, from the keyboard to the panel | `Engine` |
| `SaveFiles` | the files scripts save | `Files` |
| `ModSet` | switches, overlay, manifest, archives of the enabled mods | `Files` |
| `RpakFile`, `RpakReader`, `Rpaks` | the check of an archive, and the loading of mods' paks | `Files` |
| `ServedFiles` | generated files and the reads they serve | `Files` |
| `MCHostedServer`, `MCRequests`, `MCEngine`, `MCFiles` | the inputs, and several small components in one run | - |
| `*Proofs` | the theorems of section 4 | proved |

The four harnesses extend modules whose components share no state in the code either.
The variable `part` says which of them runs in a behaviour; the others stay at one initial
state, so nothing is lost: a behaviour of the whole is an interleaving of behaviours of the
parts, and every property speaks of one part. Components that do share state are composed
in their own modules (`ServerJoin` extends `AtlasIdentity`; `Rpaks` extends `RpakFile`;
`RemoteSaves` takes what a connect record offers; `ScriptCalls` has the loads of
`SaveFiles`). A harness also gives the inputs that are too long for a configuration.

### RemoteSaves

A save is a record `[owner, ver, tail]`: the account whose bytes the layout-231 structure
holds, which contents they are, and the account the trailing bytes of PC mods came from.
A slot's buffer is the structure alone, and the trailing bytes wait in `saves[c].trailing`
to be put behind it again at export, so a mix of two accounts is visible in the model.
Contents that are not a layout-231 save are `OtherLayout`.

`saves` is `g_remoteSaves`: `pdata` is the acknowledged version, `queued` the newest
submitted. `ClassifyWrite` and `CompleteWrite` are the functions of
`persistence_write_state.h`. `pending` is `g_pendingPdata`, `offers` the pdata of the
connect record a token leads to (kept as ConnectRecords keeps it: possibly old).
Each critical section under `g_remoteSaveLock` is one step. Where a hook releases the
lock half way (RuntimePersistenceAvailable copies the save to install and installs it
later) the model has two steps with `hook` between them; the game thread takes no other
step meanwhile, the write threads do.

`writes` holds one record per write thread: `sent`, then `stored` or `lost`, then
completed. Stored writes may be answered or not, so an unacknowledged version may still
be Atlas's. `known` is a history variable that only properties read.

`SaveCustody` is the abstract promise: a slot holds one account's save at a time, a
submission is the data of the account the slot holds, and Atlas's copy changes only to
what was submitted. The refinement maps a slot to the account of its installed save and
the submissions in flight to the writes Atlas has not decided.

### ConnectRecords

`AtlasPacket` starts a request thread, and the thread's steps are those of ProcessSigreq1: claim
the token under the lock, look the ban up, fetch the pdata, add the record, accept. The
caps of the three lists are CONSTANTS. `ConnectWithToken` is the admission half of the
connect request; RemoteSaves models what becomes of the pdata. `banned` is the set the ban
file means; a request thread may miss it while the file is rewritten (ServerBans). The connect
packet of a banned player is refused in one condition, where the profile of `RejectConnection`
matched (`runtime_atlas_server.inl:730`), so the model lets it through: no property relies on it.
Signatures, JSON and the sizes of packets are left out: a packet either names a token or is ignored.

### ModDownload

A worker's step ends wherever the UI thread could see or change something. The four
shared atomics have the names of the source. The disk is three places: the install
directory of each mod, `.staging` and `.replaced`; each holds nothing, part of a mod, or
all of it. Every operation on it may fail where the code looks at the result. `Crash`
forgets all but the disk. `Finish`, `Report` and `StoreResult` are apart because a cancel
can come between them.

### ServerPresence

The reporter's loop is taken apart at every critical section and request: it reads the
clock, takes the lock and reads the presence, reads the settings, removes, adds or
updates. Time is relative: `presence.age` counts ticks since the last report and
`reporter.since` ticks since the clock was read, and the comparison is made in unsigned words of
`WordSize`, as in the code. `listings` is what Atlas holds; an answer may be lost.

### ServerBans

A text is a sequence of lines of one length, each a uid or `Void` (a comment, or a line with a
NUL in front, which hides its number). `text` is ReadList's static buffer. A read is the loop of
`ReadFileIntoBuffer`: pieces of any length go into the buffer one by one (`ReadMore`), the end is
seen (`EndOfFile`), the NUL is put behind what was read (`PutNul`), and the caller copies as much
out again; any of it may fail, and other threads take their own steps in between. The commands
read, truncate and write in steps of their own; a write may leave a part of the list.
`undisturbed`, `clear`, `banned` and `exact` are history: whether the file stayed as it was opened
and no read of it failed, whether no NUL of another thread's shorter read was pending then,
whether the file banned the player, and whether a command's read was both of the first.
Editing the file by hand is one step and does not happen during a command.

### AtlasIdentity, ServerJoin

`uid` and `token` are the two globals; a text that is being overwritten reads as `Torn`,
which is what a reader without the lock can get. `atlas` is the token Atlas would accept for
each account: signing in anywhere mints a new one. The listener applies a push in four steps
under `g_atlasRefreshBusy`; a worker whose token was refused asks its helper (`Serve` in
`AtlasIdentity`: what an external helper may answer) and stores what it gets if the identity is
still the one it asked for. `ServerJoin` adds the two workers, step by step, and the UI thread
that polls for their answers and spends them (`CompleteAuth`, `CompleteLocalAuth`). `changed` is history: whether
a push replaced the account since each request.

### ScriptCalls

A VM is an address and the number of its life; addresses are reused. The engine makes it,
the hooks bind it, run the mods' callbacks, and clean up when it is released; metadata the
SERVER hook rejects leaves a binding behind, as in the code. HTTP results are queued for a
context under the generation they were asked in; loads wait under the address. The properties
compare lives, which the code never sees.

### ServerBrowser

`fetched` belongs to the worker while `fetchState` is "requesting" and to the UI thread
after. An answer is a root, elements that are objects or malformed text, and whether it
ends; `Parsed` is the parser's loop, and `MergeServerList` the merge (`PutServers`) and the sort by players (`Sorted`). The
script joins by place, so `joined` keeps both the place asked for and the id sent.

### HttpTransport

A request's steps are the library's calls in order, each of which may fail; `open` are the
ids not yet deleted. The set-up writes its globals one after the other, `handle` says which
are valid, and two threads may be in it at once (`raced`). A stream asks `cancel`, reads, and passes
the piece on in three steps; the flag may be set before each of them (`late` counts the pieces
passed on after it was).

### SaveFiles

Paths are sequences of segments, so that a path can climb; the check is the code's and
`Resolve` is what the file system does with it. A save is open, write (in one block or two), flush, rename,
each of which may fail, and the console may stop between any two: what was not synced may
then be lost. Names refer to inodes, since an open file survives its name. Sizes are counted in blocks,
as the walk of `FolderSize` adds them up.

### ModSet

The settings file has PC's legacy switch or one per version, a mod is a name, a version, a
folder, a priority. The UI's thread saves and reloads in the code's order, an engine thread
asks for the manifest and mounts archives in between. `overlay`, `manifest.mods`, `vpks` and
`catalog` record which mods each was made from. `raced` marks a manifest a reload passed.

### RpakFile, RpakReader, Rpaks

`RpakFile` checks an archive that is what its header claims; counts and sizes there have 16 or 32
bits, so in a `size_t` nothing wraps and offsets are plain numbers. `RpakReader` enumerates archives. `Rpaks` is
the installation of the hook, the two call sites, and the passes that load mods' paks behind
the engine's: a pass that meets another returns and leaves its paks overdue. The engine may also
ask for a mod's pak by its name or an alias of it; that load sets no handle, as in the code. A pak is known by
its place, `<<mod, number>>`: what a pass has to load is a set of places, taken in `PassOrder`
(Preload paks, then the others, each in discovery order), as the code's two loops over `g_modRpaks` do.
A pass computes its set once: only it changes a handle while it holds the guard.

### ServedFiles

Each generated file (persistence definition, merged KeyValues, particles) has a build that
reads the overlay, writes, and records; each reader asks for a size and then opens or reads. A
reload replaces the overlay and empties the lists in four steps. `crossed` is history: the
files of which a build has met a reload or another build.

### HeapArena, ThreadStacks, Lzss

`HeapArena`: the search and the bookkeeping are one step (they are under the spin lock), the
zeroing another. `ThreadStacks`: the starter reads the time a slot was freed, then tries it, then
creates the thread; the returning thread stamps the time, clears the flag, and still stands on
the stack for a moment. `Lzss` decodes a payload that is chosen as it is decoded, one
command a step; a reference before the output would give a byte that is no literal.

### Datagrams, NetMessages, StringCommands

`Datagrams` has the table of receiving threads, claimed without a lock, and the retry loop around
the engine's read. `NetMessages` installs one hook at a time while messages arrive, and has
each handler's checks; the commands a client sends are read one by one with what the
handler zeroes. After a frame the clients whose baselines failed are disconnected, if a disconnection
was located (`disconnects`) and takes them (`seated`: connected, and no bot). `StringCommands` is the
window per slot, the flags fixed once, and the two call sites the guard is reached from; `located` is
what the installation found, without which nothing is counted or nobody disconnected; `recent` is
history: the commands of a slot within a second, each with its time, its window, its number there and
what was done with it.

### ServerChat, ChatText, ChatKeyboard

`ServerChat` follows a message from the player, over the limit and the script, to the wire and
the client's hook, with the type and team it was meant to have (`meant`); `passed` is history, the
messages of a player that went on within a second. `ChatText` is the text in place, one
symbol per kind of byte: the cleaning pass, then the writer with its escapes. A pass that runs past
the terminator (`CleanOverruns`) ends the model of that text: what it meets there is the engine's. `ChatKeyboard`
is the system's dialog, the two flags, and the menu's thread that waits; texts are UTF-16
units on one side and UTF-8 characters on the other.

## 3. The runs

| Run | Question | Bounds and why they are enough |
|---|---|---|
| RemoteSavesAccounts | Can data cross accounts, and does every step keep `SaveCustody`? | 2 accounts, the host's slot and one more, 2 contents, 2 writes per slot: a slot is given to the other account with up to two writes of the first in flight. Symmetry over contents only; safety only. |
| RemoteSavesWrites | Are the marker and the baseline right when writes complete in any order? | 1 account, 3 contents, 2 writes: the smallest instance in which an older write, a newer write and the acknowledged version all differ. No symmetry, for the liveness property. |
| RemoteSavesDuplicates | With `ns_allow_duplicate_accounts`, does a new connection leave the others alone? | 3 slots for one account, no writes: slot choice depends only on slots and ownership. |
| HostedServer | Do repeated packets, bans and self-auth records break admission? Are checks and commands right although they share a buffer? | Admission: 2 accounts, one of them the host's, a token each, two threads, 3 records with 1 keeping its pdata: the caps are reached. Bans: 2 players, the game thread and one request thread, a buffer of 3 lines; by hand the file gets every text of up to 2 lines and one that fills the buffer, commands make the others; pieces of any length. |
| ModDownload | Do cancels, failures, a crash and a second download break an install? | 2 mods, 2 thread identifiers (so that a second worker could exist if the busy flag let it), one fault. |
| ServerPresence | Does the list follow the server? | 2 ids (the current and the next), 2 passwords, 2 attempts, a timeout of 2 ticks, a delay of at most 1 tick, words of 8. |
| Requests | Does what the game asks of the network come back to the one that asked, as the one that asked? | Joins: 2 accounts, 1 helper, 3 tokens, a push, 2 requests, 1 wrong code; of a second request, a push and a third token at most two in a behaviour (`FewAtOnce`). Calls: 2 contexts, 2 addresses, 3 lives, 2 requests or loads: an address and a context are both reused. List: 4 servers and a malformed one, answers of 2, 2 requests. |
| Engine | Memory, transport, network messages, commands and chat | 4 pages and 2 holders; 1 stack slot, 2 starters, 2 jobs, 4 ticks with a second of 2; payloads up to 4 bytes with references past both ends; 2 threads with requests of up to 3 pieces into a buffer of 2; 2 receivers for 1 table entry, 3 datagrams, 2 tries; every kind of message with its malformed forms, two in a behaviour, so that the second finds no room for its markers, but of a second message and a client in its slot one only (`FewMessages`); a slot, 2 players, quotas 0, 1 and off; 3 messages, two of them on the wire at once (`FewOnTheWire`), a limit of 1 a second (more than two windows let through); every text of 3 symbols and the escapes that need more; 2 keyboards, 2 units of text. |
| Files | Files of scripts, mods and archives | 2 threads, 3 calls, 3 paths (one climbs out), 3 inodes, a cap of 3; 3 mods with an older copy of one, 2 toggles; archives whose sizes fit or do not; 2 mods with 3 paks, one before and one behind common.rpak and one of the second mod behind a pak of the first; requests of the engine for common.rpak, another pak of the game, and a mod's pak by its name; 2 threads with 2 requests for paks, or one thread and one refusal (`part` "refusals"); 2 readers, 2 sets of mods, 2 reads, 1 write that fails. |
| RemoteSavesReverted, ServerPresenceWrap, ServerBansLateNul | What the sources say and the code does not do (section 5) | as small as the counterexample allows. |

Every named bound of the first group: `MaxWrites` (writes ever started for a slot), `MaxSlot`, `MaxPending`
(the code's cap, made 1), `MaxJoins`, `MaxThreads`, `MaxRecords`, `MaxPdataRecords`,
`MaxHandledTokens` (the code's caps, made small), `MaxWorkers`, `MaxFaults` (crashes and
restores that fail), `MaxAttempts` and `Timeout` (the code's constants, made small),
`MaxDelay` (ticks the reporter may lose between reading the clock and taking the lock),
`WordSize` (of the clock's words), `Capacity` (the size of the ban list's buffer, in lines). Ages saturate at
`AgeCap`, the largest age two comparisons tell apart. In the other modules a bound on events
is named `Max...` and commented "bound" where it is declared; a limit of the code keeps its
name in the code (`kMaxWrongCodes`, `ReceiveLimit`, `EntityLimit`, `ChatLimit`) and is made small.

What the properties say is in the comment above each of them. In short:

*RemoteSaves* `OwnAccountOnly` (structure and tail of every installed save and every
write belong to the account), `QueuedIsInFlight` (skipping a write as AlreadyQueued
loses nothing), `BaselineKnown` (the baseline is a version Atlas served or
acknowledged), `NewestSnapshotOnly`, `NewConnectionLeavesOwners`, `MarkerClears` (liveness),
`CustodyKept` (refinement). *ConnectRecords* `JoinsRecordedOnce` (accepted is recorded, a token
is handled once), `PdataKept` (the newest records keep their pdata, the rest is bounded),
`RejectedNotRecorded` (repeated packets and lifted bans do not record a rejected join). *ModDownload* `InstallsKept` (only whole copies in an install
directory; an old copy outlives a failure; what was cancelled is not installed, unless another
download was asked for before the worker noticed), `CatalogCurrent`, `WorkerFreed` (liveness).
*ServerPresence* `NoStrayListing`, `AddsBounded`, `ListFollows` (liveness: off the list when
it stops, on it while it runs, with its password). *ServerBans* `ChecksAreExact` (a check of a
file nobody changes is exact, unless a late NUL was pending), `EditChangesOnePlayer` (a command bans
nobody else anew, and keeps the other bans when its own read was such).

*Requests* `JoinsAsOneself` (identity and file are whole and one account's, a connect carries
the account it was authenticated as, a self-auth record has its account's save),
`EveryRequestEnds` (liveness: joins, self-auths and the list), `CallsReachTheAsker` (results go to the VM that asked, bindings follow
the VM), `ResultsArrive` (liveness), `BrowserSound` (sorted, taken whole, joins the server
shown). *Engine* `MemorySound` (pages, stack slots and the decompressor's buffer),
`RequestsAreWhole` (whole bodies, nothing left open, a cancelled stream passes on one piece at most), `NetworkSound`
(datagrams and message handlers), `CommandsSound` (quota and marked commands), `ChatIsSound`
(limit, meaning, text, keyboard). *Files* `ScriptFilesKept`, `ModsAgree`, `ArchivesSound`,
`ReadsAreServed`. The named conjuncts of these are in the module of each component, with the
cases each leaves aside (a history variable such as `raced`, `changed`, `shared` or `crossed`
marks them), and the source comment or line that says why.

`Requests`, `Engine` and `Files` are checked with deadlock off: a decompressor, a
message's text or a check of an archive really ends, and the bounds on events end the rest. In
the other runs something can always happen, and deadlock is checked.

### Fairness

* RemoteSaves: each write thread is weakly fair. Its request is answered or times out and the
  thread has no loop. Players and the engine owe nothing.
* ModDownload: each worker thread is weakly fair, for the same reason: the transfer has a
  timeout and the file operations return.
* ServerPresence: the reporter loop never stops and each of its requests ends; a running
  server reports; time passes. `ListFollows` sets aside behaviours in which the
  wrap-around of section 5 happens again and again, since it really does keep a server
  off the list.
* ServerJoin: each worker and the listener are weakly fair: requests have timeouts, and the
  busy flag a worker waits for is held for a few stores. Scripts owe nothing.
* ScriptCalls: each HTTP thread ends, and the host frame drains each context again and again.
* ServerBrowser: the worker ends, and a script that has asked polls.
* All other specifications claim safety only.

## 4. What is proved

For every set of accounts, number of slots, set of contents and caps that satisfy the
assumptions in `RemoteSaves` (uid 0 is no account, the host's accounts are accounts, the
cap of pending entries is positive), the prover checks:

| Theorem | Statement |
|---|---|
| `Invariance` | `Spec => []Inv`, the inductive invariant |
| `TypeCorrect` | `Spec => []TypeOK` |
| `OwnAccount` | `Spec => []OwnAccountOnly` |
| `KnownBaseline` | `Spec => []BaselineKnown` |
| `MarkerNeverStale` | `Spec => []QueuedIsInFlight` |
| `BaselineNewest` | `Spec => NewestSnapshotOnly` |
| `ConnectionsLeaveOwners` | `Spec => NewConnectionLeavesOwners` |
| `KeepsCustody` | `Spec => CustodyKept`: RemoteSaves implements SaveCustody |

and, in the proof modules of the other components, for every value of their constants that
satisfies the components' assumptions,

| Module | Theorem | Statement |
|---|---|---|
| `HostedServerProofs` | `JoinsTypeCorrect` | `ConnectSpec => []ConnectTypeOK` |
| | `PdataIsKept` | `ConnectSpec => []PdataKept` |
| | `AcceptedJoinsRecorded` | `ConnectSpec => []AcceptedIsRecorded` |
| | `JoinsOnce` | `TokensFit => (ConnectSpec => []JoinsRecordedOnce)` |
| | `RejectedStayOut` | `TokensFit => (ConnectSpec => []RejectedNotRecorded)` |
| | `BansTypeCorrect` | `BansSpec => []BansTypeOK` |
| | `ExactChecks` | `BansSpec => []ChecksAreExact` |
| | `OnePlayerChanged` | `BansSpec => []EditChangesOnePlayer` |
| | `PresenceTypeCorrect` | `Spec => []TypeOK` (ServerPresence's) |
| | `NoListingStrays` | `Spec => []NoStrayListing` |
| | `AddsAreBounded` | `Spec => []AddsBounded` |
| `ModDownloadProofs` | `DownloadsTypeCorrect` | `Spec => []TypeOK` |
| | `CatalogFollows` | `Spec => []CatalogCurrent` |
| | `InstallsAreKept` | `Spec => InstallsKept` |
| `EngineProofs` | `ArenaIsSound` | `HeapSpec => [](HeapTypeOK /\ ArenaInvariant)` |
| | `SystemIsLast` | `HeapSpec => SystemOnlyWhenFull` |
| | `StacksAreAccounted` | `StacksSpec => [](StacksTypeOK /\ SlotsAreAccounted)` |
| | `DecompressorSound` | `LzssSpec => []LzssSound` |
| | `MemoryIsSound` | `EngineSpec => MemorySound`, the three above in the run's specification |
| | `RequestsAreWholeAlways` | `EngineSpec => []RequestsAreWhole` |
| | `NetworkIsSound` | `EngineSpec => NetworkSound` |
| | `CommandsAreSoundAlways` | `EngineSpec => []CommandsSound` |
| | `ChatIsSoundAlways` | `EngineSpec => ChatIsSound` |
| | `EngineTypeOKAlways` | `EngineSpec => []EngineTypeOK` |
| `RequestsProofs` | `OneJoinsAsOneself` | `RequestsSpec => JoinsAsOneself` |
| | `CallsReachTheirAsker` | `RequestsSpec => CallsReachTheAsker` |
| | `RequestsAreTyped` | `RequestsSpec => []RequestsTypeOK` |
| | `TheListIsSound` | `RequestsSpec => BrowserSound` |
| `FilesProofs` | `ReadsAreServedAlways` | `FilesSpec => []ReadsAreServed` |
| | `ScriptFilesAreKept` | `FilesSpec => ScriptFilesKept` |
| | `LoadsAreWholeAlways` | `FilesSpec => LoadsAreWhole` |
| | `ModsMadeTheSame` | `FilesSpec => [](part = "mods" => MadeFromTheSameMods /\ MountsAWholeList)` |
| | `ModsAgreeAlways` | `FilesSpec => ModsAgree` |
| | `PaksAreInOrder` | `FilesSpec => [](LoadedOnce /\ AfterItsParent /\ PreloadFirst /\ StreamsExist) /\ OverdueIsLoaded` |
| | `ArchivesAreSound` | `FilesSpec => ArchivesSound` |
| | `FilesAreTyped` | `FilesSpec => []FilesTypeOK` |

Two modules hold lemmas only. `SequenceLemmas` has what the recursive functions of `Lists` and of the
components compute. The library's induction rules cannot be used here, so induction is a matter
of sets: a set of numbers that is not empty has a least (`LeastOf`), a set that holds 0 and with
each number the next holds all (`FromBelow`), a set of sequences that holds the empty one and with each
one its extensions holds all (`EverySeq`). That a recursive function exists is proved (`WalkThere`) before
anything is said of its values. `ModSetProofs` applies these to the mods and is cited in `FilesProofs`.

The argument. `OwnAccountOnly` is not inductive: an installed save comes from a pending
entry, a record or the copy a hook holds, and a write is exported from a live buffer plus
remembered trailing bytes. `Inv` therefore says of *every* place where pdata can be that
it belongs to the account it is filed under (`PendingOwned`, `OffersOwned`, `AtlasOwned`,
`WritesOwned`, `HookOwned`), that the buffer of a slot that is remote-ready holds data of
the slot's account, and that an installed save's trailing bytes are its account's. The
step from there is `WriteRemoteSave`: it exports only when the slot's account is still
the save's (`SamePlayer`), which is what makes a reused slot harmless. Steps of the
engine alone are proved by one lemma over the slots (`SlotsOnly`); writing by lemmas over
what `SaveAfterWrite` and `WriteRemoteSave` give. `QueuedIsInFlight` is inductive relative to
`Inv`, because every install clears the marker and every completion removes only the
write it decides. `NewConnectionLeavesOwners` is about which save `SelectSlot` takes: the connecting slot, free until
now, owns none and matches none, so a first pass that finds a save finds one nobody owns, and
what is filled into its buffer is the connecting slot's. The refinement has one case per action: connects and installs are
`Hold`, writes and releases are `SubmitAndRelease`, and Atlas's decision is `Store` or `Lose`.

For the bans, `ChecksAreExact` speaks of the end of a check. What is inductive is that the
buffer holds the file as far as a read has come that nothing disturbed and that began clear (`ReadsHold`):
another thread that reads the same file puts the same lines there, and its NUL comes behind the
last of them, since it is pending only behind the file's end and the file is as it was. A command
may have met a late NUL; what it has read is then the file with some lines hidden (`EditHolds`,
`GameHolds`), which is why what it writes never bans somebody else.

For the connect records, `PdataBounded` counts records, which no step keeps by itself. What is
inductive is where an older record with pdata can be: it left the newest `MaxPdataRecords`
because a record of the host's own session was pushed, so that record stands exactly
`MaxPdataRecords` after it (`PdataHolds`). The bound follows by sending each to the other, one
to one. That an accepted join is recorded needs only that a push drops nothing before the
list is full. That a token is handled once is true only while `g_handledTokens` drops nothing, so
`JoinsOnce` assumes `TokensFit`: the list has room for every token. A token that is not in it
then finds room by the pigeonhole principle (`RoomForToken`), and the claim under the lock
does the rest, and with it `RejectedStayOut`: only the thread that claimed a token answers for it. Without
that assumption both are false, as the hazard at the cap says.

For the listing, `AddsBounded` is not inductive because a successful add is no attempt and a
dead server keeps its attempts. `AddsHold` says when the two counts are compared: while a living
server has no listing, every add request of this start is an attempt or waits for its answer.
`NoStrayListing` needs that the id the thread read before its requests is still the current
one (only this thread writes it), that Atlas gives an id to one listing, and that between a
remove and its clear the known listing is gone or lost.

For the downloads, `Inv` says that there is one worker, what the three directories hold at each
of its steps, and that the catalog misses an install only while somebody is still to announce
or to see it. For the arena it adds that spans lie inside the arena and that what is not yet
zeroed is not yet written; for the decoder, that the count of written bytes is the length of the
output, from which every copy starts inside what was written.

*Thread stacks.* A busy flag says nothing about who set it. `StacksInv` gives each slot at most
one holder, the starter that is creating its thread or the thread until it has cleared the
flag, and says that a thread which has not begun finds its own entry in the slot: nobody else may
have written there since its starter did.

*HTTP.* `CallSound` is what is true of a request at each step and of what is open for it, so that
every way out passes the deletes. `SetUpInOrder` says that the thread in the set-up, the only one
unless `raced`, has made valid what lies before its step; so the flag it sets at the end is true.

*Datagrams.* A thread that got no entry has looked at all of them, one after the other, without
a lock. What carries over to the end of its scan is that a claimed entry is never given back
(`TouchedBy`): what it passed is still another's. *Messages* need only that the clients to
drop during a frame are the ones that failed in it; who of them leaves is then the step's.

*Quotas.* The property counts what ran in any second, the code counts windows that start when
it likes. `HistoryIsTrue` says that what happened within a second lies in the window now counted and
the one before it, in each under numbers of its own; numbers up to the quota then bound the
size of each half (`QuotaIsTrue` for commands, `LimitIsTrue` for chat). A disconnection sets the
count back, and is why `HasKicked` is a case of its own. A *chat line* is as meant because
every message on the wire decodes to its intent (`MeantMessages`), whatever hooks come later.

*Chat texts.* What is shown is `FlattenSeq` of pieces, what is promised counts symbols; so first come
lemmas on both (`JoinedMore`, `JoinedBoth`, `CountBoth`, `CountJoined`). `TextPlaced` says that a text
keeps its length and, until it is overrun, its terminator, and that each byte is blanked or as it came. `TextCleaned`: the places
the pass has left behind are fine together with the sequences they begin, the others are as they came,
which is why an escape that was a colour still is one when the pass gets there. `TextLetters`: the letters
to be read on a panel and those still to come are together the letters of the text, unless a piece was
cut. `TextConverts`: in cleaned text a piece neither begins nor ends inside a sequence. `TextColours`:
what an escape was given last (`Heard`) are the last numbers before the place the writer is at, so a colour
it makes of them stands in the text.

*Keyboard.* `KeyboardInv` ties the two flags to the dialog's asker and, while nobody has typed, the
dialog's text to the option. The two conversions are each other's inverse where no pair is broken
(`Utf16Back`, `Utf8Back`), and stripping commutes with them (`Utf16Stripped`), so an option that is stripped
after the conversion is what was typed. That no edited option is named like the tags of
the other askers is an assumption on the model's names.

*Identity and joins.* Account and token are read by workers without the lock that writers hold.
`LockIsHeld` gives the lock one holder, `WritesAreWhole` says that only its own half-done write tears the
pair and that what it is about to write is one account's, and `AnswersAreOnes` that a request
no push has crossed (`~changed`) belongs to the account the runtime has now, from the read of
its token to the connect that spends the answer.

*Script calls.* A result carries a context and a generation, the properties speak of lives.
`ResultsAreOfTheirVm` says that a request under way is a living VM's exactly if it carries its
context's generation, and that what is queued or loaded is a living VM's; `VmsAreKnown` that
binding, owner and VM agree, but for metadata the SERVER hook rejected.

*Server browser.* Worker and UI thread share the list's variables without a lock; the state says whose they
are. `WorkersRequest` has a request under way exactly as long as its worker is, so a second worker never
starts beside it; `HandedOverWhole`, that what is handed over is the worker's answer as it was parsed; and
`ShownAsListed`, that while the script has asked for nothing since, no answer can come that would
reorder the list it was shown. What the list holds is `ListInv`: no id twice, and players fall. `PutServersAre`
says what a merge makes of two lists, by the number of the answer's servers put in: of these the last with
each id (`Lasts`), and of the old list those whose id is none of theirs (`Others`). `SortInIs` is one
insertion, where the servers with at least as many players come first, so they are the first places
(`FirstPlaces`); `SortedAre`, that the whole sort keeps what is listed, and no id comes twice.

*Served files.* A read is quiet or not long before it opens the file. `ServedInv` has, for each
file, what is made, noted and under way since the last reset: for the definition under its lock
(`PdefSound`), for the others as long as no build met another (`LoneBuilds`, `ManifestSound`,
`PatchSound`); and that a quiet reader which was told a size was told that of the mods enabled now.

*Script files.* Names refer to different inodes (`NamesDiffer`), a save that shares its path with
nobody has its temporary to itself and holds there a prefix of its text as long as what it has
written (`OpenByOwnName`, `SaveGoesOn`), and what a name was given by a rename is synced
(`FilesAreKept`), so that a stop leaves it. That paths stay inside the folder is a lemma over the
walk of a path: its depth is one more than the segments that descend less those that climb, which
SavePathSafe keeps from being negative at every prefix. `FolderInv` counts blocks: a save under way has
room for its text beside everything but the file it replaces, and its temporary is not longer.

*Mods.* `MadeInv` says how far a reload has brought each thing made from the mods; only a build it
passed may still mark an older manifest (`raced`). `SetInv` says what those things hold: a list made of the
enabled mods names each mod once (`OneEach`), because of the copies of a mod all but the first are left
out, and the manifest is `Manifest` of such a list. What that is, is said path by path: the entries of
one path (`View`) are touched only by scripts of that path (`AddScriptIs`), the first script of a later mod takes
the entry of the earlier ones over and drops their others (`TakesOver`), and the next ones of the
same mod go behind it (`GoesBehind`); so the entries of a path are those of the last mod that ships it, which is
the one whose file the overlay serves (`ManifestIs`, `ManifestAgrees`). `ToggleInv` ties what was asked
of the menus, the settings and the state shown of each mod; writing the settings changes, mod by
mod, the switch of that mod alone (`OneSwitch`, `WrittenIs`).

*Paks.* The loader's table does not say which pak an entry is, and a handle does not say who is
about to set it. `TableInv` gives each entry a mod's load made to a pak whose handle it is; since no two
paks have one request, no pak has two entries. A pass has the guard to itself (`InPass`): what it is
still to load has no handle, its parent was asked for, and behind common.rpak no Preload pak is missing
from it; so a Postload pak's turn comes when every Preload pak has its handle. `InScan` says of each pak a scan
set out to load that it is loaded, in the pass, or that a loaded entry ahead of the scan calls for
it; at the end none is ahead. `HookInv` ties the rewritten sites to how far the installation is: a site that
is rewritten and was not reported as failed keeps the original. `NamedInv` follows a request of the
engine from the hook to the table: an entry no pass made is the game's own, or a mod's pak that was
asked for by its name (`AskedByName`), and what was discovered does not change any more by then.

*Archives.* The offsets are recursive functions, which first have to be shown to exist (`WalkThere`: of
the lengths that have none there would be a least). An advance that succeeds ends inside the file (`RowsAdvance`),
a failed one fails all after it, so where the last page's end is known every offset is the plain
sum (`OffsetsAreTrue`), and a texture's marker byte lies between two of them.

Only model-checked, not proved:

* the liveness properties (outside what the prover does): `MarkerClears`, `WorkerFreed`,
  `ListFollows`, `EveryRequestEnds`, `ResultsArrive`;
* `HandledOnce` with a list smaller than the set of tokens (it is false there).

Every invariant and action property that a passing run checks is a theorem above.

The theorems of `EngineSpec`, `RequestsSpec` and `FilesSpec` hold for every value of the components'
constants; a behaviour runs one component, and each part's own Init and steps are what is used.
`EngineRun`, which TLC checks, is `EngineSpec` with the two bounds `FewMessages` and `FewOnTheWire`.

## 5. Where the sources say more than the code does

Three have a run that ends in the counterexample and a `findings` entry with the quotes.

1. **RemoteSavesReverted** (`persistence_write_state.h:11`). A save changed back to the
   acknowledged version while another is in flight counts as unchanged and is not
   submitted; Atlas ends with the version that was in flight.
2. **ServerPresenceWrap** (`runtime_atlas_server.inl:307`). The clock is read before the
   lock; a report stored in between makes the unsigned age wrap around, and a live server
   is taken off the list.
3. **ServerBansLateNul** (`runtime.cpp:364`). A thread that read the ban list before it grew puts
   its NUL into the shared buffer after another thread has read the longer list there; that
   thread's check finds none of the lines behind it, and allows a player the file bans.

The models reach these as well; each is why a property has the exception it has:

* `runtime_persistence.inl:226`: a save is copied under the lock and installed again after
  it was released; a write acknowledged in between is undone (`BaselineKnown` says what is kept).
* `runtime_mod_download.inl:396`: a second NSDownloadMod clears the cancel flag before it
  finds the worker busy, and the cancelled download goes on (`InstallsKept`).
* `runtime_bans.inl:44`: a command truncates the ban file before it writes it; a join checked in
  between finds nobody banned (`ChecksAreExact` speaks of the checks no command falls into).
* `runtime_bans.inl:38`: a list that cannot be read or fills the buffer counts as empty; a ban then
  writes its own line only (`EditChangesOnePlayer` sets such reads aside).
* `runtime_http.inl:186`: a stream that is cancelled during a read still delivers that piece
  (`CancelledStops`).
* `runtime_netmessage_fixes.inl:566`: a client that cannot be disconnected stays although its baselines
  failed (`HandlersHold`); `runtime_string_commands.inl:170`: one that sends too many commands, too, and
  its count starts again at each command dropped (`QuotaHolds`).
* `chat_text.h:79`: an escape that is no colour, as the last or last but one byte of a text, makes the
  cleaning pass blank the terminator or the byte behind it and go on there (`EndStays`).
* `runtime_hardware.inl:80-81`: a starter that read the time before a thread stamped it may reuse
  a stack the thread has not left (`ThreadStacks`).
* `runtime_http.inl:68-69`: a thread whose set-up fails leaves its values under the ready
  flag of another that succeeds (`ReadyIsWhole` leaves overlapping set-ups aside).
* `runtime.cpp:1549`: a manifest whose building a reload passed is marked generated
  (`MadeFromTheSameMods`).
* `runtime_rpaks.inl:346`: a site whose page does not take its protection back is rewritten and
  reported as failed; when no other site is left the original is cleared behind it, and a
  request there jumps to null (`OriginalIsKnown` counts the other sites).
* `runtime_rpaks.inl:310`: a mod's pak that the engine asks for by name gets no handle, so its rule loads
  it a second time, and it may come before the pak it follows (`LoadedOnce`, `AfterItsParent`).
* `runtime_save_files.inl:195`: two script threads that save one file share its temporary
  (`FilesAreWhole`), and the cap can be reached twice over
  (`FolderBounded`). Where a folder has the name of an allowed file, a save of that name leaves all
  of it out of the count, and the cap bounds nothing then (`FilesAlone` sets it aside).
* `runtime_keyvalues.inl:245`: merged files are rewritten in place; a size told before is then
  another's (`ServedInStep`).

Hazards of the models without a property, because the sources promise nothing about them: the
write at disconnect is not retried when it fails (`runtime_persistence.inl:298`); a second map change
while a player signs on drops that player's save (`:270`); a record's pdata may be older than
progress written since (`runtime_atlas_server.inl:544`); a token evicted from the handled ones is
handled again (`:417`); a failed fetch leaves its token handled (`:456`); a join verified under one
listing may be answered under the next (`:448`); a failed write leaves a part of the ban list (`runtime_bans.inl:49`).

## 6. What is not modelled

Signatures, hashing, unzipping, JSON, KeyValues, convars' text, localisation, textures, audio
and particles are data whose order of steps does not matter, and the host tests of the
repository cover them; where a module needs their result it is a member of a small set. Code
patching and the sizes of engine structures are below what a state machine says. The Squirrel
menus are user interface, except the threads that wait for the keyboard. The limits of
connectionless packets are a counter per address and second, as that of string commands, over a
table that is data. The token helper is a program on another machine; AtlasIdentity has what its
answers can be. Each part is in PROJECT.json `components` with its reason.

## 7. The plan

The saves come first: they are what a player loses for good.

| Step | Module | States and promises | Theorems |
|---|---|---|---|
| 1 (done) | RemoteSaves, SaveCustody | section 2 | section 4 |
| 2 (done) | ConnectRecords, ModDownload, ServerPresence | section 2 | section 4 |
| 3 (done) | ServerBans | section 2 | section 4 |
| 4 (done) | AtlasIdentity, ServerJoin, ScriptCalls, ServerBrowser | section 2 | section 4 |
| 5 (done) | HeapArena, ThreadStacks, Lzss, HttpTransport, Datagrams, NetMessages, StringCommands, ServerChat, ChatText, ChatKeyboard | section 2 | section 4 |
| 6 (done) | SaveFiles, ModSet, RpakFile, RpakReader, Rpaks, ServedFiles | section 2 | section 4 |
| 7 (done) | HostedServerProofs, ModDownloadProofs, EngineProofs, RequestsProofs, SequenceLemmas, ModSetProofs, FilesProofs | - | section 4 |
| 8 (done) | Rpaks with the archives due as a set | - | that the passes load each once and behind its parent, that the original is known (section 4) |
| 9 | a composed server | admission, listing and saves composed: a record made under one listing and accepted under the next, a record's pdata against progress written since | that the composition keeps the invariants of its parts |

Parameters are CONSTANTS with named assumptions, an action stands for one operation, and no
module that is proved about declares a recursive operator.
