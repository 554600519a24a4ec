--------------------------- MODULE ServerPresence ---------------------------
(***************************************************************************)
(* A hosted server on the Atlas server list (runtime_atlas_server.inl).    *)
(* The scripts of the SERVER VM report the server once a second; a reporter *)
(* thread lists it, sends heartbeats, lists it again when its password     *)
(* changes, and takes it off the list when reporting is switched off or    *)
(* the reports stop.  g_lock is held for a moment at a time and never over *)
(* a request, so each section under it is a step of its own.               *)
(*                                                                         *)
(* Time is relative: `age' is the time since the last report and the       *)
(* reporter's `since' the time since it read the clock, in ticks of any    *)
(* length.                                                                 *)
(***************************************************************************)
EXTENDS Integers, FiniteSets

CONSTANTS
    Ids,          \* ids (each with its auth token) Atlas can give a listing
    NoId,         \* no listing
    Passwords,    \* values of ns_server_password
    MaxAttempts,  \* kMaxRegistrationAttempts
    Timeout,      \* kPresenceTimeoutUs, in ticks
    MaxDelay,     \* bound on the ticks between reading the clock and taking the lock
    WordSize      \* times are unsigned words: 2^64, here a small power of two

ASSUME IdsAssumption == NoId \notin Ids
ASSUME AttemptsAssumption == MaxAttempts \in Nat \ {0}
ASSUME TimeAssumption ==
    /\ Timeout \in Nat \ {0, 1} /\ MaxDelay \in Nat
    /\ WordSize \in Nat /\ WordSize > 2 * (Timeout + MaxDelay)

VARIABLES
    serverUp,            \* the SERVER VM runs and its scripts report
    presence,            \* g_presence: [alive, age]
    reporting,           \* the report convars allow listing this server
    password,            \* ns_server_password
    serverId,            \* g_serverId and g_serverAuthToken
    registeredPassword,  \* g_registeredPassword
    reporter,            \* the locals of PresenceReporter
    listings,            \* Atlas's listings of this server: [id, password]
    lost,                \* history: listings whose add or remove got no answer
    adds                 \* history: add requests since the attempts were last reset

settings == <<reporting, password>>
local == <<serverId, registeredPassword>>
atlas == <<listings, lost>>
vars == <<serverUp, presence, settings, local, reporter, atlas, adds>>

ListedIds == {l.id : l \in listings}
AgeCap == Timeout + MaxDelay

-----------------------------------------------------------------------------
(* The server and the host's settings *)

ServerStarts ==
    /\ ~serverUp
    /\ serverUp' = TRUE
    /\ UNCHANGED <<presence, settings, local, reporter, atlas, adds>>

ServerStops ==
    /\ serverUp
    /\ serverUp' = FALSE
    /\ UNCHANGED <<presence, settings, local, reporter, atlas, adds>>

(* A report that does not revive a server the reporter gave up.            *)
ReportWithoutReviving ==
    /\ serverUp
    /\ presence' = [presence EXCEPT !.age = 0]
    /\ UNCHANGED <<serverUp, settings, local, reporter, atlas, adds>>

(* NSPS4_UpdateServerPresence.                                             *)
UpdateServerPresence ==
    /\ serverUp
    /\ presence' = [alive |-> TRUE, age |-> 0]
    /\ UNCHANGED <<serverUp, settings, local, reporter, atlas, adds>>

(* The Host Options menu, a console command or the next map.               *)
SettingsChange ==
    /\ reporting' \in BOOLEAN /\ password' \in Passwords
    /\ UNCHANGED <<serverUp, presence, local, reporter, atlas, adds>>

(* Scripts report far more often than a tick, so no tick passes without a  *)
(* report while the server is up.                                          *)
Tick ==
    /\ serverUp => presence.alive /\ presence.age = 0
    /\ reporter.pc = "sampled" => reporter.since < MaxDelay
    /\ presence' = [presence EXCEPT !.age = IF @ < AgeCap THEN @ + 1 ELSE @]
    /\ reporter' = [reporter EXCEPT !.since = IF reporter.pc = "sampled" THEN @ + 1 ELSE @]
    /\ UNCHANGED <<serverUp, settings, local, atlas, adds>>

-----------------------------------------------------------------------------
(* The reporter thread *)

Goes(pc) == reporter' = [reporter EXCEPT !.pc = pc]
FreshCounters(r) == [r EXCEPT !.attempts = 0, !.paused = FALSE, !.recent = FALSE]

(* ns_server_presence_update_rate since the last request, and 20 s since a *)
(* DUPLICATE_SERVER.                                                       *)
RateElapses ==
    /\ reporter.recent
    /\ reporter' = [reporter EXCEPT !.recent = FALSE]
    /\ UNCHANGED <<serverUp, presence, settings, local, atlas, adds>>

PauseElapses ==
    /\ reporter.paused
    /\ reporter' = [reporter EXCEPT !.paused = FALSE]
    /\ UNCHANGED <<serverUp, presence, settings, local, atlas, adds>>

(* The clock is read before the lock is taken.                             *)
ReadClock ==
    /\ reporter.pc = "asleep"
    /\ reporter' = [reporter EXCEPT !.pc = "sampled", !.since = 0]
    /\ UNCHANGED <<serverUp, presence, settings, local, atlas, adds>>

(* now - g_presence.lastReport < kPresenceTimeoutUs, in unsigned words.    *)
ReportedInTime == (presence.age - reporter.since) % WordSize < Timeout

Alive == presence.alive /\ ReportedInTime

ReadPresence ==
    /\ reporter.pc = "sampled"
    /\ reporter' =
         LET r == [reporter EXCEPT !.since = 0, !.id = serverId, !.wasAlive = Alive]
         IN IF Alive
            THEN [(IF reporter.wasAlive THEN r ELSE FreshCounters(r)) EXCEPT !.pc = "settings"]
            ELSE IF ~reporter.wasAlive THEN [r EXCEPT !.pc = "asleep"]
            ELSE IF serverId # NoId THEN [r EXCEPT !.pc = "removeDead"]
            ELSE [r EXCEPT !.pc = "clearDead"]
    /\ adds' = IF Alive /\ ~reporter.wasAlive THEN 0 ELSE adds
    /\ UNCHANGED <<serverUp, presence, settings, local, atlas>>

(* remove_server: Atlas takes the listing off, or never hears of it.       *)
RemovePresence(pc, next) ==
    /\ reporter.pc = pc
    /\ \/ listings' = {l \in listings : l.id # reporter.id} /\ UNCHANGED lost
       \/ lost' = lost \cup {reporter.id} /\ UNCHANGED listings
    /\ Goes(next)
    /\ UNCHANGED <<serverUp, presence, settings, local, adds>>

(* The server is dead, whatever it reported while it was being removed.    *)
ClearDead ==
    /\ reporter.pc = "clearDead"
    /\ serverId' = NoId
    /\ presence' = [presence EXCEPT !.alive = FALSE]
    /\ reporter' = [reporter EXCEPT !.pc = "asleep", !.id = NoId]
    /\ UNCHANGED <<serverUp, settings, registeredPassword, atlas, adds>>

PasswordChanged(id) == id # NoId /\ password # registeredPassword

(* An order of steps that forgets the listing instead of removing it.      *)
StepWithoutRemove(id, changed) ==
    IF id # NoId /\ (~reporting \/ changed) THEN "clearOld"
    ELSE IF reporting THEN "send" ELSE "asleep"

(* Where the reporter goes once it has read the settings.                  *)
StepAfterSettings(id, changed) ==
    IF id # NoId /\ (~reporting \/ changed) THEN "removeOld"
    ELSE IF reporting THEN "send" ELSE "asleep"

ReadSettings ==
    /\ reporter.pc = "settings"
    /\ LET changed == PasswordChanged(reporter.id)
           r == IF ~reporting \/ changed THEN FreshCounters(reporter) ELSE reporter
       IN /\ reporter' = [r EXCEPT !.pc = StepAfterSettings(reporter.id, changed),
                                   !.reporting = reporting]
          /\ adds' = IF ~reporting \/ changed THEN 0 ELSE adds
    /\ UNCHANGED <<serverUp, presence, settings, local, atlas>>

ClearOld ==
    /\ reporter.pc = "clearOld"
    /\ serverId' = NoId
    /\ reporter' = [reporter EXCEPT !.pc = IF reporter.reporting THEN "send" ELSE "asleep",
                                    !.id = NoId]
    /\ UNCHANGED <<serverUp, presence, settings, registeredPassword, atlas, adds>>

(* The slip of an attempt limit that is not looked at.                     *)
MayAddWithoutLimit == ~reporter.paused

(* The update rate, the attempts and the pause decide what is sent.        *)
MaySend == ~reporter.recent
MayAdd == reporter.attempts < MaxAttempts /\ ~reporter.paused

SendNothing ==
    /\ reporter.pc = "send"
    /\ ~MaySend \/ (reporter.id = NoId /\ ~MayAdd)
    /\ reporter' = [reporter EXCEPT !.pc = "asleep", !.recent = TRUE]
    /\ UNCHANGED <<serverUp, presence, settings, local, atlas, adds>>

(* The request goes out with the settings of that moment (CurrentPresence). *)
SendRequest ==
    /\ reporter.pc = "send"
    /\ MaySend
    /\ reporter.id = NoId => MayAdd
    /\ reporter' = [reporter EXCEPT !.pc = IF reporter.id = NoId THEN "adding" ELSE "updating",
                                    !.recent = TRUE, !.sent = password]
    /\ adds' = IF reporter.id = NoId THEN adds + 1 ELSE adds
    /\ UNCHANGED <<serverUp, presence, settings, local, atlas>>

FreeIds == Ids \ (ListedIds \cup {serverId})
Listing(id) == [id |-> id, password |-> reporter.sent]

Added ==
    /\ reporter.pc = "adding"
    /\ \E id \in FreeIds :
          /\ listings' = listings \cup {Listing(id)}
          /\ lost' = lost \ {id}
          /\ serverId' = id
    /\ registeredPassword' = reporter.sent
    /\ Goes("asleep")
    /\ UNCHANGED <<serverUp, presence, settings, adds>>

(* A DUPLICATE_SERVER that is not counted as an attempt.                   *)
AttemptsAfterUncounted(answer) ==
    IF answer = "error" THEN reporter.attempts + 1
    ELSE IF answer = "duplicate" THEN reporter.attempts ELSE MaxAttempts

(* No connection and an unreadable reply end the attempts; an error is one *)
(* attempt more.                                                           *)
AttemptsAfter(answer) ==
    IF answer \in {"error", "duplicate"} THEN reporter.attempts + 1 ELSE MaxAttempts

AddFails(answer) ==
    /\ reporter.pc = "adding"
    /\ reporter' = [reporter EXCEPT !.pc = "asleep", !.attempts = AttemptsAfter(answer),
                                    !.paused = answer = "duplicate"]
    /\ UNCHANGED <<serverUp, presence, settings, local, atlas, adds>>

(* Atlas adds the server, and its answer is lost or cannot be read.        *)
AddAnswerLost ==
    /\ reporter.pc = "adding"
    /\ \E id \in FreeIds :
          /\ listings' = listings \cup {Listing(id)}
          /\ lost' = lost \cup {id}
    /\ reporter' = [reporter EXCEPT !.pc = "asleep", !.attempts = MaxAttempts]
    /\ UNCHANGED <<serverUp, presence, settings, local, adds>>

(* A heartbeat: answered or not, nothing changes here ...                  *)
Updated ==
    /\ reporter.pc = "updating"
    /\ Goes("asleep")
    /\ UNCHANGED <<serverUp, presence, settings, local, atlas, adds>>

(* ... unless Atlas had dropped the listing and makes it anew.             *)
Recreated ==
    /\ reporter.pc = "updating"
    /\ reporter.id \notin ListedIds
    /\ \E id \in FreeIds :
          /\ listings' = listings \cup {Listing(id)}
          /\ lost' = lost \ {id}
          /\ serverId' = id
    /\ Goes("asleep")
    /\ UNCHANGED <<serverUp, presence, settings, registeredPassword, adds>>

(* Atlas drops a listing that is not kept up, or whose server it cannot    *)
(* reach.                                                                  *)
AtlasDrops(l) ==
    /\ listings' = listings \ {l}
    /\ lost' = lost \ {l.id}
    /\ UNCHANGED <<serverUp, presence, settings, local, reporter, adds>>

-----------------------------------------------------------------------------
Init ==
    /\ serverUp = FALSE
    /\ presence = [alive |-> FALSE, age |-> AgeCap]
    /\ reporting = TRUE /\ password \in Passwords
    /\ serverId = NoId /\ registeredPassword = password
    /\ reporter = [pc |-> "asleep", since |-> 0, id |-> NoId, wasAlive |-> FALSE, attempts |-> 0,
                   recent |-> FALSE, paused |-> FALSE, reporting |-> FALSE, sent |-> password]
    /\ listings = {} /\ lost = {} /\ adds = 0

AddAnswers == {"error", "duplicate", "unreadable", "noConnection"}

Answers ==
    \/ Added \/ AddAnswerLost \/ Updated \/ Recreated
    \/ \E answer \in AddAnswers : AddFails(answer)

Reporter ==
    \/ ReadClock \/ ReadPresence
    \/ RemovePresence("removeDead", "clearDead") \/ ClearDead
    \/ ReadSettings
    \/ RemovePresence("removeOld", "clearOld") \/ ClearOld
    \/ SendNothing \/ SendRequest \/ Answers

Next ==
    \/ ServerStarts \/ ServerStops \/ UpdateServerPresence \/ SettingsChange
    \/ Tick \/ RateElapses \/ PauseElapses
    \/ Reporter
    \/ \E l \in listings : AtlasDrops(l)

(* The reporter never stops, every request of it ends, a running server    *)
(* reports, and time passes.                                               *)
Fairness ==
    /\ WF_vars(Reporter)
    /\ WF_vars(UpdateServerPresence)
    /\ WF_vars(Tick) /\ WF_vars(RateElapses) /\ WF_vars(PauseElapses)

Spec == Init /\ [][Next]_vars /\ Fairness

-----------------------------------------------------------------------------
Places == {"asleep", "sampled", "removeDead", "clearDead", "settings", "removeOld", "clearOld",
           "send", "adding", "updating"}

(* Every variable has its type; the attempts never pass their limit.       *)
TypeOK ==
    /\ serverUp \in BOOLEAN /\ reporting \in BOOLEAN
    /\ presence \in [alive : BOOLEAN, age : 0 .. AgeCap]
    /\ {password, registeredPassword} \subseteq Passwords
    /\ serverId \in Ids \cup {NoId}
    /\ reporter \in [pc : Places, since : 0 .. MaxDelay, id : Ids \cup {NoId},
                     wasAlive : BOOLEAN, attempts : 0 .. MaxAttempts, recent : BOOLEAN,
                     paused : BOOLEAN, reporting : BOOLEAN, sent : Passwords]
    /\ listings \subseteq [id : Ids, password : Passwords]
    /\ lost \subseteq Ids
    /\ adds \in Nat

(* Atlas lists the server under no id but the current one, except where a  *)
(* request or its answer was lost: what is replaced or given up is removed *)
(* first (PresenceReporter's RemovePresence before each clear).            *)
NoStrayListing ==
    \A l \in listings : \/ l.id \in lost \/ l.id = serverId

(* However switching the listing, restarting the server and failing        *)
(* requests interleave, no more than five add requests are sent without a  *)
(* new start (attempts, kMaxRegistrationAttempts).                         *)
AddsBounded == adds <= MaxAttempts

(* A server that stops, or whose reporting is switched off for good, ends  *)
(* up off the list, whatever request was under way (IsServerListed).       *)
TakenOffTheList == <>[](~serverUp) \/ <>[](~reporting) => <>[](serverId = NoId)

(* A server that keeps running and reporting is listed again and again, or *)
(* has used up its attempts: neither a report lost to ClearDead nor the    *)
(* pauses keep it off.  Reports that overtake a reading of the clock for   *)
(* ever would (RemovedOnlyAfterSilence), and are left aside.               *)
ReportOvertakesClock == presence.age < reporter.since
ComesOnTheList ==
    <>[](serverUp /\ reporting /\ ~ReportOvertakesClock) =>
        []<>(serverId # NoId \/ reporter.attempts = MaxAttempts)

(* Once the password stays the same, the listing the server has is one     *)
(* that was added with it ("a new one needs a new listing").               *)
PasswordCatchesUp ==
    \A p \in Passwords :
        <>[](password = p) => <>[](serverId # NoId => registeredPassword = p)

(* In the end the list follows the server, the switch and the password.    *)
ListFollows == TakenOffTheList /\ ComesOnTheList /\ PasswordCatchesUp

(* "remove_server (DELETE) once the server has stopped reporting for 60 s" *)
(* (runtime_atlas_server.inl:16): the reporter gives a server up only when *)
(* its last report is that old.                                            *)
RemovedOnlyAfterSilence ==
    [][reporter.wasAlive /\ ~reporter'.wasAlive => presence.age >= Timeout]_vars

=============================================================================
