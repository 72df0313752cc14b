------------------------------ MODULE SearchHost ------------------------------
(***************************************************************************)
(* The shared local SearXNG backend.  Launchers (one search lease each)    *)
(* meet in a private directory: two lock files, the record of the service, *)
(* and one marker per lease that its owner keeps locked.  The first        *)
(* launcher starts a host process, which elects itself by the service      *)
(* lock, owns the backend, and stops it once it has seen no interest for   *)
(* the grace period.  Inspectors are the other commands that count the     *)
(* interests in that directory; counting also deletes the markers it takes *)
(* for abandoned ones.                                                     *)
(*                                                                         *)
(* Any process may die between two steps: the system frees its locks, its  *)
(* files stay.                                                             *)
(*                                                                         *)
(* Source: crates/nan-harness-runtime/src/search_supervisor/host.rs and    *)
(* the marker and record functions of search_supervisor.rs.  File locks,   *)
(* directory entries and processes are the operating system's.             *)
(***************************************************************************)
EXTENDS Naturals, FiniteSets

CONSTANTS
    Launchers,   \* processes that acquire a lease; each has its own marker
    Hosts,       \* host processes that can exist at a time
    Inspectors,  \* processes that count interests without the start lock
    NONE

ASSUME SearchHostAssumption ==
    /\ NONE \notin Launchers \cup Hosts \cup Inspectors
    /\ Launchers \cap Hosts = {} /\ Launchers \cap Inspectors = {}
    /\ Hosts \cap Inspectors = {}

Scanners == Hosts \cup Inspectors

VARIABLES
    start,      \* who holds the start lock
    service,    \* who holds the service lock
    record,     \* the host the record file names
    file,       \* file[l]: the marker in the directory, with or without its bytes
    lock,       \* lock[l]: who holds the lock of the marker's file
    launcher,   \* launcher[l]: where l stands
    mine,       \* mine[l]: the host l started and waits for
    host,       \* host[h]: where h stands
    backend,    \* backend[h]: the process h spawned
    idle,       \* idle[h]: how long h has seen no interest
    recovered,  \* recovered[h]: h has respawned its backend once
    todo,       \* todo[s]: markers the scan of s has yet to look at
    doomed,     \* doomed[s]: the marker s is about to remove
    verdict,    \* verdict[h]: what the scan of h has come to
    owed        \* history: leases that lost their backend and still stand

locks == <<start, service>>
marker == <<file, lock>>
launching == <<launcher, mine>>
hosting == <<host, backend, idle, recovered>>
scan == <<todo, doomed, verdict, owed>>
vars == <<locks, record, marker, launching, hosting, scan>>

\* Where a launcher stands; "unlocking" and "unlinking" are LeaseMarker::release.
LauncherStates == {"idle", "waiting", "writing", "locking", "marked", "probing",
                   "awaiting", "leased", "unlocking", "unlinking"}
\* "scanning" is begin_idle_shutdown, "rescanning" the look after a backend exit.
HostStates == {"gone", "starting", "elected", "recording", "serving", "scanning",
               "rescanning", "killing", "unrecording", "releasing", "exiting"}
BackendStates == {"none", "booting", "listening"}
Verdicts == {"none", "active", "failed"}
IdleStates == {"no", "running", "over"}

TypeOK ==
    /\ start \in Launchers \cup Hosts \cup {NONE}
    /\ service \in Launchers \cup Hosts \cup {NONE}
    /\ record \in Hosts \cup {NONE}
    /\ file \in [Launchers -> {"absent", "empty", "whole"}]
    /\ lock \in [Launchers -> Launchers \cup Scanners \cup {NONE}]
    /\ launcher \in [Launchers -> LauncherStates]
    /\ mine \in [Launchers -> Hosts \cup {NONE}]
    /\ host \in [Hosts -> HostStates]
    /\ backend \in [Hosts -> BackendStates]
    /\ idle \in [Hosts -> IdleStates]
    /\ recovered \in [Hosts -> BOOLEAN]
    /\ todo \in [Scanners -> SUBSET Launchers]
    /\ doomed \in [Scanners -> Launchers \cup {NONE}]
    /\ verdict \in [Hosts -> Verdicts]
    /\ owed \subseteq Launchers

Init ==
    /\ start = NONE /\ service = NONE /\ record = NONE
    /\ file = [l \in Launchers |-> "absent"]
    /\ lock = [l \in Launchers |-> NONE]
    /\ launcher = [l \in Launchers |-> "idle"]
    /\ mine = [l \in Launchers |-> NONE]
    /\ host = [h \in Hosts |-> "gone"]
    /\ backend = [h \in Hosts |-> "none"]
    /\ idle = [h \in Hosts |-> "no"]
    /\ recovered = [h \in Hosts |-> FALSE]
    /\ todo = [s \in Scanners |-> {}]
    /\ doomed = [s \in Scanners |-> NONE]
    /\ verdict = [h \in Hosts |-> "none"]
    /\ owed = {}

\* A lock that its holder gives back, if p is the holder.
Freed(l, p) == IF l = p THEN NONE ELSE l

Held(s) == {l \in Launchers : lock[l] = s}
Scanning(s) == todo[s] # {} \/ doomed[s] # NONE \/ Held(s) # {}
Mentioned(l) == \E s \in Scanners : l \in todo[s] \/ doomed[s] = l \/ lock[l] = s
\* A lease the directory lists.
Visible(l) == launcher[l] = "leased" /\ file[l] # "absent"
Listening == \E h \in Hosts : backend[h] = "listening"

-----------------------------------------------------------------------------
(* active_search_interests: one listed marker after the other.              *)

list(s) == todo' = [todo EXCEPT ![s] = {l \in Launchers : file[l] # "absent"}]

\* The scan of a host comes to v; what an inspector counts is only shown.
comes_to(s, v) == IF s \in Hosts THEN [verdict EXCEPT ![s] = v] ELSE verdict

LooksAt(s, l) == l \in todo[s] /\ Held(s) = {} /\ doomed[s] = NONE

\* The listed marker is gone, and looking at it fails the whole scan.
MarkerMissing(s, l) ==
    /\ LooksAt(s, l) /\ file[l] = "absent"
    /\ todo' = [todo EXCEPT ![s] = {}]
    /\ verdict' = comes_to(s, "failed")
    /\ UNCHANGED <<locks, record, marker, launching, hosting, doomed, owed>>

\* Somebody has the marker locked: an interest, if its bytes are there.
MarkerBusy(s, l) ==
    /\ LooksAt(s, l) /\ file[l] # "absent" /\ lock[l] # NONE
    /\ todo' = [todo EXCEPT ![s] = @ \ {l}]
    /\ verdict' = IF file[l] = "whole" THEN comes_to(s, "active") ELSE verdict
    /\ UNCHANGED <<locks, record, marker, launching, hosting, doomed, owed>>

\* Mutant of MarkerLocked: the last marker looked at decides, whatever was counted before it.
last_marker_decides(s, l) ==
    /\ LooksAt(s, l) /\ file[l] # "absent" /\ lock[l] = NONE
    /\ todo' = [todo EXCEPT ![s] = @ \ {l}]
    /\ lock' = [lock EXCEPT ![l] = s]
    /\ verdict' = comes_to(s, "none")
    /\ UNCHANGED <<locks, record, file, launching, hosting, doomed, owed>>

\* Nobody has it locked: the scan locks it to look at its bytes.
MarkerLocked(s, l) ==
    /\ LooksAt(s, l) /\ file[l] # "absent" /\ lock[l] = NONE
    /\ todo' = [todo EXCEPT ![s] = @ \ {l}]
    /\ lock' = [lock EXCEPT ![l] = s]
    /\ UNCHANGED <<locks, record, file, launching, hosting, doomed, verdict, owed>>

\* It lets go of the marker, and will delete it if its bytes were right.
MarkerChecked(s, l) ==
    /\ lock[l] = s
    /\ lock' = [lock EXCEPT ![l] = NONE]
    /\ doomed' = [doomed EXCEPT ![s] = IF file[l] = "whole" THEN l ELSE NONE]
    /\ UNCHANGED <<locks, record, file, launching, hosting, todo, verdict, owed>>

MarkerRemoved(s, l) ==
    /\ doomed[s] = l
    /\ file' = [file EXCEPT ![l] = "absent"]
    /\ doomed' = [doomed EXCEPT ![s] = NONE]
    /\ owed' = owed \ {l}
    /\ UNCHANGED <<locks, record, lock, launching, hosting, todo, verdict>>

ScanStep(s) == \E l \in Launchers :
    \/ MarkerMissing(s, l) \/ MarkerBusy(s, l) \/ MarkerLocked(s, l)
    \/ MarkerChecked(s, l) \/ MarkerRemoved(s, l)

\* Mutant of Inspect: the count takes the start lock, as a host's does, and keeps it.
inspect_under_gate(s) ==
    /\ s \in Inspectors /\ ~Scanning(s)
    /\ start = NONE /\ start' = s
    /\ list(s)
    /\ UNCHANGED <<service, record, marker, launching, hosting, doomed, verdict, owed>>

\* A command that counts the interests, and does not take the start lock.
Inspect(s) ==
    /\ s \in Inspectors /\ ~Scanning(s)
    /\ list(s)
    /\ UNCHANGED <<locks, record, marker, launching, hosting, doomed, verdict, owed>>

-----------------------------------------------------------------------------
(* acquire: everything up to the lease happens under the start lock.        *)

\* A new marker has a random name, so no scan can know of it.
Request(l) ==
    /\ launcher[l] = "idle" /\ file[l] = "absent" /\ ~Mentioned(l)
    /\ launcher' = [launcher EXCEPT ![l] = "waiting"]
    /\ UNCHANGED <<locks, record, marker, mine, hosting, scan>>

\* wait_for_lock gives up.
GateTimeout(l) ==
    /\ launcher[l] = "waiting" /\ start # NONE
    /\ launcher' = [launcher EXCEPT ![l] = "idle"]
    /\ UNCHANGED <<locks, record, marker, mine, hosting, scan>>

\* The start lock, and create_lease_marker's file: it exists before its bytes.
OpenMarker(l) ==
    /\ launcher[l] = "waiting" /\ start = NONE
    /\ start' = l
    /\ file' = [file EXCEPT ![l] = "empty"]
    /\ launcher' = [launcher EXCEPT ![l] = "writing"]
    /\ UNCHANGED <<service, record, lock, mine, hosting, scan>>

WriteMarker(l) ==
    /\ launcher[l] = "writing"
    /\ file' = [file EXCEPT ![l] = "whole"]
    /\ launcher' = [launcher EXCEPT ![l] = "locking"]
    /\ UNCHANGED <<locks, record, lock, mine, hosting, scan>>

\* file.lock() waits for a scan that has the marker locked.  It locks the
\* open file, whether or not the directory still lists it.
LockMarker(l) ==
    /\ launcher[l] = "locking" /\ lock[l] = NONE
    /\ lock' = [lock EXCEPT ![l] = l]
    /\ launcher' = [launcher EXCEPT ![l] = "marked"]
    /\ UNCHANGED <<locks, record, file, mine, hosting, scan>>

\* Mutant of JoinService: the record is cleaned up before the service lock is looked at.
clean_then_join(l) ==
    /\ launcher[l] = "marked" /\ service # NONE
    /\ record' = NONE
    /\ launcher' = [launcher EXCEPT ![l] = "unlocking"]
    /\ UNCHANGED <<locks, marker, mine, hosting, scan>>

\* The service lock is busy: there must be a record, whoever wrote it.
JoinService(l) ==
    /\ launcher[l] = "marked" /\ service # NONE
    /\ launcher' = [launcher EXCEPT ![l] = IF record = NONE THEN "unlocking" ELSE "awaiting"]
    /\ UNCHANGED <<locks, record, marker, mine, hosting, scan>>

TakeService(l) ==
    /\ launcher[l] = "marked" /\ service = NONE
    /\ service' = l
    /\ launcher' = [launcher EXCEPT ![l] = "probing"]
    /\ UNCHANGED <<start, record, marker, mine, hosting, scan>>

\* endpoint_is_listening: a listener nobody vouches for is left alone.
EndpointTaken(l) ==
    /\ launcher[l] = "probing" /\ Listening
    /\ service' = NONE
    /\ launcher' = [launcher EXCEPT ![l] = "unlocking"]
    /\ UNCHANGED <<start, record, marker, mine, hosting, scan>>

\* The stale record goes, then the service lock, and the host is started.
SpawnHost(l, h) ==
    /\ launcher[l] = "probing" /\ ~Listening
    /\ host[h] = "gone" /\ backend[h] = "none" /\ \A m \in Launchers : mine[m] # h
    /\ record' = NONE
    /\ service' = NONE
    /\ host' = [host EXCEPT ![h] = "starting"]
    /\ mine' = [mine EXCEPT ![l] = h]
    /\ launcher' = [launcher EXCEPT ![l] = "awaiting"]
    /\ UNCHANGED <<start, marker, backend, idle, recovered, scan>>

\* The request or the process of the host could not be made.
StartFails(l) ==
    /\ launcher[l] = "probing" /\ ~Listening
    /\ record' = NONE
    /\ service' = NONE
    /\ launcher' = [launcher EXCEPT ![l] = "unlocking"]
    /\ UNCHANGED <<start, marker, mine, hosting, scan>>

\* The endpoint answers, and the host l started has not exited.
Lease(l) ==
    /\ launcher[l] = "awaiting" /\ Listening
    /\ mine[l] # NONE => host[mine[l]] # "gone"
    /\ launcher' = [launcher EXCEPT ![l] = "leased"]
    /\ mine' = [mine EXCEPT ![l] = NONE]
    /\ start' = NONE
    /\ UNCHANGED <<service, record, marker, hosting, scan>>

\* The host l started has exited, or the readiness bound has passed: a
\* backend that listens need not be ready.
GiveUp(l) ==
    /\ launcher[l] = "awaiting"
    /\ launcher' = [launcher EXCEPT ![l] = "unlocking"]
    /\ mine' = [mine EXCEPT ![l] = NONE]
    /\ UNCHANGED <<locks, record, marker, hosting, scan>>

\* The lease is dropped.
Release(l) ==
    /\ launcher[l] = "leased"
    /\ launcher' = [launcher EXCEPT ![l] = "unlocking"]
    /\ owed' = owed \ {l}
    /\ UNCHANGED <<locks, record, marker, mine, hosting, todo, doomed, verdict>>

\* LeaseMarker::release; a failed acquisition still holds the start lock,
\* and drops it last.
UnlockMarker(l) ==
    /\ launcher[l] = "unlocking"
    /\ lock' = [lock EXCEPT ![l] = NONE]
    /\ launcher' = [launcher EXCEPT ![l] = "unlinking"]
    /\ UNCHANGED <<locks, record, file, mine, hosting, scan>>

UnlinkMarker(l) ==
    /\ launcher[l] = "unlinking"
    /\ file' = [file EXCEPT ![l] = "absent"]
    /\ start' = Freed(start, l)
    /\ launcher' = [launcher EXCEPT ![l] = "idle"]
    /\ UNCHANGED <<service, record, lock, mine, hosting, scan>>

LauncherDies(l) ==
    /\ launcher[l] # "idle"
    /\ start' = Freed(start, l) /\ service' = Freed(service, l)
    /\ lock' = [lock EXCEPT ![l] = Freed(@, l)]
    /\ launcher' = [launcher EXCEPT ![l] = "idle"]
    /\ mine' = [mine EXCEPT ![l] = NONE]
    /\ owed' = owed \ {l}
    /\ UNCHANGED <<record, file, hosting, todo, doomed, verdict>>

-----------------------------------------------------------------------------
(* run_searxng_host and host_backend.                                       *)

Elect(h) ==
    /\ host[h] = "starting"
    /\ IF service = NONE
       THEN service' = h /\ host' = [host EXCEPT ![h] = "elected"]
       ELSE service' = service /\ host' = [host EXCEPT ![h] = "gone"]
    /\ UNCHANGED <<start, record, marker, launching, backend, idle, recovered, scan>>

\* host_backend returns, in whatever way: its memory is gone.
Returns(h) ==
    /\ host' = [host EXCEPT ![h] = "unrecording"]
    /\ recovered' = [recovered EXCEPT ![h] = FALSE]

SpawnBackend(h) ==
    /\ host[h] = "elected"
    /\ backend' = [backend EXCEPT ![h] = "booting"]
    /\ host' = [host EXCEPT ![h] = "recording"]
    /\ UNCHANGED <<locks, record, marker, launching, idle, recovered, scan>>

\* spawn_hosted_searxng returns an error.
SpawnFails(h) ==
    /\ host[h] = "elected"
    /\ Returns(h)
    /\ UNCHANGED <<locks, record, marker, launching, backend, idle, scan>>

WriteRecord(h) ==
    /\ host[h] = "recording"
    /\ record' = h
    /\ host' = [host EXCEPT ![h] = "serving"]
    /\ UNCHANGED <<locks, marker, launching, backend, idle, recovered, scan>>

\* write_record returns an error, before or after the record is in its place:
\* the host leaves, and its backend sees the lifetime pipe closed.
RecordFails(h) ==
    /\ host[h] = "recording"
    /\ record' \in {record, h}
    /\ Returns(h)
    /\ UNCHANGED <<locks, marker, launching, backend, idle, scan>>

\* begin_idle_shutdown finds the start lock taken.
PollBusy(h) ==
    /\ host[h] = "serving" /\ start # NONE
    /\ idle' = [idle EXCEPT ![h] = "no"]
    /\ UNCHANGED <<locks, record, marker, launching, host, backend, recovered, scan>>

\* It takes the lock and counts the interests.
Poll(h) ==
    /\ host[h] = "serving" /\ start = NONE
    /\ start' = h
    /\ list(h)
    /\ host' = [host EXCEPT ![h] = "scanning"]
    /\ UNCHANGED <<service, record, marker, launching, backend, idle, recovered,
                   doomed, verdict, owed>>

\* What the count was is forgotten when it has been acted on.
acted(h) == ~Scanning(h) /\ verdict' = [verdict EXCEPT ![h] = "none"]

\* Mutant of StayUp: every poll starts the silence anew.
stay_up_afresh(h) ==
    /\ host[h] = "scanning" /\ acted(h)
    /\ verdict[h] # "none" \/ idle[h] # "over"
    /\ idle' = [idle EXCEPT ![h] = "no"]
    /\ start' = NONE
    /\ host' = [host EXCEPT ![h] = "serving"]
    /\ UNCHANGED <<service, record, marker, launching, backend, recovered, todo, doomed, owed>>

\* An interest, an error or too short a silence: the start lock goes back.
StayUp(h) ==
    /\ host[h] = "scanning" /\ acted(h)
    /\ verdict[h] # "none" \/ idle[h] # "over"
    /\ idle' = [idle EXCEPT ![h] = IF verdict[h] = "none" THEN "running" ELSE "no"]
    /\ start' = NONE
    /\ host' = [host EXCEPT ![h] = "serving"]
    /\ UNCHANGED <<service, record, marker, launching, backend, recovered, todo, doomed, owed>>

\* Mutant of ShutDown: a count that failed is a count of zero.
shut_down_on_error(h) ==
    /\ host[h] = "scanning" /\ acted(h)
    /\ verdict[h] # "active" /\ idle[h] = "over"
    /\ idle' = [idle EXCEPT ![h] = "no"]
    /\ host' = [host EXCEPT ![h] = "killing"]
    /\ UNCHANGED <<locks, record, marker, launching, backend, recovered, todo, doomed, owed>>

\* No interest for the grace period: the start lock is kept to the end.
ShutDown(h) ==
    /\ host[h] = "scanning" /\ acted(h)
    /\ verdict[h] = "none" /\ idle[h] = "over"
    /\ idle' = [idle EXCEPT ![h] = "no"]
    /\ host' = [host EXCEPT ![h] = "killing"]
    /\ UNCHANGED <<locks, record, marker, launching, backend, recovered, todo, doomed, owed>>

KillBackend(h) ==
    /\ host[h] = "killing"
    /\ backend' = [backend EXCEPT ![h] = "none"]
    /\ Returns(h)
    /\ UNCHANGED <<locks, record, marker, launching, idle, scan>>

\* kill returns an error: the start lock goes at once, and the host leaves.
KillFails(h) ==
    /\ host[h] = "killing"
    /\ start' = NONE
    /\ Returns(h)
    /\ UNCHANGED <<service, record, marker, launching, backend, idle, scan>>

\* backend.wait() returns: the first time the interests decide, counted
\* without the start lock.
BackendLost(h) ==
    /\ host[h] = "serving" /\ backend[h] = "none"
    /\ IF recovered[h]
       THEN Returns(h) /\ UNCHANGED <<todo, owed>>
       ELSE /\ host' = [host EXCEPT ![h] = "rescanning"]
            /\ list(h)
            /\ UNCHANGED recovered
            /\ owed' = {l \in Launchers : Visible(l)}
    /\ idle' = [idle EXCEPT ![h] = "no"]
    /\ UNCHANGED <<locks, record, marker, launching, backend, doomed, verdict>>

Recover(h) ==
    /\ host[h] = "rescanning" /\ acted(h)
    /\ verdict[h] = "active"
    /\ recovered' = [recovered EXCEPT ![h] = TRUE]
    /\ host' = [host EXCEPT ![h] = "elected"]
    /\ owed' = {}
    /\ UNCHANGED <<locks, record, marker, launching, backend, idle, todo, doomed>>

GiveUpService(h) ==
    /\ host[h] = "rescanning" /\ acted(h)
    /\ verdict[h] # "active"
    /\ Returns(h)
    /\ owed' = {}
    /\ UNCHANGED <<locks, record, marker, launching, backend, idle, todo, doomed>>

RemoveRecord(h) ==
    /\ host[h] = "unrecording"
    /\ record' = NONE
    /\ host' = [host EXCEPT ![h] = "releasing"]
    /\ UNCHANGED <<locks, marker, launching, backend, idle, recovered, scan>>

DropService(h) ==
    /\ host[h] = "releasing"
    /\ service' = NONE
    /\ host' = [host EXCEPT ![h] = "exiting"]
    /\ UNCHANGED <<start, record, marker, launching, backend, idle, recovered, scan>>

Exit(h) ==
    /\ host[h] = "exiting"
    /\ start' = Freed(start, h)
    /\ host' = [host EXCEPT ![h] = "gone"]
    /\ UNCHANGED <<service, record, marker, launching, backend, idle, recovered, scan>>

\* The process dies: its locks are free, its memory is gone, its backend and
\* its record are not.
HostDies(h) ==
    /\ host[h] # "gone"
    /\ start' = Freed(start, h) /\ service' = Freed(service, h)
    /\ lock' = [l \in Launchers |-> Freed(lock[l], h)]
    /\ todo' = [todo EXCEPT ![h] = {}]
    /\ doomed' = [doomed EXCEPT ![h] = NONE]
    /\ verdict' = [verdict EXCEPT ![h] = "none"]
    /\ owed' = IF host[h] = "rescanning" THEN {} ELSE owed
    /\ idle' = [idle EXCEPT ![h] = "no"]
    /\ recovered' = [recovered EXCEPT ![h] = FALSE]
    /\ host' = [host EXCEPT ![h] = "gone"]
    /\ UNCHANGED <<record, file, launching, backend>>

GraceEnds(h) ==
    /\ idle[h] = "running"
    /\ idle' = [idle EXCEPT ![h] = "over"]
    /\ UNCHANGED <<locks, record, marker, launching, host, backend, recovered, scan>>

\* The backend's process; only one can have the port.
BackendListens(h) ==
    /\ backend[h] = "booting" /\ ~Listening
    /\ backend' = [backend EXCEPT ![h] = "listening"]
    /\ UNCHANGED <<locks, record, marker, launching, host, idle, recovered, scan>>

BackendExits(h) ==
    /\ backend[h] # "none"
    /\ backend' = [backend EXCEPT ![h] = "none"]
    /\ UNCHANGED <<locks, record, marker, launching, host, idle, recovered, scan>>

-----------------------------------------------------------------------------
AcquireStep(l) ==
    \/ GateTimeout(l) \/ OpenMarker(l) \/ WriteMarker(l) \/ LockMarker(l)
    \/ JoinService(l) \/ TakeService(l) \/ EndpointTaken(l)
    \/ StartFails(l) \/ \E h \in Hosts : SpawnHost(l, h)
    \/ Lease(l) \/ GiveUp(l)
    \/ UnlockMarker(l) \/ UnlinkMarker(l)

LauncherStep(l) == AcquireStep(l) \/ Request(l) \/ Release(l) \/ LauncherDies(l)

ServeStep(h) ==
    \/ Elect(h) \/ SpawnBackend(h) \/ SpawnFails(h) \/ WriteRecord(h) \/ RecordFails(h)
    \/ PollBusy(h) \/ Poll(h) \/ StayUp(h) \/ ShutDown(h) \/ KillBackend(h) \/ KillFails(h)
    \/ BackendLost(h) \/ Recover(h) \/ GiveUpService(h)
    \/ RemoveRecord(h) \/ DropService(h) \/ Exit(h)

HostStep(h) == ServeStep(h) \/ HostDies(h) \/ GraceEnds(h)
                 \/ BackendListens(h) \/ BackendExits(h)

Next ==
    \/ \E l \in Launchers : LauncherStep(l)
    \/ \E h \in Hosts : HostStep(h)
    \/ \E s \in Scanners : ScanStep(s)
    \/ \E s \in Inspectors : Inspect(s)

Spec == Init /\ [][Next]_vars

\* A process that is scheduled makes its next step; the grace period passes;
\* a backend whose host is gone sees its lifetime pipe closed.
Fairness ==
    /\ \A l \in Launchers : WF_vars(AcquireStep(l))
    /\ \A h \in Hosts :
        /\ WF_vars(ServeStep(h))
        /\ WF_vars(GraceEnds(h))
        /\ WF_vars(host[h] = "gone" /\ BackendExits(h))
    /\ \A s \in Scanners : WF_vars(ScanStep(s))

FairSpec == Spec /\ Fairness

-----------------------------------------------------------------------------
\* An idle shutdown (host.rs:313) never kills the backend of a lease whose
\* marker is in the directory, whatever ran between the count and the kill.
ShutdownSparesLeases ==
    \A h \in Hosts : host[h] = "killing" => \A l \in Launchers : ~Visible(l)

\* What SearchLease documents (search_supervisor.rs:277): its marker keeps an
\* owner from shutting down while the session still uses the service.
LeaseKeepsBackend ==
    \A h \in Hosts : host[h] = "killing" =>
        \A l \in Launchers : launcher[l] # "leased"

\* While a host serves, it has the service lock and the record names it: no
\* launcher's clean-up of a stale record (host.rs:65) takes it away.
RecordNamesOwner ==
    \A h \in Hosts : host[h] \in {"serving", "scanning", "rescanning", "killing"} =>
        service = h /\ record = h

\* A host that may still respawn its backend (host.rs:305) does so if a lease
\* the directory lists has lost it and still stands, unless the count failed.
RecoversForLeases ==
    [][\A h \in Hosts : GiveUpService(h) => verdict[h] = "failed" \/ owed = {}]_vars

\* Once no session asks for a lease any more and every lease is dropped, every
\* acquisition comes to its end, whoever has locked or deleted its marker, and
\* no host and no backend stays behind, even with markers and records of dead
\* processes in the directory (host.rs:35 and 279).
NothingStaysBehind ==
    /\ <>[][\A l \in Launchers : ~Request(l)]_vars
    /\ \A l \in Launchers : []<>(launcher[l] # "leased")
    => <>[]( /\ \A l \in Launchers : launcher[l] = "idle"
             /\ \A h \in Hosts : host[h] = "gone" /\ backend[h] = "none" )
=============================================================================
