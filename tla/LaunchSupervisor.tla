--------------------------- MODULE LaunchSupervisor ---------------------------
(***************************************************************************)
(* One launch of a harness, from its start to the removal of its private   *)
(* workspace.  The launcher runs the client beside a bridge of its own;    *)
(* for Hermes it first stages a profile in the native home and starts a    *)
(* gateway process (the owner) that clients share their history through,   *)
(* each by one helper process at a time.  However the launch ends, by the  *)
(* client, a signal, the bridge or the owner, it reaps the client, drains  *)
(* the owner, clears the profile and stops the bridge, in this order, and  *)
(* keeps the workspace when it cannot tell that all of them are gone.      *)
(*                                                                         *)
(* A process may exit at any time, linger after SIGKILL, or refuse it.     *)
(* Timers may fire whenever they run; the second, forcing signal only      *)
(* shortens one of them.                                                   *)
(*                                                                         *)
(* Source: crates/nan-harness-runtime/src/supervisor/lifecycle.rs,         *)
(* supervisor/hermes.rs, temporary/lifecycle.rs and signals.rs.            *)
(***************************************************************************)
CONSTANT NONE

\* What a launch that has not come to its end would return.
ASSUME LaunchAssumption == NONE \notin {"exited", "cancelled", "error", "dropped"}

VARIABLES
    bridged,    \* the launch has a bridge of its own
    hermes,     \* its client is Hermes, which needs a gateway
    at,         \* where the launch stands
    outcome,    \* what it will return if nothing fails any more
    result,     \* what it returned
    signalled   \* cancellation.signal() is set

launch == <<bridged, hermes>>

VARIABLES
    staged,     \* the native home holds the launch's configuration, or some of it
    retain, uncertain,  \* of TemporaryWorkspace
    workspace   \* "there", "kept" or "removed"

files == <<staged, retain, uncertain, workspace>>

VARIABLES client, owner, helper, bridge

processes == <<client, owner, helper, bridge>>
vars == <<launch, at, outcome, result, signalled, files, processes>>

\* The helpers, by their argument; "resolve" asks for the runtime's command.
Tasks == {"resolve", "absent", "stage", "ready", "refresh", "cleanup"}

\* "left" is an owner that exited with status 0 though nobody asked it to.
ProcessStates == {"none", "running", "killed", "exited", "left", "failed"}
Over(process) == process \in {"exited", "left", "failed"}
Alive(process) == process \in {"running", "killed"}

TypeOK ==
    /\ bridged \in BOOLEAN /\ hermes \in BOOLEAN /\ signalled \in BOOLEAN
    /\ at \in Tasks \cup {"start", "supervise", "terminate", "reap", "drain",
                          "clear", "bridge", "returned"}
    /\ outcome \in {NONE, "exited", "cancelled", "error"}
    /\ result \in {NONE, "exited", "cancelled", "error", "dropped"}
    /\ staged \in BOOLEAN /\ retain \in BOOLEAN /\ uncertain \in BOOLEAN
    /\ workspace \in {"there", "kept", "removed"}
    /\ client \in ProcessStates \ {"left"} /\ owner \in ProcessStates
    /\ helper \in ProcessStates \ {"left"}
    /\ bridge \in {"none", "serving", "stopping", "ended", "broken"}
    /\ at \in {"terminate", "reap", "bridge"} => outcome # NONE
    /\ result = NONE <=> at # "returned"

Init ==
    /\ bridged \in BOOLEAN /\ hermes \in BOOLEAN
    /\ at = "start" /\ outcome = NONE /\ result = NONE /\ signalled = FALSE
    /\ staged = FALSE /\ retain = FALSE /\ uncertain = FALSE /\ workspace = "there"
    /\ client = "none" /\ owner = "none" /\ helper = "none"
    /\ bridge = IF bridged THEN "serving" ELSE "none"

-----------------------------------------------------------------------------
(* The processes and the user.                                               *)

ClientExits ==
    /\ client = "running" /\ client' = "exited"
    /\ UNCHANGED <<launch, at, outcome, result, signalled, files, owner, helper, bridge>>

\* The end of its standard input asks the owner to stop: the drain.
OwnerExits ==
    /\ owner = "running" /\ owner' \in {IF at = "drain" THEN "exited" ELSE "left", "failed"}
    /\ UNCHANGED <<launch, at, outcome, result, signalled, files, client, helper, bridge>>

\* A cleanup that succeeds found no owner and removed the configuration.
HelperExits ==
    /\ helper = "running" /\ helper' \in {"exited", "failed"}
    /\ staged' = (staged /\ ~(at = "cleanup" /\ helper' = "exited"))
    /\ UNCHANGED <<launch, at, outcome, result, signalled, retain, uncertain, workspace,
                   client, owner, bridge>>

Dies ==
    /\ \/ client = "killed" /\ client' = "failed" /\ UNCHANGED <<owner, helper>>
       \/ owner = "killed" /\ owner' = "failed" /\ UNCHANGED <<client, helper>>
       \/ helper = "killed" /\ helper' = "failed" /\ UNCHANGED <<client, owner>>
    /\ UNCHANGED <<launch, at, outcome, result, signalled, files, bridge>>

\* The server's task: asked to, or over an error.
BridgeEnds ==
    /\ bridge \in {"serving", "stopping"} /\ bridge' \in {"ended", "broken"}
    /\ UNCHANGED <<launch, at, outcome, result, signalled, files, client, owner, helper>>

\* CancellationToken::cancel, the first time.
Signal ==
    /\ ~signalled /\ result = NONE /\ signalled' = TRUE
    /\ UNCHANGED <<launch, at, outcome, result, files, processes>>

-----------------------------------------------------------------------------
(* How the launch goes on after what it waited for.                          *)

mark_uncertain == uncertain' = TRUE /\ retain' = TRUE

\* The gateway is dealt with: the bridge is shut down and waited for.
Conclude(o) ==
    /\ outcome' = o /\ at' = "bridge"
    /\ bridge' = IF bridge = "serving" THEN "stopping" ELSE bridge

\* Mutant of NotStarted: the signal hides any error.
NotStartedBySignal ==
    Conclude(IF signalled THEN "cancelled" ELSE "error")

\* RunningHarness::start hides an error behind the signal that caused it,
\* unless something may have been left behind.
NotStarted ==
    Conclude(IF signalled /\ ~uncertain' THEN "cancelled" ELSE "error")

\* Mutant of Stopped: what the launch was to return is returned.
StoppedAnyway(ok) == Conclude(IF ok THEN outcome ELSE "error")

\* The gateway's stop returned, to the start or to finish.
Stopped(ok) ==
    IF outcome = NONE THEN NotStarted
                      ELSE Conclude(IF ok THEN outcome ELSE "error")

Goto(step) == at' = step /\ UNCHANGED <<outcome, bridge>>

\* spawn_helper; a process whose start failed may exist all the same.
\* stage_files writes before its helper does, and may fail.
Spawn(task) ==
    /\ Goto(task)
    /\ staged' = (staged \/ task = "stage")
    /\ \/ helper' = "running" /\ UNCHANGED <<retain, uncertain>>
       \/ helper' = "failed" /\ mark_uncertain
       \/ task = "stage" /\ helper' = "failed" /\ UNCHANGED <<retain, uncertain>>

-----------------------------------------------------------------------------
(* The start.                                                                *)

Start ==
    /\ at = "start"
    /\ \/ /\ signalled /\ Conclude("cancelled")
          /\ UNCHANGED <<files, client, helper>>
       \/ /\ ~signalled /\ hermes /\ retain' = TRUE  \* arm_cleanup
          /\ Goto("resolve")
          /\ \/ helper' = "running" /\ UNCHANGED uncertain
             \/ helper' = "failed" /\ uncertain' = TRUE
          /\ UNCHANGED <<staged, workspace, client>>
       \/ /\ ~signalled /\ ~hermes
          /\ \/ client' = "running" /\ Goto("supervise")
             \/ UNCHANGED client /\ Conclude("error")
          /\ UNCHANGED <<files, helper>>
    /\ UNCHANGED <<launch, result, signalled, owner>>

\* wait_helper stops waiting: a timeout, a signal or the owner's end.  The
\* answer of a helper that has just exited is dropped then.
GiveUpHelper ==
    /\ at \in Tasks
    /\ \/ helper = "running" /\ helper' = "killed"
       \/ /\ helper = "exited" /\ helper' = "failed"
          /\ \/ signalled /\ at \notin {"resolve", "cleanup"}
             \/ Over(owner) /\ at \in {"ready", "refresh"}
    /\ UNCHANGED <<launch, at, outcome, result, signalled, files, client, owner, bridge>>

SpawnOwner ==
    \/ owner' = "running" /\ Spawn("ready")
    \/ mark_uncertain /\ NotStarted /\ UNCHANGED <<staged, owner, helper>>

\* spawn_frontend.
SpawnClient ==
    \/ client' = "running" /\ Goto("supervise") /\ UNCHANGED <<retain, uncertain>>
    \/ UNCHANGED client /\ Goto("drain") /\ mark_uncertain

\* After a cleanup the workspace is released.
HelperSucceeds ==
    /\ at \in Tasks /\ helper = "exited"
    /\ \/ at = "resolve" /\ Spawn("absent") /\ UNCHANGED <<client, owner>>
       \/ at = "absent" /\ Spawn("stage") /\ UNCHANGED <<client, owner>>
       \/ at = "stage" /\ SpawnOwner /\ UNCHANGED client
       \/ at = "ready" /\ Spawn("refresh") /\ UNCHANGED <<client, owner>>
       \/ at = "refresh" /\ SpawnClient /\ UNCHANGED <<staged, helper, owner>>
       \/ /\ at = "cleanup" /\ retain' = uncertain /\ UNCHANGED uncertain /\ Stopped(TRUE)
          /\ UNCHANGED <<staged, client, owner, helper>>
    /\ UNCHANGED <<launch, result, signalled, workspace>>

\* It failed, could not be killed in time, or printed no command.
HelperFails ==
    /\ at \in Tasks
    /\ helper \in {"failed", "killed"} \/ (at = "resolve" /\ helper = "exited")
    /\ IF helper = "killed" \/ at = "cleanup" THEN mark_uncertain
                                            ELSE UNCHANGED <<retain, uncertain>>
    /\ \/ at \in {"resolve", "absent"} /\ NotStarted
       \/ at = "stage" /\ Goto("clear")
       \/ at \in {"ready", "refresh"} /\ Goto("drain")
       \/ at = "cleanup" /\ Stopped(FALSE)
    /\ UNCHANGED <<launch, result, signalled, staged, workspace, client, owner, helper>>

-----------------------------------------------------------------------------
(* supervise_pair and run_plain_child.                                       *)

ClientOver ==
    /\ at = "supervise" /\ Over(client)
    /\ outcome' = "exited" /\ at' = "reap"
    /\ UNCHANGED <<launch, result, signalled, files, processes>>

\* terminate_child: the signal is forwarded, or the client killed at once.
Terminate(o) ==
    /\ at = "supervise"
    /\ \/ /\ at' = "terminate" /\ outcome' = o
          /\ client' = client \/ (client = "running" /\ client' = "killed")
       \/ client = "running" /\ at' = "reap" /\ outcome' = "error" /\ UNCHANGED client
    /\ UNCHANGED <<launch, result, signalled, files, owner, helper, bridge>>

Cancelled == signalled /\ Terminate("cancelled")
BridgeLost == bridge \in {"ended", "broken"} /\ Terminate("error")

\* Without a bridge the owner is watched while the client is terminated, too.
OwnerLost ==
    /\ at = "supervise" \/ (at = "terminate" /\ ~bridged)
    /\ Over(owner)
    /\ outcome' = "error" /\ at' = "reap"
    /\ UNCHANGED <<launch, result, signalled, files, processes>>

\* Mutant of KillClient: the grace of a termination never ends.
KillInFinish ==
    /\ at = "reap" /\ client = "running" /\ client' = "killed"
    /\ UNCHANGED <<launch, at, outcome, result, signalled, files, owner, helper, bridge>>

\* kill_and_reap: when the grace is over, and in finish.
KillClient ==
    /\ at \in {"terminate", "reap"} /\ client = "running" /\ client' = "killed"
    /\ UNCHANGED <<launch, at, outcome, result, signalled, files, owner, helper, bridge>>

TerminateOver ==
    /\ at = "terminate" /\ Over(client) /\ at' = "reap"
    /\ UNCHANGED <<launch, outcome, result, signalled, files, processes>>

-----------------------------------------------------------------------------
(* finish, HermesGateway::stop and the end.                                  *)

\* Mutant of finish: a client that could not be killed goes unnoticed.
finish_unnoticed(killed) ==
    /\ UNCHANGED <<retain, uncertain>>
    /\ IF hermes THEN Goto("drain") ELSE Conclude(IF killed THEN outcome ELSE "error")

finish(killed) ==
    /\ IF killed THEN UNCHANGED <<retain, uncertain>> ELSE mark_uncertain
    /\ IF hermes THEN Goto("drain") ELSE Conclude(IF killed THEN outcome ELSE "error")

Reap ==
    /\ at = "reap" /\ Over(client) /\ finish(TRUE)
    /\ UNCHANGED <<launch, result, signalled, staged, workspace, client, owner, helper>>

\* The system refuses the kill.
KillRefused ==
    /\ client = "running"
    /\ \/ /\ at = "terminate" /\ at' = "reap" /\ outcome' = "error"
          /\ UNCHANGED <<retain, uncertain, bridge>>
       \/ at = "reap" /\ finish(FALSE)
    /\ UNCHANGED <<launch, result, signalled, staged, workspace, client, owner, helper>>

\* The grace of the drain is over.
KillOwner ==
    /\ at = "drain" /\ owner = "running" /\ owner' = "killed"
    /\ UNCHANGED <<launch, at, outcome, result, signalled, files, client, helper, bridge>>

\* Only an owner that exited with success counts as drained.
Drain ==
    /\ at = "drain"
    /\ \/ owner \in {"exited", "left"} /\ Goto("clear") /\ UNCHANGED <<retain, uncertain>>
       \/ owner \in {"failed", "killed"} /\ mark_uncertain /\ Stopped(FALSE)
    /\ UNCHANGED <<launch, result, signalled, staged, workspace, client, owner, helper>>

clear_profile ==
    /\ at = "clear"
    /\ IF uncertain THEN UNCHANGED <<staged, retain, uncertain, helper>> /\ Stopped(FALSE)
                    ELSE Spawn("cleanup")
    /\ UNCHANGED <<launch, result, signalled, workspace, client, owner>>

\* The futures and the workspace are dropped: kill_on_drop.
Dropped(process) == IF process = "running" THEN "killed" ELSE process

Drop ==
    /\ at' = "returned"
    /\ client' = Dropped(client) /\ owner' = Dropped(owner) /\ helper' = Dropped(helper)
    /\ bridge' = IF bridge \in {"serving", "stopping"} THEN "ended" ELSE bridge
    /\ workspace' = IF retain THEN "kept" ELSE "removed"
    /\ UNCHANGED <<launch, outcome, signalled, staged, retain, uncertain>>

\* bridge.wait() returned.
Return ==
    /\ at = "bridge" /\ bridge \notin {"serving", "stopping"}
    /\ result' = IF bridge = "broken" THEN "error" ELSE outcome
    /\ Drop

\* The caller drops the execution while it waits.
Abandon ==
    /\ at # "returned" /\ result' = "dropped"
    /\ Drop

-----------------------------------------------------------------------------

LauncherStep ==
    \/ Start \/ GiveUpHelper \/ HelperSucceeds \/ HelperFails
    \/ ClientOver \/ Cancelled \/ BridgeLost \/ OwnerLost \/ KillClient \/ TerminateOver
    \/ Reap \/ KillOwner \/ Drain \/ clear_profile \/ Return

Next ==
    \/ LauncherStep \/ KillRefused \/ Abandon
    \/ ClientExits \/ OwnerExits \/ HelperExits \/ Dies \/ BridgeEnds \/ Signal

Spec == Init /\ [][Next]_vars

\* The launcher is polled and its timers fire; killed processes die, and a
\* bridge that is asked to stop ends once no client can hold a connection.
FairSpec ==
    /\ Spec
    /\ WF_vars(LauncherStep) /\ WF_vars(Dies)
    /\ WF_vars(bridge = "stopping" /\ ~Alive(client) /\ BridgeEnds)

-----------------------------------------------------------------------------
Using == Alive(client) \/ Alive(owner) \/ Alive(helper)

\* What the processes of a launch rely on outlives them: the configuration its
\* client and gateway run on, the workspace their files and programs lie in, and
\* the bridge, which is alive through the drain unless something could not be stopped.
\* Only a dropped launch of a harness without a gateway takes its workspace away
\* from a client that is still being killed.
UsersAreServed ==
    /\ hermes /\ (Alive(client) \/ Alive(owner)) => staged
    /\ Using /\ workspace = "removed" => ~hermes /\ result = "dropped"
    /\ Using /\ bridge = "stopping" => uncertain

\* A launch that returns no error left nothing behind: no process, no staged
\* configuration, no bridge, and nothing it is unsure of.
SuccessIsClean ==
    result \in {"exited", "cancelled"} =>
        ~Using /\ ~staged /\ ~uncertain /\ bridge \notin {"serving", "stopping"}

Undisturbed ==
    /\ at = "supervise" /\ client = "running" /\ ~signalled
    /\ bridge \notin {"ended", "broken"} /\ ~Over(owner)

\* Its client could not be killed and may hold a connection to the bridge.
Unstoppable == at = "bridge" /\ client = "running"

\* A launch returns, whatever lingers or fails on the way, unless its client
\* runs on for good, with nothing amiss or beyond the launcher's reach.
LaunchEnds == <>(result # NONE) \/ <>[]Undisturbed \/ <>[]Unstoppable

=============================================================================
