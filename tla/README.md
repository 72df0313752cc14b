# Verification of nan-harness

nan-harness launches AI coding clients (Codex, Claude Code, Hermes, ...) against
one model provider. A launch runs a local bridge that translates between the
dialects of the clients and the provider; every attempt the bridge makes at the
provider first asks a per-user **coordinator** process for a permit, so that all
launches of one user together stay within what the provider lets one account do.

This directory holds TLA+ modules of that program, configurations that let TLC
check them on small instances, and proofs of some of their properties that the
TLA+ proof system (tlapm) checks for all values of the constants. Paths below
are relative to the repository unless they name a module of this directory;
`PROJECT.json` maps every definition that models code to the lines it models.

## 1. Inventory

| Component | State | Operations | Hard behaviour |
|---|---|---|---|
| Capacity policy (`coordinator/scheduler/state.rs`, `retry.rs`) | window, evidence of a healthy round, penalty level with its hold, ceiling, cooldown | `observe` of one attempt's outcome | long sequences of outcomes; two clocks, one of which may be set; restarts |
| Scheduler task (`coordinator/scheduler.rs`) | queue, permits out, budgets, dirty flag | commands Acquire, Observe, Release; the timer; `schedule`, `save_cache` | handlers come and go between any two steps; starvation; limits reached |
| Capacity cache (`coordinator/scheduler/cache.rs`) | `capacity.json` | `load_cache`, `save_cache`, `restored_scope` | death between truncate and write; stale and future timestamps |
| Connection handlers (`coordinator/daemon/connection.rs`) | where each handler stands | queue, grant, lease, observe, release, answer | `select!` races; failing writes; clients that leave |
| Daemon life cycle (`coordinator/daemon/lifecycle.rs`, `state.rs`) | process lock, receipt file | elect, bind, publish, accept, idle exit, clean up | files shared by processes; check-then-act; death |
| Coordinator client (`coordinator/client.rs`) | daemon found, lease held, scope salt | `connect_or_spawn`, acquire, complete, salt | retries against deadlines; file creation races |
| Diagnostic capture (`coordinator/capture*`, `diagnostics*`) | settings, capture files and their lock; per writer a queue, reserved bytes, the incomplete flag | enable, disable, purge; begin, record, drop; receive, batch, finish | accounting on every failing path; a flag read too early; a purge beside a writer that starts |
| Bridge: upstream (`bridge/upstream*.rs`) | attempts and waits of one request, lease | send, retry, report | a budget of sends and pauses shared by two layers with limits of their own; reports that must precede a pause |
| Bridge: Responses recovery (`bridge/responses/stream/*`) | what was committed to the client | semantic retry | no retry after visible output |
| Launch supervisor (`runtime/supervisor*`) | client, gateway, helpers, bridge, signal; staged profile, workspace and whether it is kept | stage, start, race, then ordered cleanup | any may end first; processes that linger; cleanup that fails |
| Launch-scoped files (`runtime/temporary*`) | session directories and locks | create, publish, reclaim, drop | reclaiming by other processes |
| Search supervisor and host (`runtime/search_supervisor*`) | start and service lock, record, interest markers, backend, silence seen | acquire, release, count interests; elect, serve, idle shutdown, recover | locks handed over between processes; counts that delete what they count; death anywhere |
| Persistent configuration (`cli/commands/persistence*`) | managed files and their backups | apply, restore | interrupted applications |
| Protocol translation, models, discovery, updates, credentials, Desktop sessions, core types, build tooling | little or none | conversions, prompts, external commands | — |

(`coordinator/`, `bridge/`, `runtime/`, `cli/` stand for
`src/crates/nan-harness-<name>/src/`.)

How the parts interact. A bridge calls the client library. The client finds the
daemon through `receipt.json`, or starts one and keeps looking; the daemon that
holds `process.lock` is the only one to serve. A connection carries one acquire at a
time: its handler sends commands to the scheduler task over a queue without bound
(`scheduler.rs:65`) and learns of a grant through a one-shot reply. The scheduler
owns everything that must not be shared: the window, the count of permits out, the
budgets and the cache file. Attempts are reported on the same connection, feed the
policy and settle the budget. All of it is lost with the process except what the
cache file holds.

What makes each part correct, in short:

* policy: the window follows what the provider answered, a penalty ends, a size
  that was refused is not tried again while the hold lasts, capacity comes back;
* scheduler and handlers: each permit is given back exactly once, a daemon has no
  more attempts of its own granting under way than the window allows (attempts that
  outlived an earlier daemon come on top, at most one window for each), a token
  budget is honoured, a request that waits is served;
* cache: a new daemon knows which budgets it cannot vouch for;
* daemon and client: one process decides at a time, it can be found, and a client
  that keeps asking is answered;
* bridge: one request of a client costs the provider a bounded number of sends and
  the user a bounded wait, pauses as asked, and pauses without a permit;
* search: the shared backend lives while a lease needs it, and no longer;
* launch: what a process relies on outlives it, whatever ends first, and a launch that
  reports success left nothing behind;
* capture: what is not captured is noticed in time to mark it (whether the disk
  takes the marker is another matter), memory is bounded, and a purge deletes
  nothing that is still written.

`PROJECT.json` lists the hazards behind these, each at its line.

## 2. Modules

    CapacityEnvelope        what the policy promises the scheduler
      ^ implements    ^ composes (INSTANCE)
    CapacityWindow    Scheduler          CoordinatorDaemon
    CapacityWindowProofs  SchedulerProofs    DaemonProofs
                          BudgetProofs
    MCCapacity            MCScheduler        MCDaemon

    LogicalRequest          what one request of a client may cost
      ^ implements
    UpstreamSend            SearchHost         DiagnosticCapture   LaunchSupervisor
    UpstreamSendProofs      SearchHostProofs   CaptureProofs       LaunchProofs
    MCUpstream              MCSearchHost       MCCapture           MCLaunch

### CapacityEnvelope

Two variables, `window` and `cooldown`. An observed attempt moves them as
`WindowsAfter` and `CooldownsAfter` allow: a success may add one permit, a rate
limit halves, soft failures stop at a floor, the cooldown is only ever extended.
The evidence that decides whether a success grows the window is left open.
`Unrepresentable` deadlines are the time `NEVER`, which no tick brings nearer.

### CapacityWindow

One scope of `scheduler/state.rs` in full: `successful_round`,
`healthy_since_penalty`, `penalty_level` with its `hold`
(`growth_hold_until`), `ceiling` (`rate_limit_ceiling`),
`transient_failures`, `since_growth`, `age` (of `updated_at_unix_seconds`)
and what `capacity.json` holds of them. One action per outcome (`Success`,
`RateLimited`, `Transport`, `Timeout`, `ServerError`, `InvalidResponse`),
`save_cache`, `restored_scope`, `RestartCold`, `Tick` and `ClockStep`.
The code keeps holds and updates in Unix seconds and everything else on the
monotonic clock: `Tick` moves both, `ClockStep` only what the wall clock
decides. Deadlines are kept as time left. Jitter is a choice of `LocalDelays`.
`limited_at` is history: the smallest window at which a rate limit was met since
capacity was last restored.

### Scheduler

One scope's scheduler task, its handlers and the clients behind them, composed
with the envelope. A connection `c` stands where `pc[c]` says:

    idle -> queued -> granted -> leased -> observing -> observed -> (replying) -> idle
                 \-> rejected -> idle                          \-> releasing -> idle

`queued` is the handler's `select!` between the client's socket and the one-shot
reply; the reply has been sent at `granted` and `rejected`. `lost` is a handler that
returned through the read arm although a grant had been sent: the scheduler has
charged a permit nobody gives back. `outlived` is a connection whose attempt was
under way when its daemon died: the bridge does not watch the coordinator and goes
on sending (`OutlivedAttemptEnds` is its end), and the next daemon knows nothing of
it. `observing` and `observed` stand for the wait for the scheduler's answer to
Observe. The scheduler's loop goes through `phase`: `select` (one command,
`Receive`, or the `Timer`), `schedule` (`Retain`, then `BeginSchedule`), `granting`
(`ServeNext` until `EndSchedule`) and, when the cache is dirty, `save` and
`writing`. `retain` and the grants take one request per step, since handlers running
on other threads may close their replies meanwhile. `take_fair` is the choice of the
next request, `budget_rejection` the refusal, `Charged` and `Settled` what grant and
observation do to a budget, `RestoredBudget` what a restart makes of it. `Crash` is
the death of a daemon together with the start of the next one, which counts from
zero; it may come between any two steps, also between `SaveTruncates` and
`SaveWrites`.

History variables: `passed` (grants that went by the head of the queue),
`spent` and `unverified` (what clients have been told is counted, or know is
not), `condemned` (launches the cache showed in flight or barred when it was
loaded).

### CoordinatorDaemon

Daemon processes (`proc`), the lock, the receipt and the clients. Every file or
socket operation is a step: `acquire_process_lock`, `Bind`,
`RemoveOldReceipt`, `PublishReceipt`; then `Accept`, `IdleExit` or
`AcceptFails`; then `CheckOwnReceipt`, `RemoveReceipt`, `Unlock`, `Exit`.
Clients go through `connect_or_spawn`: `read_receipt`, `Connect`,
`ReportIncompatible`, `spawn_daemon` at most once per request, `LookAgain`,
`GiveUp` at the deadline. A daemon process name is free again once nobody refers
to it (`Forgotten`). Two assumptions about time are built into guards and are
the only ones: a daemon on its way to serving makes it well within
`STARTUP_BUDGET` (`GiveUp`), and no client takes as long as `IDLE_TIMEOUT`
between reading a receipt and connecting (`IdleTimePasses`).

### LogicalRequest and UpstreamSend

`LogicalRequest` is the promise: at most `MaxSends` sends, pauses within
`MaxWait` and, unless a rate limit explains them, within `MaxOtherWait`, no send
while a pause that was asked for has not been made, one answer. `UpstreamSend`
is one Responses request in the code: `send_with_policy`'s attempts
(`acquire_lease`, `Respond`, `delay_for_retry`, `RetrySend` or `GiveUpSend`,
`NextAttempt`), the stream (`StreamStops`) and its settlement, and the recovery
loop around both (`Recover` or `RecoveryExhausted`, `NextRecovery`). Both loops
have a limit of their own and share `SendBudget` (`remaining`, `retry_left`,
`other_left`). `lease` is the bridge's end of the coordinator's lease: `open`
until the first report, `deaf` once the coordinator was lost. The provider
answers as it likes (`Headers`, `SendErrors`, `StreamEnds`), the coordinator
answers a report with a delay or not, the client leaves at any step. `sent`,
`waited`, `others`, `owed`, `limited`, `reported` and `answer` are history, kept
apart from the budget so that the refinement compares what happened with what
was promised.

### SearchHost

Launchers (`acquire` and the life of a lease), host processes
(`run_searxng_host`, `host_backend`) and inspectors (the commands that count
interests), with the two lock files, the record, and per lease a marker file
and its lock. A count (`list`, `ScanStep`) looks at one marker per step; finding
one unlocked, it locks it, checks its bytes, lets go and then deletes it by name
(`MarkerLocked`, `MarkerChecked`, `MarkerRemoved`). A lock is held on an open
file: a launcher keeps it after its marker has left the directory. `verdict[h]`
is what a host's count has come to, `idle[h]` the silence it has seen. Death
frees a process's locks and leaves its files and, for a host, its backend, which
ends when it sees its lifetime pipe closed. A record that cannot be written
(`RecordFails`) and a backend that cannot be killed (`KillFails`) end the host and
close that pipe too. `owed` is history: the listed leases
that had lost their backend when the host began to decide about recovery.

### DiagnosticCapture

The settings and commands (`EnableCapture` to `PurgeUnlocks`; `EnablingFails` leaves
the directory of a capture behind that no settings name), the requests of one
capturing process (`Begin`, `JoinWriter`, or `MakeDirectory`, `LockShared`,
`OpenFile`; then `OfferRecord`, `EncodeRecord`, `SendRecord`, `MarkIncomplete` in
any number, `DropRequest`) and the writers (`Receive`, `StartBatch`, `WriteRecord`,
`EndBatch`; `Drained` or `WriteFails`, then `CloseReceiver` and `Finish`). A record
is the number of bytes its `ByteReservation` holds. `used` is the code's counter;
what is really held is `BytesHeld`, from queue, writer and encoders. `marker` says
whether a writer that ended owed a marker and, if so, whether it could be made:
`Finish` gives up one that cannot. `Stop` drops the tasks of the runtime where they
await, while a thread in a batch goes on. A writer's mutex in the sink is
`Starting`, the weak reference to it `current` with `Alive`.

### LaunchSupervisor

One launch, from `RunningHarness::start` to the drop of its workspace, with or
without a bridge (`run_bridged_child`, `run_plain_child`) and with or without
Hermes' gateway. `at` is where the launcher stands: `start`; for Hermes the helper it
waits for (`resolve`, `absent`, `stage`, `ready`, `refresh`); `supervise`
and `terminate`; `reap` and `drain` (`finish` and `HermesGateway::stop`);
`clear` and `cleanup` (`clear_profile`); `bridge`; `returned`. `outcome` is what
it will return if the cleanup finds nothing amiss. `client`, `owner` (the
gateway) and `helper` are processes: `killed` is one that got SIGKILL and is still
there, `left` an owner that exited with status 0 unasked. `staged` says that
Hermes' home holds the launch's configuration, `retain` and `uncertain` are the
flags of `TemporaryWorkspace`. `Dropped` is kill-on-drop. `Abandon` is a caller
that drops the launch while it waits, which the code expects (`arm_cleanup`).

## 3. Runs

| Run | Question | Bounds |
|---|---|---|
| `capacity` | Can any order of outcomes, ticks, clock steps, saves and restarts break the ceiling, leave a penalty without an end, shrink a scope below a cold one without a rate limit, or probe a refused size again? Does the policy implement the envelope? Once traffic is healthy, does the window reach its maximum, whatever was left behind? | windows 1..3 around an initial window of 2; holds up to 2 ticks; a hint of 2 (which is NEVER); wall clock stepping back one tick at a time (the theorems cover steps of any size either way); one unsaved observation |
| `sched` | Is every waiting request granted or refused in the end, in turn and within its launch's budget? | three connections: foreground and background of one budgeted launch, foreground of another; window 1..2; clients stay |
| `sched_restart` | Are permits and budgets accounted for, and admission within window and cooldown, when clients leave and the daemon dies at any step? How many attempts can be under way when those of a dead daemon go on beside those its successor grants? Does the next daemon bar what it cannot vouch for? | three alike connections of one budgeted launch, which may leave; window 1..2; reports of a success with and without usage and of a rate limit; one death |
| `permit_lost` | Is every permit given back once all handlers have returned? (violated) | two connections |
| `budget_restart` | Is a budget honoured across a daemon's death? (violated) | two connections, one death, no client leaves |
| `daemon` | One authority, findable; is every client answered? | three processes, clients of two versions, one end of an elected daemon |
| `upstream` | Do both layers of retries together keep to the sends and pauses of one request, report every attempt and pause without a permit? | the code's own limits (3, 8, 8 and 5); times in quarters of a second, one jitter, one hint within and one beyond all allowances |
| `search_host` | Can an idle shutdown meet a lease, a clean-up take away a serving host's record, a lost backend be given up under a lease? | two launchers, two hosts, one inspector; any of them may die |
| `search_host_live` | Does everything end once no session wants the service? | two launchers, two hosts |
| `search_host_scan` | Does a lease keep its backend, as documented? (violated) | one launcher, one host, one inspector |
| `capture` | Are bytes given back and bounded, omissions noticed before a writer ends, purges kept apart from writers, and does the lock come free for them? | two requests, two writers, one capture; a queue of one, batches of one, one batch at a time; two records per writer |
| `launch` | Do processes keep what they rely on, does a launch without an error leave nothing behind, and does every launch end? | none: a launch is finite |

Why the bounds are enough. In the policy windows 1 to 3 lie below,
at and above the initial window and the floor, so that halving, decrementing,
floor and ceiling each act and each stop acting; a hold of two ticks can be new,
half over and over; two penalty levels suffice for the doubling to reach its
cap. The proofs hold for every other choice. `MaxHold` bounds how far a
clock set back may move a hold and is `MAX_GROWTH_HOLD`'s reach; `MaxUnsaved`
bounds observations between two saves, which only matter as "some" or "none" to
`save_cache` and serve to keep the counter finite. In the scheduler three
connections are the least with which a request is passed over by two others, a
launch has two attempts at once beside another launch's, and the window of 2 is
left by one connection waiting. Leaving clients and deaths multiply the states, so
`sched_restart` has connections of one launch that ask alike, and the two
violated runs, which need no third, have two; the theorems cover any number. The
third connection of `sched_restart` is the one that a daemon which miscounts a
departure would admit past a window of 2, and the one a successor grants beside
two attempts of its predecessor. A window of 1 makes grants alternate with
releases, a window of 2 lets two attempts overlap; both are reached by growth
and by a rate limit within a run. The budget of 2 with reports of 1 token is
reached only by two attempts. `MaxCrashes` is 1 since a restart keeps nothing
but the cache, which a second one would read in a state the first run already
wrote. `ClientsLeave` and `CachesWritten` switch a dimension off where a run
does not ask about it. In the daemon run `MaxStops` bounds the ends of elected
daemons, of which one is enough to put a tidying, a dying or an idle daemon
beside its successor; processes that lose the election are not bounded.
The upstream run needs no reduction: the code's limits are small, and
only durations are scaled. Its hints are one that fits until it has been asked
for often enough and one that never fits. In the search runs two launchers and
two hosts are the least with which one lease is given while another ends, and a
host is started while its predecessor goes down; the inspector is what counts
without the start lock. In the capture run the bytes leave room for one
reservation beside an encoded record or not, according to what it encoded to;
queue, batch and slots of one make all three limits meet, and the second writer
is what replaces the first, or waits behind it for the slot.

Symmetry is used in `search_host` (launchers, hosts) and in `sched_restart`
(connections, which ask alike there), where the names are interchangeable and no
liveness is checked: that is why `search_host_live` is a run of its own. In the
other runs names differ by what they ask for, or liveness is checked.

Deadlock is checked where the system cannot stop. Where clients may leave
(`permit_lost`, `sched_restart`), every connection may end up
having lost its permit, and such a scheduler has nothing more to do in this model; a
launch that has returned is over; in `search_host_live` every marker may have been
left behind by a dead launcher, and a new one has another name: those configurations
say `CHECK_DEADLOCK FALSE`.

### Fairness

* `CapacityWindow`: `WF(Tick)`, time passes; `WF(save_cache)`, the timer
  of `run` fires and a dirty cache is written. `CapacityRecovers` assumes in
  its own premise that from some point on all traffic is healthy and saturates
  the window (`WF(ObserveHealthy)`), which is the hypothesis of the claim and
  not something the code provides.
* `Scheduler`: tasks are polled while they can run, so handlers and the loop are
  weakly fair. `Receive` is strongly fair: `select!` picks a ready arm at
  random and the timer is ready once per tick only, so a queued command cannot be
  put off forever, though each timer tick disables it for a while. A client
  reports its attempt, since attempts have timeouts. Background requests age
  (`Age`) and cooldowns run out (`CooldownTick`). The `sched` run has no
  hint that leads to `NEVER`: after one, the code indeed grants nothing
  more for the life of the daemon, which is what it means to do.
* `CoordinatorDaemon`: processes run (`WF(Runs)`), clients ask again and go on
  (`WF(Proceeds)`), and the deadline of a client that keeps missing passes
  (`SF(GiveUp)`). Nothing makes a daemon fail, die or become idle.

* `SearchHost`: a process that is scheduled makes its next step
  (`WF(AcquireStep)`, `WF(ServeStep)`, `WF(ScanStep)`), the grace period passes,
  and a backend whose host is gone ends. Nothing makes a process die or a
  backend exit, listen or become ready. `NothingStaysBehind` says in its own
  premise that requests end and leases are dropped.
* `DiagnosticCapture`: `WF(WriterStep)`: a blocking batch returns and the task
  that awaits it is polled. Requests and commands need not move.

* `LaunchSupervisor`: the launcher is polled and its timers fire
  (`WF(LauncherStep)`), a killed process dies (`WF(Dies)`), and a bridge that was
  asked to stop ends once no client can hold a connection to it. No process
  exits by itself and no signal has to come. `LaunchEnds` leaves out a client
  that runs on with nothing amiss and one the system refuses to kill.

### What the violated runs show

`permit_lost`. `handle_transport` waits in a `select!` for its client's socket
and for the grant. When the client leaves after `schedule` has charged the
permit and sent the reply, the read arm may win: the handler returns without
Observe or Release, and the permit stays charged as long as the daemon lives. A
budgeted launch also keeps its `in_flight` charge, which no restart removes
but turns into `accounting_blocked`. The neighbouring path, a grant that cannot
be written, does give the permit back and has a test that says why.
`PermitAccounting` counts such permits as charged (`lost`), so the other
properties are checked with the leak in place. Two consequences of it are the
deadlocks mentioned above.

`budget_restart`. Neither a grant nor the acknowledgement of an observation
waits for the cache to be written; charges of a grant do not even make it dirty. A
daemon that dies before the next save loses them, and the launch is admitted
again with tokens its client knows were counted. What the code does keep, and
`sched_restart` checks, is the weaker promise about what the cache showed
(`NoAdmissionOnceCondemned`).

`search_host_scan`. `create_lease_marker` creates its file, writes it and then
locks it. A count that looks in between finds a marker that is complete and not
locked, takes it for one a dead process left, and deletes it. The counts of a
serving host for its idle shutdown run under the start lock, which the launcher
holds. Those of status and uninstall, and the host's own after it lost its
backend, do not. The launcher then locks a file that is in no directory, the
lease is given out, and the next idle shutdown counts zero.
`ShutdownSparesLeases` is what the start lock does give: a lease whose marker is
listed is never shut down under.

Modelling also showed three things for which there is no run of their own. One is
that a cancelled, unwritten or usage-less attempt of a budgeted launch blocks
that launch for good, a later retry included (`Settled`), against which no sentence
of the repository speaks. Another is that `HermesGateway::stop`
takes a gateway that exited with status 0 before it was asked to for a drained one
(`Drain`, `owner = "left"`): the profile is cleared and the workspace released,
where the comment beside it (`runtime/supervisor/hermes.rs:192`) says that "a killed or
unexpectedly exited primary" is no proof and the configuration is kept. The
test of an early exit uses status 7, with which the code does as the comment
says.

The third is that `Storage::finish` ignores a marker it cannot create or write
(`capture/writer.rs:114-118`). A full disk, or a directory that is gone, can so take
both the records and the marker: the capture then looks complete, and
`diagnostics_status` does not count it among the incomplete files. The comment at
the head of `writer.rs` (lines 3-4) says that closing all producers "writes any
incomplete marker" and excuses abrupt shutdown alone (lines 10-11), and
`SECURITY.md:52-53` that skipped records mark the capture incomplete. `Finish` has
both outcomes (`MarkerFor`). What the code does keep, and `capture` checks, is that
a writer never overlooks that it owes a marker (`CompleteUnlessMarkerOwed`).

## 4. Proofs

`CapacityWindowProofs` proves, for all parameters that satisfy
`CapacityAssumption`, the invariants of the `capacity` run and that
`CapacityWindow` implements `CapacityEnvelope`. None of the invariants is
inductive by itself, because a restart reads them from the cache: the
inductive invariant is `TypeOK` together with `Coupled` of the policy and
`Coupled` of the cached scope (level and hold together, ceiling only with
a hold and above the window, a window below the initial one only with a ceiling,
a window at or above `limited_at` only within the initial window while the hold runs). The
refinement is step by step: each observation is an `Observe` of the envelope
with its own outcome, ticks are ticks or stutters, both restarts are `Restart`,
and saves and clock steps stutter.

`DaemonProofs` proves for any number of processes, clients and stops that the
elected daemons are exactly the holder of the lock (a part of `TypeOK`), that
the receipt names the daemon that serves, and that handlers run in two processes
only while one goes down over a failing accept. Its inductive invariant adds to
`TypeOK` and `ServingIsPublished` that a connected client has an address
(`AddressKnown`) and that a process with accepted connections which no longer
serves is one whose accept failed (`HandlersAccountedFor`).

`SchedulerProofs` proves, for any number of connections, launches, requests,
reports and deaths that satisfy `SchedulerAssumption`, that every permit and every
budget's `in_flight` is accounted for by the connections that stand somewhere
between grant and return, that the head of the queue is passed over at most
once, that a daemon's grants are given only within the window, by the attempts it
granted itself, and outside the cooldown, that the attempts of all daemons together
are at most a window per daemon, and that a launch the cache condemned is never
admitted again. Its inductive invariant is
`TypeOK` and `PermitAccounting` with five parts that say why they hold:

* `Queues`: a connection has at most one command under way and its kind fits
  where the handler stands; a connection is pending at most once, has no command
  under way then, and its handler waits or is gone. Without it, an Observe
  or Release could be received twice, and a permit be given back twice.
* `RecordsExact`: a budget's `in_flight` is the number of attempts of its launch,
  and there are none without a budget. `InFlightAccounting`
  speaks of launches with a budget only, and `EntryOf` creates one at 0: that
  is right only if nothing was in flight before.
* `GrantingIsWarm`: grants are given only while no cooldown runs.
* `CondemnedIsBarred`: a condemned launch has a budget that refuses it.
* `HeadGoesNext`: a head that was passed over is of another launch than the
  last one granted, if it is still waiting steadily, so `take_fair` chooses it.

That a restart adds at most one window to what the provider sees
(`AttemptsBoundedByWindows`) takes one step more: a living daemon's attempts are
within its `active` and so within `MAX_WINDOW`, and a death adds them to those that
outlived earlier daemons while it adds one to the number of deaths (`FewOutlive`). No
sentence of the repository promises a bound across daemons; this is the one the
code gives.

That `active` and `in_flight` stay natural numbers, and within the number of
connections, follows from the counts being cardinalities of sets of connections.
Where permits are lost is proved too: as long as no client leaves, every permit is
back when the handlers have returned (`PermitsReturnedToClientsThatStay`), so the
path that `permit_lost` shows is the only one. Lemmas on sequences (`SendAsks`,
`TailTakes`, `RequestAppended`, `RequestTaken`) say what a queue operation does to
membership, so that the proofs per action need no arithmetic on positions.

`BudgetProofs` proves on top of that that budgets are honoured
(`AdmissionHonoursBudget`), also by clients that leave at any step, under two
assumptions: no daemon dies (`budget_restart` shows that a death breaks it) and no
budget is zero, which `LaunchPlanValidator` refuses. Its inductive invariant relates
the scheduler's count to what clients know: a budget that is not blocked counts at
least what its clients were told (`spent`) and what observed attempts used whose
clients have not been answered yet; an attempt nothing verifies blocks the budget
before anyone is told. That second part is a sum over connections. It is written as
the cardinality of a set with one element per token (`Tokens`), so that it grows and
shrinks by the usage of one attempt by facts about finite sets, without induction.

`UpstreamSendProofs` proves, for all limits, pauses, jitters and hints that satisfy
`UpstreamAssumption`, every property of the `upstream` run. Its inductive invariant
is `TypeOK` with the safety properties, the fact that whoever pauses has another
round of its loop ahead (`RoundsLeft`), and what joins the budget to the history:
sends left and sends made are `MAX_UPSTREAM_SENDS` together, and each allowance
left, the pauses made and the pause reserved for now are the whole allowance. Before
a send nothing is owed, and whoever sleeps was granted at least what is owed. The
refinement then takes one step per action: a send is a `Send`, a report or an answer
that asks for a delay an `AskForPause`, a sleep a `Pause`.

`SearchHostProofs` proves, for any number of launchers, hosts and inspectors, the
four properties of the `search_host` run. The inductive invariant says who holds
which lock at which step (start lock from the marker's file to the lease, and from a
host's count to its exit or to a failing kill; service lock while a host lives from
its election on), that a record with a serving host behind it names it, that a host
which counts without having seen an interest has yet to look at every listed lease,
and that markers whose launchers stand are locked by them or not yet locked at all.

`CaptureProofs` proves, for any number of requests, writers and limits, that a purge
meets no writer and that a writer which ends without having tried to make a marker
has written all it was offered (`LossesAreNoticed`). Two invariants, one on top of
the other. The first is about the lock: a purge that holds it or has removed the
storage stands alone, an active writer holds it shared and has its file, and the
sink's mutex lets one request at a time make a writer, which nobody else uses yet.
The second follows the records: as long as a writer is neither cancelled nor marked
incomplete, what was offered to it is what it wrote, what is queued, the record in
its hand and one record for each request on its way to the queue. A writer closes
when its queue is empty and no request holds it, so nothing is left of that sum but
what it wrote; and a writer that ends goes to make a marker if the flag is set.

A third invariant, `ByteInv`, follows the bytes: besides that a writer's `used` is what its
queue, its batch and the encoders hold, it says that only a request that encodes
has reserved bytes and that a writer that winds up has none in its hands.
`BytesAccounted` and `AdmissionBounded` follow for all limits and all lengths, and
what is left of `TypeOK` from where a name of a capture can come from. What is
held is a fold over positions and over requests. Its value for a finite set is
not taken on trust: `SumsExist` and `SumIsRecursive` show that the
library's fold is the sum, since a set of least size for which it were not would have a
smaller one for which it is not either, and the lemmas after them say what
adding, taking or renaming one element does to a sum. This is induction over the
subsets of one set by their size, stated with sets, so that no theorem with an
operator as its parameter is needed.

`LaunchProofs` proves what the run of `LaunchSupervisor`, which has no parameter
that matters, finds by visiting every state, and so says why it holds. Its
inductive invariant has the promises themselves with three parts: `ProcessesInPlace`
(which processes there may be where the launch stands), `FilesInPlace` (what the
home, the flags and the workspace are there) and `EndInPlace` (what the launcher
knows when it winds up). It also proves that uncertainty is never
forgotten (`UncertainIsKept`): a launch that was not sure of its cleanup ends with
an error or is dropped, and keeps its workspace.

Two theorems are the safe half of a liveness property. `RequestDoesNotCircle` of
`UpstreamSendProofs` and `LaunchDoesNotCircle` of `LaunchProofs` give a natural
number that every step makes smaller: the sends left and the place of a request
among them, the places a launch has before it with the states its processes, its
bridge and its signal have before them. So neither can go on for ever; that neither
stops earlier is the deadlock check of `upstream` and `LaunchEnds`.

Model-checked only: liveness (`CapacityRecovers`, `RequestsServed`,
`EveryClientIsAnswered`, `NothingStaysBehind`, `LockComesFree`, `LaunchEnds`), which
would need fairness and ENABLED; and the violated runs. Every safety property and
action property of a passing run, and both refinements, are proved.

## 5. What is not modelled

* Authentication, framing, size limits and timeouts of single messages: a
  connection that fails them never reaches the scheduler.
* Several scopes: they share the task and the cache file and nothing else.
* The loss of a connection seen by only one end: `open` is what both see, and
  the moment at which the handler notices is a step of its own.
* A bridge that cannot write its progress frame within half a second
  (`client.rs:239`) gives up its lease while its attempt goes on. `UpstreamSend` has
  that (`deaf`); to the daemon, and so to `Scheduler`, it is a client that left, and
  neither `Sending` nor `AttemptsWithinWindows` counts such an attempt.
* `MAX_CONNECTIONS`, a refusal at accept before any state exists.
* Text: names, logs, encodings, file contents beyond what a decision reads.
* The in-process actor of the search supervisor (`search_supervisor.rs`, without
  `host_executable`): the command line always gives a host executable. Its
  hazards are listed.
* Windows' sharing modes, with which a count recognises an active lease without
  looking at its lock: `SearchHost` is the path of the other systems.
* Readiness of the backend beyond listening, and two installations that want
  one port.
* What a transport prepares before its harness starts, and the search lease a
  launch holds: both lie outside the cleanup `LaunchSupervisor` is about. Windows'
  job objects, whose failures the code treats like a process that lingers.
* A kill the system refuses for the gateway or a helper: `killed` processes that
  linger past the deadline take the same path.
* What becomes of an incomplete marker: `Finish` may fail to make it, and no property
  of a passing run says that an incomplete capture has one; section 3 says why. Nor has a writer whose runtime stops time for one.
* Capture settings that do not parse, and their backup.
* The components marked `not_modelled` in `PROJECT.json`, each with its reason.

## 6. Plan

Done: policy, envelope, scheduler with handlers and cache, daemon election, both
retry layers of the bridge, the search host between processes, diagnostic capture, a
launch and its cleanup, with their runs, and the proofs of section 4. Next, in this
order:

1. `ScopedFiles`: session directories, their locks and their reclamation.
2. `SearchActor`: the search supervisor's in-process actor with its timers (an
   acquire parked while the backend stops, a grace timer cancelled by a failed
   acquire, a recovery timer of an earlier crash).
3. Smaller ones if they fit: `ScopeSalt` (creation races of the salt file),
   persistent configuration.

Theorems after that: the safety properties of each new component.
