------------------------------ MODULE Scheduler ------------------------------
(***************************************************************************)
(* The coordinator's scheduler task, the connection handlers that ask it   *)
(* for permits and the clients behind them, for one scope.                 *)
(*                                                                         *)
(* Handlers and scheduler run concurrently: a handler sends commands into  *)
(* the scheduler's queue and learns of a grant through a one-shot reply;   *)
(* the scheduler takes one command or one timer tick at a time, then hands *)
(* out permits one by one, then may write the cache.  Each of these is a   *)
(* step, so a client may leave, and its handler may return, between any    *)
(* two of them.  A client's attempt at the provider does not need the      *)
(* daemon: it outlives the one that granted it.  How the window and the    *)
(* cooldown move is CapacityEnvelope.                                      *)
(*                                                                         *)
(* Source: crates/nan-harness-coordinator/src/scheduler.rs,                *)
(* scheduler/state.rs (budgets), scheduler/cache.rs,                       *)
(* daemon/connection.rs and client.rs (RequestLease).                      *)
(***************************************************************************)
EXTENDS Integers, Sequences, FiniteSets

CONSTANTS
    INITIAL_WINDOW, SOFT_FAILURE_WINDOW_FLOOR, MAX_WINDOW, NEVER,
    Hints, LocalDelays,
    Conns,        \* connections to the daemon, one acquire each at a time
    Launches,     \* launch identifiers
    Request,      \* Conns -> what the client behind a connection asks for
    Reports,      \* what clients may report of an attempt: outcome and usage
    ClientsLeave, \* whether clients give up or die before they report
    CachesWritten,\* whether CACHE_WRITE_INTERVAL elapses within a behaviour
    MaxCrashes    \* bound: times the daemon dies and another takes over

NONE == -1   \* Option::None of a budget or of a verified usage

Abandoned == [outcome |-> "Cancelled", usage |-> NONE]

VARIABLES
    pc,            \* where the handler of each connection stands
    open,          \* whether the client still holds its end of the connection
    report,        \* what the handler has to report of its lease
    eligible,      \* growth_eligible of the grant
    aged,          \* whether the request has waited BACKGROUND_AGING
    commands,      \* the scheduler's command queue
    phase,         \* where the scheduler's loop stands
    pending,       \* queued requests, oldest first
    active,        \* permits charged
    active_fg,     \* permits charged to foreground inference
    window,        \* permits that may be out at once
    cooldown,      \* ticks until the scope may grant again
    last_launch,   \* launch of the last grant, or NONE
    budgets,       \* Launches -> the launch's budget, or NoBudget
    dirty,         \* whether the cache is behind
    cache,         \* capacity.json
    crashes,       \* daemons that died so far
    passed,        \* history: grants that passed over the head of the queue, to 2
    spent,         \* history: tokens clients know the daemon has counted
    unverified,    \* history: launches with an attempt nothing verified
    condemned      \* history: launches the cache barred when it was loaded

handlers == <<pc, open, report, eligible, aged>>
queue == <<phase, pending, last_launch, passed>>
permits == <<active, active_fg>>
capacity == <<window, cooldown>>
storage == <<dirty, cache, crashes>>
history == <<spent, unverified, condemned>>
vars == <<handlers, commands, queue, permits, capacity, budgets, storage, history>>

Capacity == INSTANCE CapacityEnvelope

ASSUME SchedulerAssumption ==
    /\ Capacity!CapacityParameters
    /\ IsFiniteSet(Conns)
    /\ Request \in [Conns -> [launch : Launches, lane : {"Inference", "Control"},
                              priority : {"Foreground", "Background"},
                              budget : Nat \cup {NONE}]]
    /\ \A c \in Conns : Request[c].budget # NONE => Request[c].lane = "Inference"
    /\ \A r \in Reports : r.outcome \in Capacity!Outcomes /\ r.usage \in Nat \cup {NONE}
    /\ ClientsLeave \in BOOLEAN
    /\ CachesWritten \in BOOLEAN
    /\ MaxCrashes \in Nat

-----------------------------------------------------------------------------
(* Requests and replies.                                                   *)

is_foreground_inference(c) ==
    Request[c].lane = "Inference" /\ Request[c].priority = "Foreground"

Foreground(c) == Request[c].priority = "Foreground"
Budgeted(c) == Request[c].budget # NONE
Launch(c) == Request[c].launch

\* The one-shot reply of a request is closed once its handler has returned or
\* has its answer.
is_closed(c) == pc[c] # "queued"

is_retryable(outcome) ==
    outcome \in {"Transport", "Timeout", "RateLimited", "ServerError", "InvalidResponse"}

Send(kind, c) == commands' = Append(commands, [kind |-> kind, conn |-> c])

Goto(c, label) == pc' = [pc EXCEPT ![c] = label]

\* The handler of c ends, and all it knew with it.
Ends(c, label) ==
    /\ Goto(c, label)
    /\ open' = [open EXCEPT ![c] = FALSE]
    /\ report' = [report EXCEPT ![c] = Abandoned]
    /\ eligible' = [eligible EXCEPT ![c] = FALSE]
    /\ aged' = [aged EXCEPT ![c] = FALSE]

Returns(c) == Ends(c, "idle")

-----------------------------------------------------------------------------
(* Clients and their connection handlers.                                  *)

\* A client connects and asks; its handler queues the request.  The name of a
\* connection is free again once no command and no queue entry bears it.
Connect(c) ==
    /\ pc[c] = "idle"
    /\ \A i \in DOMAIN commands : commands[i].conn # c
    /\ \A i \in DOMAIN pending : pending[i] # c
    /\ Goto(c, "queued")
    /\ open' = [open EXCEPT ![c] = TRUE]
    /\ Send("acquire", c)
    /\ UNCHANGED <<report, eligible, aged, queue, permits, capacity, budgets, storage, history>>

\* A client's queue budget runs out, or its process dies.
ClientLeaves(c) ==
    /\ ClientsLeave
    /\ open[c] /\ pc[c] \in {"queued", "granted", "leased"}
    /\ open' = [open EXCEPT ![c] = FALSE]
    /\ UNCHANGED <<pc, report, eligible, aged, commands, queue, permits, capacity,
                   budgets, storage, history>>

\* Mutant of HandlerDisconnected: it gives back a permit it may not have.
HandlerReleases(c) ==
    /\ ~open[c] /\ pc[c] \in {"queued", "granted", "rejected"}
    /\ Returns(c)
    /\ Send("release", c)
    /\ UNCHANGED <<queue, permits, capacity, budgets, storage, history>>

\* The read arm of the handler's select wins: it returns, whether or not the
\* scheduler has answered meanwhile.
HandlerDisconnected(c) ==
    /\ ~open[c] /\ pc[c] \in {"queued", "granted", "rejected"}
    /\ Ends(c, IF pc[c] = "granted" THEN "lost" ELSE "idle")
    /\ UNCHANGED <<commands, queue, permits, capacity, budgets, storage, history>>

\* The grant arm wins and the grant reaches the client's socket.
DeliverGrant(c) ==
    /\ pc[c] = "granted"
    /\ Goto(c, "leased")
    /\ UNCHANGED <<open, report, eligible, aged, commands, queue, permits, capacity,
                   budgets, storage, history>>

\* Ends a lease nobody reports on: the attempt counts as cancelled.
Cancel(c) ==
    /\ Goto(c, "observing")
    /\ report' = [report EXCEPT ![c] = Abandoned]
    /\ eligible' = [eligible EXCEPT ![c] = FALSE]
    /\ Send("observe", c)
    /\ UNCHANGED <<open, aged, queue, permits, capacity, budgets, storage, history>>

\* The grant frame cannot be written: settle_grant_write_failure.
GrantWriteFails(c) == pc[c] = "granted" /\ ~open[c] /\ Cancel(c)

\* The client's end closes during the attempt.
LeaseAbandoned(c) == pc[c] = "leased" /\ ~open[c] /\ Cancel(c)

DeliverRejection(c) ==
    /\ pc[c] = "rejected"
    /\ Returns(c)
    /\ UNCHANGED <<commands, queue, permits, capacity, budgets, storage, history>>

\* The client reports its attempt and the handler passes that on.
ClientReports(c) ==
    /\ pc[c] = "leased" /\ open[c]
    /\ Goto(c, "observing")
    /\ \E r \in Reports : report' = [report EXCEPT ![c] = r]
    /\ Send("observe", c)
    /\ UNCHANGED <<open, eligible, aged, queue, permits, capacity, budgets, storage, history>>

\* An attempt whose daemon is gone ends as it would have; the report finds
\* nobody to take it.
OutlivedAttemptEnds(c) ==
    /\ pc[c] = "outlived"
    /\ Goto(c, "idle")
    /\ UNCHANGED <<open, report, eligible, aged, commands, queue, permits, capacity,
                   budgets, storage, history>>

\* What a client that has its answer, or a launch whose client is gone, may
\* count on from now on.
Acknowledge(c) ==
    LET l == Launch(c)
        u == report[c].usage
    IN  IF ~Budgeted(c) THEN UNCHANGED <<spent, unverified>>
        ELSE IF u = NONE
             THEN unverified' = unverified \cup {l} /\ UNCHANGED spent
             ELSE spent' = [spent EXCEPT ![l] = @ + u] /\ UNCHANGED unverified

\* A lease nobody reported on gives its permit back and the handler ends.
FinishAbandoned(c) ==
    /\ pc[c] = "observed" /\ ~open[c]
    /\ Returns(c)
    /\ Send("release", c)
    /\ Acknowledge(c)
    /\ UNCHANGED <<queue, permits, capacity, budgets, storage, condemned>>

\* A retryable attempt gives its permit back before its client learns that it
\* may retry, ...
ReleaseRetryable(c) ==
    /\ pc[c] = "observed" /\ open[c] /\ is_retryable(report[c].outcome)
    /\ Goto(c, "replying")
    /\ Send("release", c)
    /\ UNCHANGED <<open, report, eligible, aged, queue, permits, capacity, budgets,
                   storage, history>>

ReplyRetry(c) ==
    /\ pc[c] = "replying"
    /\ Returns(c)
    /\ Acknowledge(c)
    /\ UNCHANGED <<commands, queue, permits, capacity, budgets, storage, condemned>>

\* ... any other attempt after its client learns that it is complete.
ReplyComplete(c) ==
    /\ pc[c] = "observed" /\ open[c] /\ ~is_retryable(report[c].outcome)
    /\ Goto(c, "releasing")
    /\ Acknowledge(c)
    /\ UNCHANGED <<open, report, eligible, aged, commands, queue, permits, capacity,
                   budgets, storage, condemned>>

ReleaseCompleted(c) ==
    /\ pc[c] = "releasing"
    /\ Returns(c)
    /\ Send("release", c)
    /\ UNCHANGED <<queue, permits, capacity, budgets, storage, history>>

-----------------------------------------------------------------------------
(* Budgets.                                                                *)

NoBudget == [limit |-> NONE]
BudgetState(limit) ==
    [limit |-> limit, consumed |-> 0, in_flight |-> 0, accounting_blocked |-> FALSE]

\* entry(..).or_insert_with(..)
EntryOf(l, limit) == IF budgets[l] = NoBudget THEN BudgetState(limit) ELSE budgets[l]

Lowered(n) == IF n > 0 THEN n - 1 ELSE 0   \* saturating_sub(1)

\* A grant charges its launch with one request in flight.
Charged(c) ==
    IF Budgeted(c)
    THEN [budgets EXCEPT ![Launch(c)] =
            [EntryOf(Launch(c), Request[c].budget) EXCEPT !.in_flight = @ + 1]]
    ELSE budgets

\* Mutant of Settled: a response without usage counts as zero.
SettledAsZero(c) ==
    LET b == EntryOf(Launch(c), Request[c].budget)
    IN  IF Budgeted(c)
        THEN [budgets EXCEPT ![Launch(c)] =
                [b EXCEPT !.in_flight = Lowered(@),
                          !.consumed = IF report[c].usage = NONE THEN @
                                       ELSE @ + report[c].usage]]
        ELSE budgets

\* An observation settles one request in flight: what it used is counted, and
\* a launch with an unverified or mismatched one is blocked for good.
Settled(c) ==
    LET b == EntryOf(Launch(c), Request[c].budget)
        verified == b.limit = Request[c].budget /\ report[c].usage # NONE
    IN  IF Budgeted(c)
        THEN [budgets EXCEPT ![Launch(c)] =
                [b EXCEPT !.in_flight = Lowered(@),
                          !.consumed = IF verified THEN @ + report[c].usage ELSE @,
                          !.accounting_blocked = @ \/ ~verified]]
        ELSE budgets

Barred(b, limit) ==
    \/ b.limit # limit          \* BudgetMismatch
    \/ b.accounting_blocked     \* AccountingUnavailable
    \/ b.consumed >= limit      \* BudgetExhausted

budget_rejection(c) ==
    LET b == budgets[Launch(c)]
    IN  /\ b # NoBudget
        /\ IF Budgeted(c) THEN Barred(b, Request[c].budget)
                          ELSE Request[c].lane = "Inference"

-----------------------------------------------------------------------------
(* The scheduler's loop: one command or one tick of the timer, ...         *)

ReceiveAcquire(c) ==
    /\ pending' = Append(pending, c)
    /\ UNCHANGED <<pc, active, active_fg, capacity, budgets, dirty>>

\* growth needs an attempt granted under saturation; any other success leaves
\* the window as it is.
ReceiveObserve(c) ==
    /\ budgets' = Settled(c)
    /\ IF report[c].outcome = "Success" /\ ~eligible[c]
       THEN UNCHANGED capacity
       ELSE Capacity!Observe(report[c].outcome, is_foreground_inference(c))
    /\ Goto(c, "observed")
    /\ dirty' = TRUE
    /\ UNCHANGED <<pending, active, active_fg>>

\* Mutant of ReceiveRelease: the release is dropped.
ReleaseIgnored(c) == UNCHANGED <<pc, pending, permits, capacity, budgets, dirty>>

\* Mutant of ReceiveRelease: the foreground count is left as it is.
ReceiveReleaseOfAny(c) ==
    /\ active' = Lowered(active)
    /\ UNCHANGED <<pc, pending, active_fg, capacity, budgets, dirty>>

ReceiveRelease(c) ==
    /\ active' = Lowered(active)
    /\ active_fg' = IF is_foreground_inference(c) THEN Lowered(active_fg) ELSE active_fg
    /\ UNCHANGED <<pc, pending, capacity, budgets, dirty>>

Receive ==
    /\ phase = "select" /\ commands # <<>>
    /\ phase' = "schedule"
    /\ commands' = Tail(commands)
    /\ LET c == Head(commands).conn
       IN  \/ Head(commands).kind = "acquire" /\ ReceiveAcquire(c)
           \/ Head(commands).kind = "observe" /\ ReceiveObserve(c)
           \/ Head(commands).kind = "release" /\ ReceiveRelease(c)
    /\ UNCHANGED <<open, report, eligible, aged, last_launch, passed, cache, crashes, history>>

\* A tick with nothing queued and nothing to write would change nothing.
Timer ==
    /\ phase = "select"
    /\ pending # <<>> \/ (dirty /\ CachesWritten)
    /\ phase' = "schedule"
    /\ UNCHANGED <<handlers, commands, pending, last_launch, passed, permits, capacity,
                   budgets, storage, history>>

-----------------------------------------------------------------------------
(* ... then schedule, ...                                                  *)

\* What follows schedule in the loop.
AfterSchedule == IF dirty /\ CachesWritten THEN "save" ELSE "select"

Without(i) == SubSeq(pending, 1, i - 1) \o SubSeq(pending, i + 1, Len(pending))

\* retain, which looks at one request after the other: those whose handler is
\* gone are dropped.
Retain ==
    /\ phase = "schedule"
    /\ \E i \in DOMAIN pending :
           /\ is_closed(pending[i])
           /\ \A j \in 1..(i - 1) : ~is_closed(pending[j])
           /\ pending' = Without(i)
           /\ passed' = IF i = 1 THEN 0 ELSE passed
    /\ UNCHANGED <<handlers, commands, phase, last_launch, permits, capacity, budgets,
                   storage, history>>

\* A scope cooling down grants nothing.
BeginSchedule ==
    /\ phase = "schedule"
    /\ \A i \in DOMAIN pending : ~is_closed(pending[i])
    /\ phase' = IF cooldown > 0 THEN AfterSchedule ELSE "granting"
    /\ UNCHANGED <<handlers, commands, pending, last_launch, passed, permits, capacity,
                   budgets, storage, history>>

Oldest(i, positions) == i \in positions /\ \A j \in positions : i <= j

\* Requests that may go next: background work waits for foreground work until
\* it has aged.
Ready ==
    LET has_foreground == \E i \in DOMAIN pending : Foreground(pending[i])
    IN  {i \in DOMAIN pending :
            ~has_foreground \/ Foreground(pending[i]) \/ aged[pending[i]]}

\* Mutant of take_fair: the oldest request of the launch served last goes first.
take_again(i) ==
    LET same == {j \in DOMAIN pending : Launch(pending[j]) = last_launch}
    IN  Oldest(i, IF same # {} THEN same ELSE DOMAIN pending)

\* Whether the request at position i is the next to serve: the oldest that is
\* ready, one of another launch than the one served last going first.
take_fair(i) ==
    LET preferred == {j \in Ready : Launch(pending[j]) # last_launch}
    IN  Oldest(i, IF preferred # {} THEN preferred ELSE Ready)

\* Queued foreground inference other than the request being served.
QueuedForeground(c) ==
    Cardinality({i \in DOMAIN pending :
        pending[i] # c /\ ~is_closed(pending[i]) /\ is_foreground_inference(pending[i])})

\* A foreground request, or an aged one, stays ready until it is served.
Steady(c) == Foreground(c) \/ aged[c]

CanGrant == phase = "granting" /\ active < window /\ pending # <<>>

\* The handler returned since retain looked: the request is dropped.
SkipClosed(i) ==
    /\ is_closed(pending[i])
    /\ passed' = IF i = 1 THEN 0 ELSE passed
    /\ UNCHANGED <<pc, eligible, permits, budgets, last_launch>>

Reject(i) ==
    /\ ~is_closed(pending[i]) /\ budget_rejection(pending[i])
    /\ Goto(pending[i], "rejected")
    /\ passed' = IF i = 1 THEN 0 ELSE passed
    /\ UNCHANGED <<eligible, permits, budgets, last_launch>>

Grant(i) ==
    LET c == pending[i]
        fg == is_foreground_inference(c)
    IN  /\ ~is_closed(c) /\ ~budget_rejection(c)
        /\ Goto(c, "granted")
        /\ eligible' = [eligible EXCEPT ![c] =
               fg /\ active_fg + 1 + QueuedForeground(c) >= window]
        /\ active' = active + 1
        /\ active_fg' = IF fg THEN active_fg + 1 ELSE active_fg
        /\ budgets' = Charged(c)
        /\ last_launch' = Launch(c)
        /\ passed' = CASE i = 1 -> 0
                       [] i > 1 /\ Steady(Head(pending)) -> Capacity!Smaller(passed + 1, 2)
                       [] OTHER -> passed

\* One round of schedule's inner loop.
ServeNext ==
    /\ CanGrant
    /\ \E i \in DOMAIN pending :
           /\ take_fair(i)
           /\ pending' = Without(i)
           /\ SkipClosed(i) \/ Reject(i) \/ Grant(i)
    /\ UNCHANGED <<phase, open, report, aged, commands, capacity, storage, history>>

EndSchedule ==
    /\ phase = "granting" /\ ~CanGrant
    /\ phase' = AfterSchedule
    /\ UNCHANGED <<handlers, commands, pending, last_launch, passed, permits, capacity,
                   budgets, storage, history>>

-----------------------------------------------------------------------------
(* ... then, at most once per CACHE_WRITE_INTERVAL, save_cache.            *)

NoFile == [torn |-> TRUE]   \* missing, or truncated and not yet written
Snapshot == [torn |-> FALSE, window |-> window, budgets |-> budgets]

\* The interval has not elapsed since the last write.
SaveLater ==
    /\ phase = "save"
    /\ phase' = "select"
    /\ UNCHANGED <<handlers, commands, pending, last_launch, passed, permits, capacity,
                   budgets, storage, history>>

\* open_private_truncate empties the file before the new contents are written.
SaveTruncates ==
    /\ phase = "save"
    /\ phase' = "writing"
    /\ cache' = NoFile
    /\ UNCHANGED <<handlers, commands, pending, last_launch, passed, permits, capacity,
                   budgets, dirty, crashes, history>>

SaveWrites ==
    /\ phase = "writing"
    /\ phase' = "select"
    /\ cache' = Snapshot
    /\ dirty' = FALSE
    /\ UNCHANGED <<handlers, commands, pending, last_launch, passed, permits, capacity,
                   budgets, crashes, history>>

\* The write fails: the file stays as it is and the cache stays dirty.
SaveFails ==
    /\ phase = "writing"
    /\ phase' = "select"
    /\ UNCHANGED <<handlers, commands, pending, last_launch, passed, permits, capacity,
                   budgets, storage, history>>

-----------------------------------------------------------------------------
(* Time, and the end of a daemon.                                          *)

CooldownTick ==
    /\ Capacity!Tick
    /\ UNCHANGED <<handlers, commands, queue, permits, budgets, storage, history>>

\* A queued background request has waited BACKGROUND_AGING.
Age(c) ==
    /\ pc[c] = "queued" /\ ~aged[c] /\ ~Foreground(c)
    /\ aged' = [aged EXCEPT ![c] = TRUE]
    /\ UNCHANGED <<pc, open, report, eligible, commands, queue, permits, capacity,
                   budgets, storage, history>>

\* Mutant of RestoredBudget: the budget comes back as it was saved.
RestoredVerbatim(b) == b

\* Mutant of RestoredBudget: what was in flight is forgiven.
RestoredForgiving(b) == IF b = NoBudget THEN b ELSE [b EXCEPT !.in_flight = 0]

\* Requests in flight when the cache was written never report to the new daemon.
RestoredBudget(b) ==
    IF b = NoBudget THEN b
    ELSE [b EXCEPT !.in_flight = 0,
                   !.accounting_blocked = @ \/ b.in_flight > 0]

\* Attempts under way at the provider that the running daemon granted.  A bridge
\* that gives up its stream over a progress frame it cannot write
\* (headers_received) has left, as far as any daemon can tell, ...
Sending == {c \in Conns : pc[c] = "leased" /\ open[c]}

\* ... and those whose daemon died meanwhile.
Outliving == {c \in Conns : pc[c] = "outlived"}

\* The daemon dies, its connections with it, and a new one loads the cache.
\* Attempts under way go on without it, unknown to the new one, and are never
\* verified.
Crash ==
    /\ crashes < MaxCrashes
    /\ crashes' = crashes + 1
    /\ pc' = [c \in Conns |-> IF c \in Sending \cup Outliving THEN "outlived" ELSE "idle"]
    /\ open' = [c \in Conns |-> FALSE]
    /\ report' = [c \in Conns |-> Abandoned]
    /\ eligible' = [c \in Conns |-> FALSE]
    /\ aged' = [c \in Conns |-> FALSE]
    /\ commands' = <<>>
    /\ phase' = "select"
    /\ pending' = <<>>
    /\ passed' = 0
    /\ last_launch' = NONE
    /\ active' = 0
    /\ active_fg' = 0
    /\ cooldown' = 0
    /\ IF cache.torn
       THEN /\ window' = INITIAL_WINDOW
            /\ budgets' = [l \in Launches |-> NoBudget]
            /\ condemned' = {}
       ELSE /\ window' \in {cache.window, INITIAL_WINDOW} \cup INITIAL_WINDOW..cache.window
            /\ budgets' = [l \in Launches |-> RestoredBudget(cache.budgets[l])]
            /\ condemned' = {l \in Launches :
                  /\ cache.budgets[l] # NoBudget
                  /\ \/ Barred(cache.budgets[l], cache.budgets[l].limit)
                     \/ cache.budgets[l].in_flight > 0}
    /\ dirty' = FALSE
    /\ unverified' = unverified \cup {Launch(c) : c \in {s \in Sending : Budgeted(s)}}
    /\ UNCHANGED <<cache, spent>>

-----------------------------------------------------------------------------
Init ==
    /\ pc = [c \in Conns |-> "idle"]
    /\ open = [c \in Conns |-> FALSE]
    /\ report = [c \in Conns |-> Abandoned]
    /\ eligible = [c \in Conns |-> FALSE]
    /\ aged = [c \in Conns |-> FALSE]
    /\ commands = <<>>
    /\ phase = "select"
    /\ pending = <<>>
    /\ active = 0
    /\ active_fg = 0
    /\ window = INITIAL_WINDOW
    /\ cooldown = 0
    /\ last_launch = NONE
    /\ budgets = [l \in Launches |-> NoBudget]
    /\ dirty = FALSE
    /\ cache = NoFile
    /\ crashes = 0
    /\ passed = 0
    /\ spent = [l \in Launches |-> 0]
    /\ unverified = {}
    /\ condemned = {}

Handler(c) ==
    \/ HandlerDisconnected(c)
    \/ DeliverGrant(c)
    \/ GrantWriteFails(c)
    \/ LeaseAbandoned(c)
    \/ DeliverRejection(c)
    \/ FinishAbandoned(c)
    \/ ReleaseRetryable(c)
    \/ ReplyRetry(c)
    \/ ReplyComplete(c)
    \/ ReleaseCompleted(c)

Loop == Retain \/ BeginSchedule \/ ServeNext \/ EndSchedule \/ SaveLater \/ SaveTruncates
            \/ SaveWrites \/ SaveFails

Next ==
    \/ \E c \in Conns : Connect(c) \/ ClientLeaves(c) \/ ClientReports(c) \/ Handler(c)
                         \/ OutlivedAttemptEnds(c) \/ Age(c)
    \/ Receive
    \/ Timer
    \/ Loop
    \/ CooldownTick
    \/ Crash

Spec == Init /\ [][Next]_vars

\* Tasks are polled while they can run, timers fire, and a client reports its
\* attempt.  run's select takes a ready arm at random and its timer is ready
\* once per TICK only, so a queued command is not put off forever.
FairSpec ==
    /\ Spec
    /\ SF_vars(Receive)
    /\ WF_vars(Timer \/ Loop)
    /\ WF_vars(CooldownTick)
    /\ \A c \in Conns : WF_vars(ClientReports(c) \/ Handler(c)) /\ WF_vars(Age(c))

-----------------------------------------------------------------------------
Commands == [kind : {"acquire", "observe", "release"}, conn : Conns]
Budgets == [limit : Nat, consumed : Nat, in_flight : 0..Cardinality(Conns),
            accounting_blocked : BOOLEAN] \cup {NoBudget}

TypeOK ==
    /\ pc \in [Conns -> {"idle", "queued", "granted", "rejected", "leased", "observing",
                         "observed", "replying", "releasing", "lost", "outlived"}]
    /\ open \in [Conns -> BOOLEAN]
    /\ report \in [Conns -> Reports \cup {Abandoned}]
    /\ eligible \in [Conns -> BOOLEAN]
    /\ aged \in [Conns -> BOOLEAN]
    /\ commands \in Seq(Commands)
    /\ phase \in {"select", "schedule", "granting", "save", "writing"}
    /\ pending \in Seq(Conns)
    /\ active \in 0..Cardinality(Conns)
    /\ active_fg \in 0..active
    /\ window \in 1..MAX_WINDOW
    /\ cooldown \in 0..NEVER
    /\ last_launch \in Launches \cup {NONE}
    /\ budgets \in [Launches -> Budgets]
    /\ dirty \in BOOLEAN
    /\ cache = NoFile \/ cache \in [torn : {FALSE}, window : 1..MAX_WINDOW,
                                    budgets : [Launches -> Budgets]]
    /\ crashes \in 0..MaxCrashes

\* Connections whose release command waits in the queue.
Releasing == {c \in Conns :
    \E i \in DOMAIN commands : commands[i] = [kind |-> "release", conn |-> c]}

\* Connections that hold a permit of the scheduler's count.
Charging == Releasing \cup {c \in Conns :
    pc[c] \in {"granted", "leased", "observing", "observed", "releasing", "lost"}}

\* Connections whose attempt no observation has settled.
Unsettled == {c \in Conns : pc[c] \in {"granted", "leased", "observing", "lost"}}

\* The scheduler counts each permit it handed out until its release is taken,
\* once each and by the right kind, whichever way the handler leaves the
\* exchange: active and active_foreground_inference never drift from the
\* handlers (schedule, handle_command, observe_until_release,
\* settle_grant_write_failure).
PermitAccounting ==
    /\ active = Cardinality(Charging)
    /\ active_fg = Cardinality({c \in Charging : is_foreground_inference(c)})

\* A budget's in_flight is the number of its attempts nothing has been
\* observed of, retries and abandoned leases included; it is what a restart
\* decides on (schedule, observe, restored_scope).
InFlightAccounting ==
    \A l \in Launches : budgets[l] # NoBudget =>
        budgets[l].in_flight =
            Cardinality({c \in Unsettled : Budgeted(c) /\ Launch(c) = l})

Granting(c) == pc[c] = "queued" /\ pc'[c] = "granted"

\* A daemon grants a permit only while fewer attempts of its own granting than
\* the window allows are under way at the provider, and never during the
\* cooldown: retries that release before they are answered, disconnects and
\* late releases do not let its count fall behind them (schedule,
\* observe_until_release).  Attempts that outlived an earlier daemon come on
\* top: AttemptsWithinWindows says how many.
AdmissionWithinWindow ==
    [][\A c \in Conns : Granting(c) => Cardinality(Sending) < window /\ cooldown = 0]_vars

\* The running daemon's attempts fit a window, and so do those that outlived
\* each of its predecessors: a daemon that starts with an empty count beside
\* attempts it never hears of can add its own window to them and no more
\* (schedule, ScopeState's active, send_with_policy's attempt that goes on).
AttemptsWithinWindows ==
    /\ Cardinality(Sending) <= MAX_WINDOW
    /\ Cardinality(Outliving) <= MAX_WINDOW * crashes

\* No attempt of a budgeted launch is admitted once the tokens its clients
\* know to be counted reach the limit, or once one of its responses could not
\* be verified (README.md:333, budget_rejection, observe).
AdmissionHonoursBudget ==
    [][\A c \in Conns : Granting(c) /\ Budgeted(c) =>
            spent[Launch(c)] < Request[c].budget /\ Launch(c) \notin unverified]_vars

\* A launch whose attempts were under way when the cache was written, or that
\* was barred already, gets no attempt from the daemon that loads that cache
\* (restored_scope).
NoAdmissionOnceCondemned ==
    [][\A c \in Conns : Granting(c) /\ Budgeted(c) => Launch(c) \notin condemned]_vars

\* The oldest request, once it is foreground or aged, is passed over at most
\* once: another launch may go first, and then it is the other launch
\* (take_fair).
HeadPassedOverOnce == passed <= 1

\* When every handler has returned and every command is taken, no permit is
\* still counted (daemon/connection/grant_write_failure_tests.rs:3).
PermitsReturned ==
    (commands = <<>> /\ \A c \in Conns : pc[c] \in {"idle", "lost", "outlived"}) => active = 0

\* Every request whose client waits is granted a permit or refused: neither
\* cooldowns, nor foreground traffic, nor other launches starve it.
RequestsServed ==
    \A c \in Conns : pc[c] = "queued" ~> pc[c] # "queued"

==================================================
