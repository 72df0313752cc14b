-------------------------- MODULE CoordinatorDaemon --------------------------
(***************************************************************************)
(* The per-user coordinator process as its clients find it: election by a  *)
(* process lock, the receipt file that tells clients where the daemon      *)
(* listens, clients that start a daemon when none answers, and the ends a  *)
(* daemon may come to (idle, a failing accept, death).                     *)
(*                                                                         *)
(* Files and processes are shared by every process of the user and nothing *)
(* orders their steps but the lock: each file or socket operation is a     *)
(* step.  What passes over a connection is the business of Scheduler.      *)
(*                                                                         *)
(* Source: crates/nan-harness-coordinator/src/daemon/lifecycle.rs,         *)
(* daemon/state.rs and client.rs.                                          *)
(***************************************************************************)
EXTENDS FiniteSets, Naturals

CONSTANTS
    Daemons,    \* daemon processes, a name being free again once forgotten
    Clients,    \* processes that ask for capacity
    Version,    \* Clients -> the protocol version the installation speaks
    MaxStops,   \* bound: times a daemon that was elected comes to an end
    NONE        \* no lock holder, no receipt, no address

ASSUME DaemonAssumption ==
    /\ IsFiniteSet(Daemons)
    /\ NONE \notin Daemons
    /\ Version \in [Clients -> Nat]
    /\ MaxStops \in Nat

VARIABLES
    proc,     \* where each daemon process stands
    speaks,   \* protocol version of each daemon
    idle,     \* daemons whose last activity lies IDLE_TIMEOUT back
    lock,     \* holder of process.lock
    receipt,  \* daemon receipt.json names (its port, token and generation)
    stops,    \* elected daemons that came to an end
    broken,   \* history: daemons whose accept failed
    client,   \* where each client stands
    address,  \* daemon a client has read the receipt of or is connected to
    spawned   \* whether the client has started a daemon for this request

processes == <<proc, speaks, idle, lock, receipt, stops, broken>>
clients == <<client, address, spawned>>
vars == <<processes, clients>>

Listening == {d \in Daemons : proc[d] \in {"listening", "replacing", "serving"}}
Elected == {d \in Daemons :
    proc[d] \in {"locked", "listening", "replacing", "serving", "stopping", "checked", "unlocking"}}

\* Connected to a live socket of d; accepted once the daemon took it.
ConnectedTo(d) == {c \in Clients : client[c] \in {"connected", "accepted"} /\ address[c] = d}
AcceptedBy(d) == {c \in Clients : client[c] = "accepted" /\ address[c] = d}

Becomes(d, label) == proc' = [proc EXCEPT ![d] = label]

\* Nobody but c, who is done with it, names d any more.
Forgotten(d, c) ==
    /\ proc[d] = "none" /\ receipt # d
    /\ \A other \in Clients \ {c} : address[other] # d

-----------------------------------------------------------------------------
(* run_daemon: election and publication.                                   *)

\* Mutant of acquire_process_lock: the outcome of try_lock is not looked at.
lock_unchecked(d) ==
    /\ proc[d] = "started"
    /\ lock' = d
    /\ Becomes(d, "locked")
    /\ UNCHANGED <<speaks, idle, receipt, stops, broken, clients>>

\* A process that does not get the lock exits at once.
acquire_process_lock(d) ==
    /\ proc[d] = "started"
    /\ IF lock = NONE THEN lock' = d /\ Becomes(d, "locked")
                      ELSE UNCHANGED lock /\ Becomes(d, "none")
    /\ UNCHANGED <<speaks, idle, receipt, stops, broken, clients>>

Bind(d) ==
    /\ proc[d] = "locked"
    /\ Becomes(d, "listening")
    /\ UNCHANGED <<speaks, idle, lock, receipt, stops, broken, clients>>

\* Mutant of RemoveOldReceipt: an existing receipt is taken for a live daemon.
YieldToReceipt(d) ==
    /\ proc[d] = "listening"
    /\ IF receipt = NONE THEN Becomes(d, "replacing") /\ UNCHANGED lock
                         ELSE Becomes(d, "none") /\ lock' = NONE
    /\ UNCHANGED <<speaks, idle, receipt, stops, broken, clients>>

\* write_receipt: the new receipt is complete in a file of its own before the
\* old one is removed and the new one renamed over it.
RemoveOldReceipt(d) ==
    /\ proc[d] = "listening"
    /\ Becomes(d, "replacing")
    /\ receipt' = NONE
    /\ UNCHANGED <<speaks, idle, lock, stops, broken, clients>>

PublishReceipt(d) ==
    /\ proc[d] = "replacing"
    /\ Becomes(d, "serving")
    /\ receipt' = d
    /\ idle' = idle \ {d}
    /\ UNCHANGED <<speaks, lock, stops, broken, clients>>

\* The listener or the receipt cannot be had: the process gives the lock back
\* and exits.
StartFails(d) ==
    /\ proc[d] \in {"locked", "listening", "replacing"}
    /\ stops < MaxStops
    /\ stops' = stops + 1
    /\ Becomes(d, "none")
    /\ lock' = NONE
    /\ UNCHANGED <<speaks, idle, receipt, broken, clients>>

-----------------------------------------------------------------------------
(* serve.                                                                  *)

Accept(c) ==
    LET d == address[c]
    IN  /\ client[c] = "connected" /\ proc[d] = "serving"
        /\ client' = [client EXCEPT ![c] = "accepted"]
        /\ idle' = idle \ {d}
        /\ UNCHANGED <<proc, speaks, lock, receipt, stops, broken, address, spawned>>

\* IDLE_TIMEOUT has passed since the last recorded activity.  It is hundreds of
\* times the STARTUP_BUDGET a client keeps looking for a daemon.
IdleTimePasses(d) ==
    /\ proc[d] = "serving" /\ d \notin idle
    /\ \A c \in Clients : client[c] \notin {"probing", "addressed", "connected"}
    /\ idle' = idle \cup {d}
    /\ UNCHANGED <<proc, speaks, lock, receipt, stops, broken, clients>>

\* The handler of a connection ends, the client having its answer.  Only a
\* connection that was granted a lease counts as activity when it ends.
HandlerEnds(c) ==
    LET d == address[c]
    IN  /\ client[c] = "accepted" /\ proc[d] # "none"
        /\ client' = [client EXCEPT ![c] = "answered"]
        /\ address' = [address EXCEPT ![c] = NONE]
        /\ idle' \in {idle, idle \ {d}}
        /\ UNCHANGED <<proc, speaks, lock, receipt, stops, broken, spawned>>

\* Mutant of IdleExit: the connections are not counted.
IdleExitRegardless(d) ==
    /\ proc[d] = "serving" /\ d \in idle
    /\ stops < MaxStops
    /\ stops' = stops + 1
    /\ Becomes(d, "stopping")
    /\ UNCHANGED <<speaks, idle, lock, receipt, broken, clients>>

\* The idle check finds no connection and an old last activity: serve returns
\* and its listener, with what nobody accepted yet, is gone.
IdleExit(d) ==
    /\ proc[d] = "serving" /\ d \in idle
    /\ AcceptedBy(d) = {}
    /\ stops < MaxStops
    /\ stops' = stops + 1
    /\ Becomes(d, "stopping")
    /\ UNCHANGED <<speaks, idle, lock, receipt, broken, clients>>

\* accept fails: serve returns, connections or not.
AcceptFails(d) ==
    /\ proc[d] = "serving"
    /\ stops < MaxStops
    /\ stops' = stops + 1
    /\ Becomes(d, "stopping")
    /\ broken' = broken \cup {d}
    /\ UNCHANGED <<speaks, idle, lock, receipt, clients>>

-----------------------------------------------------------------------------
(* run_daemon: what follows serve.                                         *)

\* remove_own_receipt looks whether the receipt is its own ...
CheckOwnReceipt(d) ==
    /\ proc[d] = "stopping"
    /\ Becomes(d, IF receipt = d THEN "checked" ELSE "unlocking")
    /\ UNCHANGED <<speaks, idle, lock, receipt, stops, broken, clients>>

\* ... and removes it, whatever it is by now.
RemoveReceipt(d) ==
    /\ proc[d] = "checked"
    /\ Becomes(d, "unlocking")
    /\ receipt' = NONE
    /\ UNCHANGED <<speaks, idle, lock, stops, broken, clients>>

\* Mutant of Unlock: the lock goes before the receipt.
UnlockEarly(d) ==
    \/ /\ proc[d] = "checked" /\ lock = d
       /\ lock' = NONE
       /\ UNCHANGED <<proc, speaks, idle, receipt, stops, broken, clients>>
    \/ /\ proc[d] = "unlocking"
       /\ Becomes(d, "exiting")
       /\ lock' = IF lock = d THEN NONE ELSE lock
       /\ UNCHANGED <<speaks, idle, receipt, stops, broken, clients>>

Unlock(d) ==
    /\ proc[d] = "unlocking"
    /\ Becomes(d, "exiting")
    /\ lock' = NONE
    /\ UNCHANGED <<speaks, idle, receipt, stops, broken, clients>>

\* The process ends, and the handlers still running in it.
Exit(d) ==
    /\ proc[d] = "exiting"
    /\ Becomes(d, "none")
    /\ broken' = broken \ {d}
    /\ UNCHANGED <<speaks, idle, lock, receipt, stops, clients>>

\* A daemon dies; the system gives its lock back and closes its sockets.
Die(d) ==
    /\ proc[d] \notin {"none", "started"}
    /\ stops < MaxStops
    /\ stops' = stops + 1
    /\ Becomes(d, "none")
    /\ lock' = IF lock = d THEN NONE ELSE lock
    /\ broken' = broken \ {d}
    /\ UNCHANGED <<speaks, idle, receipt, clients>>

-----------------------------------------------------------------------------
(* connect_or_spawn.                                                       *)

At(c, label, d) ==
    /\ client' = [client EXCEPT ![c] = label]
    /\ address' = [address EXCEPT ![c] = d]

\* A request needs capacity and the cooldown of a failed probe is over.
Ask(c) ==
    /\ client[c] \in {"idle", "answered", "incompatible", "failed"}
    /\ At(c, "probing", NONE)
    /\ spawned' = [spawned EXCEPT ![c] = FALSE]
    /\ UNCHANGED processes

read_receipt(c) ==
    /\ client[c] = "probing" /\ receipt # NONE
    /\ At(c, "addressed", receipt)
    /\ UNCHANGED <<processes, spawned>>

Compatible(c) == speaks[address[c]] = Version[c]
Answers(c) == address[c] \in Listening

\* connect_from_receipt with the receipt at hand, by version and liveness.
Connect(c) ==
    /\ client[c] = "addressed" /\ Compatible(c) /\ Answers(c)
    /\ At(c, "connected", address[c])
    /\ UNCHANGED <<processes, spawned>>

ReportIncompatible(c) ==
    /\ client[c] = "addressed" /\ ~Compatible(c) /\ Answers(c)
    /\ At(c, "incompatible", NONE)
    /\ UNCHANGED <<processes, spawned>>

Misses(c) ==
    \/ client[c] = "probing" /\ receipt = NONE
    \/ client[c] = "addressed" /\ ~Answers(c)

\* spawn_daemon, once per request and from the client's own executable.
spawn_daemon(c) ==
    /\ Misses(c) /\ ~spawned[c]
    /\ \E d \in Daemons :
           /\ Forgotten(d, c)
           /\ Becomes(d, "started")
           /\ speaks' = [speaks EXCEPT ![d] = Version[c]]
    /\ spawned' = [spawned EXCEPT ![c] = TRUE]
    /\ At(c, "probing", NONE)
    /\ UNCHANGED <<idle, lock, receipt, stops, broken>>

LookAgain(c) ==
    /\ client[c] = "addressed" /\ ~Answers(c) /\ spawned[c]
    /\ At(c, "probing", NONE)
    /\ UNCHANGED <<processes, spawned>>

\* STARTUP_BUDGET is up and the last look found no daemon: a receipt of
\* another version is reported, anything else starts the probe's cooldown.
\* A daemon that is on its way needs far less than STARTUP_BUDGET.
GiveUp(c) ==
    /\ Misses(c) /\ spawned[c]
    /\ \A d \in Daemons : proc[d] \notin {"started", "locked", "listening", "replacing", "serving"}
    /\ At(c, IF receipt # NONE /\ speaks[receipt] # Version[c] THEN "incompatible" ELSE "failed",
          NONE)
    /\ UNCHANGED <<processes, spawned>>

\* The daemon a client is connected to is gone: "disconnected while queued".
Disconnected(c) ==
    /\ \/ client[c] = "connected" /\ address[c] \notin Listening
       \/ client[c] = "accepted" /\ proc[address[c]] = "none"
    /\ At(c, "failed", NONE)
    /\ UNCHANGED <<processes, spawned>>

-----------------------------------------------------------------------------
Init ==
    /\ proc = [d \in Daemons |-> "none"]
    /\ speaks = [d \in Daemons |-> 0]
    /\ idle = {}
    /\ lock = NONE
    /\ receipt = NONE
    /\ stops = 0
    /\ broken = {}
    /\ client = [c \in Clients |-> "idle"]
    /\ address = [c \in Clients |-> NONE]
    /\ spawned = [c \in Clients |-> FALSE]

\* What a running daemon does of itself.
Runs(d) ==
    \/ acquire_process_lock(d)
    \/ Bind(d)
    \/ RemoveOldReceipt(d)
    \/ PublishReceipt(d)
    \/ CheckOwnReceipt(d)
    \/ RemoveReceipt(d)
    \/ Unlock(d)
    \/ Exit(d)

\* What a client and its connection do of themselves.
Proceeds(c) ==
    \/ Ask(c)
    \/ read_receipt(c)
    \/ Connect(c)
    \/ ReportIncompatible(c)
    \/ spawn_daemon(c)
    \/ LookAgain(c)
    \/ GiveUp(c)
    \/ Accept(c)
    \/ HandlerEnds(c)
    \/ Disconnected(c)

Next ==
    \/ \E d \in Daemons :
          Runs(d) \/ StartFails(d) \/ IdleTimePasses(d) \/ IdleExit(d) \/ AcceptFails(d) \/ Die(d)
    \/ \E c \in Clients : Proceeds(c)

Spec == Init /\ [][Next]_vars

\* Processes run, and the deadline of a client that keeps missing passes.
\* Nothing makes a daemon fail, die or become idle.
FairSpec ==
    /\ Spec
    /\ \A d \in Daemons : WF_vars(Runs(d))
    /\ \A c \in Clients : WF_vars(Proceeds(c)) /\ SF_vars(GiveUp(c))

-----------------------------------------------------------------------------
\* Besides the types: process.lock has one holder, the elected daemon.
TypeOK ==
    /\ proc \in [Daemons -> {"none", "started", "locked", "listening", "replacing", "serving",
                             "stopping", "checked", "unlocking", "exiting"}]
    /\ speaks \in [Daemons -> Nat]
    /\ idle \subseteq Daemons
    /\ lock \in Daemons \cup {NONE}
    /\ receipt \in Daemons \cup {NONE}
    /\ stops \in 0..MaxStops
    /\ broken \subseteq Daemons
    /\ client \in [Clients -> {"idle", "probing", "addressed", "connected", "accepted",
                               "answered", "incompatible", "failed"}]
    /\ address \in [Clients -> Daemons \cup {NONE}]
    /\ spawned \in [Clients -> BOOLEAN]
    /\ Elected = {lock} \ {NONE}

\* While a daemon serves, the receipt names it: neither a predecessor that
\* still tidies up nor a process that lost the election takes it away, so a
\* client that looks for the serving daemon finds it (write_receipt,
\* remove_own_receipt, and the lock held around both in run_daemon).
ServingIsPublished == \A d \in Daemons : proc[d] = "serving" => receipt = d

\* Processes in which a handler runs for some client.
Handling == {address[c] : c \in {k \in Clients :
                client[k] = "accepted" /\ proc[address[k]] # "none"}}

\* Two processes handle requests at the same time only while one of them goes
\* down over a failing accept: otherwise one process keeps each scope's window,
\* and the windows of two do not add up (run_daemon, serve).
OneCapacityAuthority ==
    \A d1, d2 \in Handling : d1 = d2 \/ {d1, d2} \cap broken # {}

\* A client that keeps asking is served, or told that a daemon of another
\* version runs, again and again: no order of elections, stale receipts, idle
\* exits and failures leaves it probing in vain for good (connect_or_spawn).
EveryClientIsAnswered ==
    \A c \in Clients : []<>(client[c] \in {"answered", "incompatible"})

=============================================================================
