--------------------------- MODULE DiagnosticCapture ---------------------------
(***************************************************************************)
(* Optional diagnostic capture.  Commands turn it on, off, or purge what   *)
(* was captured; a process that captures shares one writer per capture     *)
(* among its requests.  A writer is a task that drains a bounded queue to  *)
(* a file of its own in finite blocking batches, under a shared lock that  *)
(* keeps a purge out; a request never waits for it, and what does not fit  *)
(* is dropped and owed a marker beside the file.                           *)
(*                                                                         *)
(* Modelled are one capturing process and the commands of others.  The     *)
(* process may be stopped where its tasks await; disks may refuse.         *)
(*                                                                         *)
(* Source: crates/nan-harness-coordinator/src/capture.rs,                  *)
(* capture/writer.rs, diagnostics.rs and diagnostics/settings.rs.          *)
(***************************************************************************)
EXTENDS Naturals, FiniteSets, Sequences, Functions

CONSTANTS
    Captures,               \* capture ids that may be drawn
    Writers,                \* writers the process may start
    Requests,               \* requests it serves at a time
    NONE,
    RECORD_QUEUE_CAPACITY,  \* records queued or encoding
    RECORD_QUEUE_BYTES,     \* and the bytes they reserve
    MAX_ENCODING_INPUT,     \* payloads above it are refused
    METADATA,               \* bytes of a record besides its payload
    BATCH_RECORDS,          \* records a blocking batch writes at most
    CONCURRENT_BATCHES,     \* batches of the process at a time
    Payloads, Encodings,    \* lengths of payloads and of what they encode to
    MaxOffered              \* bound: records offered to one writer

ASSUME CaptureAssumption ==
    /\ NONE \notin Captures /\ NONE \notin Writers
    /\ IsFiniteSet(Requests)
    /\ RECORD_QUEUE_CAPACITY \in Nat /\ RECORD_QUEUE_BYTES \in Nat
    /\ MAX_ENCODING_INPUT \in Nat /\ METADATA \in Nat \ {0}
    /\ BATCH_RECORDS \in Nat \ {0} /\ CONCURRENT_BATCHES \in Nat \ {0}
    /\ Payloads \subseteq Nat /\ Encodings \subseteq Nat /\ MaxOffered \in Nat

VARIABLES
    enabled, capture_id,  \* settings.json
    fresh,                \* capture ids nobody has drawn
    enabling,             \* the id a command is turning on, under settings.lock
    purge,                \* where the purging command stands
    dirs,                 \* capture directories that exist
    file,                 \* file[w]: the capture file of w exists
    marker,               \* marker[w]: what became of the incomplete marker of w
    shared                \* writers that hold capture.lock shared

commands == <<enabled, capture_id, fresh, enabling, purge>>
storage == <<dirs, file, marker, shared>>

VARIABLES
    current,   \* the writer the sink remembers, weakly
    stopped,   \* the process's runtime is shutting down
    request,   \* request[r]: where r stands
    wanted,    \* wanted[r]: the capture r read in the settings
    uses,      \* uses[r]: the writer r keeps alive
    reserved   \* reserved[r]: bytes r has reserved for the record it encodes

producers == <<current, stopped, request, wanted, uses, reserved>>

VARIABLES
    writer,      \* writer[w]: where its task stands
    capture,     \* capture[w]: the capture it writes
    queue,       \* queue[w]: bytes reserved by each queued record
    first,       \* first[w]: those of the record taken from it, or 0
    batch,       \* batch[w]: records its batch has written
    used,        \* used[w]: Writer.queued_bytes
    incomplete,  \* incomplete[w]: the flag of the same name
    offered, written  \* history: records offered to w, and written by it

task == <<writer, first, batch, written>>
admission == <<queue, used, incomplete, offered>>
vars == <<commands, storage, producers, task, capture, admission>>

RequestStates == {"idle", "begun", "making", "locking", "open", "encoding", "sending", "refused"}
WriterStates == {"unborn", "starting", "receiving", "waiting", "writing",
                 "closing", "flushing", "done", "cancelled"}

TypeOK ==
    /\ enabled \in BOOLEAN /\ capture_id \in Captures \cup {NONE}
    /\ fresh \subseteq Captures /\ enabling \in Captures \cup {NONE}
    /\ purge \in {"idle", "disabled", "holding", "removed"}
    /\ dirs \subseteq Captures /\ shared \subseteq Writers
    /\ file \in [Writers -> BOOLEAN]
    /\ marker \in [Writers -> {"none", "made", "failed"}]
    /\ current \in Writers \cup {NONE} /\ stopped \in BOOLEAN
    /\ request \in [Requests -> RequestStates]
    /\ wanted \in [Requests -> Captures \cup {NONE}]
    /\ uses \in [Requests -> Writers \cup {NONE}]
    /\ reserved \in [Requests -> Nat]
    /\ writer \in [Writers -> WriterStates]
    /\ capture \in [Writers -> Captures \cup {NONE}]
    /\ queue \in [Writers -> Seq(Nat)] /\ first \in [Writers -> Nat]
    /\ batch \in [Writers -> 0..BATCH_RECORDS]
    /\ used \in [Writers -> Nat] /\ incomplete \in [Writers -> BOOLEAN]
    /\ offered \in [Writers -> Nat] /\ written \in [Writers -> Nat]

Init ==
    /\ enabled = FALSE /\ capture_id = NONE /\ fresh = Captures
    /\ enabling = NONE /\ purge = "idle" /\ dirs = {} /\ shared = {}
    /\ file = [w \in Writers |-> FALSE] /\ marker = [w \in Writers |-> "none"]
    /\ current = NONE /\ stopped = FALSE
    /\ request = [r \in Requests |-> "idle"] /\ wanted = [r \in Requests |-> NONE]
    /\ uses = [r \in Requests |-> NONE] /\ reserved = [r \in Requests |-> 0]
    /\ writer = [w \in Writers |-> "unborn"] /\ capture = [w \in Writers |-> NONE]
    /\ queue = [w \in Writers |-> <<>>] /\ first = [w \in Writers |-> 0]
    /\ batch = [w \in Writers |-> 0] /\ used = [w \in Writers |-> 0]
    /\ incomplete = [w \in Writers |-> FALSE]
    /\ offered = [w \in Writers |-> 0] /\ written = [w \in Writers |-> 0]

-----------------------------------------------------------------------------
(* The commands: on, off and purge.  settings.lock is held while enabling.  *)

EnableCapture(k) ==
    /\ ~enabled /\ enabling = NONE /\ k \in fresh
    /\ fresh' = fresh \ {k}
    /\ enabling' = k
    /\ dirs' = dirs \cup {k}
    /\ UNCHANGED <<enabled, capture_id, purge, file, marker, shared>>
    /\ UNCHANGED <<producers, task, capture, admission>>

WriteEnabled ==
    /\ enabling # NONE
    /\ enabled' = TRUE /\ capture_id' = enabling
    /\ enabling' = NONE
    /\ UNCHANGED <<fresh, purge, storage, producers, task, capture, admission>>

\* The settings cannot be written: the directory stays, and is never named.
EnablingFails ==
    /\ enabling # NONE
    /\ enabling' = NONE
    /\ UNCHANGED <<enabled, capture_id, fresh, purge, storage>>
    /\ UNCHANGED <<producers, task, capture, admission>>

Disable ==
    /\ enabled /\ enabling = NONE
    /\ enabled' = FALSE
    /\ UNCHANGED <<capture_id, fresh, enabling, purge, storage>>
    /\ UNCHANGED <<producers, task, capture, admission>>

PurgeDisables ==
    /\ purge = "idle" /\ enabling = NONE
    /\ enabled' = FALSE
    /\ purge' = "disabled"
    /\ UNCHANGED <<capture_id, fresh, enabling, storage>>
    /\ UNCHANGED <<producers, task, capture, admission>>

\* purge_captures: CaptureBusy while a writer has the lock.
PurgeLocks ==
    /\ purge = "disabled"
    /\ purge' = IF shared = {} THEN "holding" ELSE "idle"
    /\ UNCHANGED <<enabled, capture_id, fresh, enabling, storage>>
    /\ UNCHANGED <<producers, task, capture, admission>>

PurgeRemoves ==
    /\ purge = "holding"
    /\ dirs' = {}
    /\ file' = [w \in Writers |-> FALSE]
    /\ purge' = "removed"
    /\ UNCHANGED <<enabled, capture_id, fresh, enabling, marker, shared>>
    /\ UNCHANGED <<producers, task, capture, admission>>

\* remove_dir_all gives up between two directories: a disk error, or one that
\* a starting writer or an enabling command has just made.
PurgeFails ==
    /\ purge = "holding"
    /\ \E gone \in SUBSET dirs :
        /\ dirs' = dirs \ gone
        /\ file' = [w \in Writers |-> file[w] /\ capture[w] \notin gone]
    /\ purge' = "idle"
    /\ UNCHANGED <<enabled, capture_id, fresh, enabling, marker, shared>>
    /\ UNCHANGED <<producers, task, capture, admission>>

PurgeUnlocks ==
    /\ purge = "removed"
    /\ purge' = "idle"
    /\ UNCHANGED <<enabled, capture_id, fresh, enabling, storage>>
    /\ UNCHANGED <<producers, task, capture, admission>>

Command ==
    \/ \E k \in Captures : EnableCapture(k)
    \/ WriteEnabled \/ EnablingFails \/ Disable
    \/ PurgeDisables \/ PurgeLocks \/ PurgeRemoves \/ PurgeFails \/ PurgeUnlocks

-----------------------------------------------------------------------------
(* begin_request and writer_for.                                            *)

\* Some request still has the Arc of the writer.
Alive(w) == \E r \in Requests : uses[r] = w

\* The sink's mutex is held while a writer is being started.
Starting == \E r \in Requests : request[r] \in {"making", "locking"}

\* active_capture reads the settings, without their lock.
Begin(r) ==
    /\ request[r] = "idle" /\ ~stopped
    /\ enabled
    /\ request' = [request EXCEPT ![r] = "begun"]
    /\ wanted' = [wanted EXCEPT ![r] = capture_id]
    /\ UNCHANGED <<current, stopped, uses, reserved>>
    /\ UNCHANGED <<commands, storage, task, capture, admission>>

Joinable(r) == current # NONE /\ capture[current] = wanted[r] /\ Alive(current)

JoinWriter(r) ==
    /\ request[r] = "begun" /\ ~Starting
    /\ Joinable(r)
    /\ uses' = [uses EXCEPT ![r] = current]
    /\ wanted' = [wanted EXCEPT ![r] = NONE]
    /\ request' = [request EXCEPT ![r] = "open"]
    /\ UNCHANGED <<current, stopped, reserved>>
    /\ UNCHANGED <<commands, storage, task, capture, admission>>

\* start_writer: the directory first, before any lock.
MakeDirectory(r, w) ==
    /\ request[r] = "begun" /\ ~Starting /\ ~Joinable(r)
    /\ writer[w] = "unborn"
    /\ dirs' = dirs \cup {wanted[r]}
    /\ capture' = [capture EXCEPT ![w] = wanted[r]]
    /\ writer' = [writer EXCEPT ![w] = "starting"]
    /\ uses' = [uses EXCEPT ![r] = w]
    /\ wanted' = [wanted EXCEPT ![r] = NONE]
    /\ request' = [request EXCEPT ![r] = "making"]
    /\ UNCHANGED <<current, stopped, reserved, file, marker, shared>>
    /\ UNCHANGED <<commands, first, batch, written, admission>>

\* Mutant of LockShared: a lock that cannot be had is done without.
lock_if_possible(r) ==
    /\ request[r] = "making"
    /\ shared' = shared \cup {uses[r]}
    /\ request' = [request EXCEPT ![r] = "locking"]
    /\ UNCHANGED <<current, stopped, wanted, uses, reserved, dirs, file, marker>>
    /\ UNCHANGED <<commands, task, capture, admission>>

LockShared(r) ==
    /\ request[r] = "making"
    /\ purge \notin {"holding", "removed"}
    /\ shared' = shared \cup {uses[r]}
    /\ request' = [request EXCEPT ![r] = "locking"]
    /\ UNCHANGED <<current, stopped, wanted, uses, reserved, dirs, file, marker>>
    /\ UNCHANGED <<commands, task, capture, admission>>

\* The file is made and the task spawned; the sink remembers the writer.
OpenFile(r) ==
    /\ request[r] = "locking"
    /\ capture[uses[r]] \in dirs
    /\ file' = [file EXCEPT ![uses[r]] = TRUE]
    /\ writer' = [writer EXCEPT ![uses[r]] = "receiving"]
    /\ current' = uses[r]
    /\ request' = [request EXCEPT ![r] = "open"]
    /\ UNCHANGED <<stopped, wanted, uses, reserved, dirs, marker, shared>>
    /\ UNCHANGED <<commands, first, batch, written, capture, admission>>

\* A directory, lock or file could not be had: the request is not captured.
CannotStart(r) ==
    /\ request[r] \in {"begun", "making", "locking"} /\ (request[r] = "begun" => ~Starting)
    /\ shared' = shared \ {uses[r]}
    /\ writer' = [w \in Writers |-> IF w = uses[r] THEN "unborn" ELSE writer[w]]
    /\ capture' = [w \in Writers |-> IF w = uses[r] THEN NONE ELSE capture[w]]
    /\ uses' = [uses EXCEPT ![r] = NONE]
    /\ wanted' = [wanted EXCEPT ![r] = NONE]
    /\ request' = [request EXCEPT ![r] = "idle"]
    /\ UNCHANGED <<current, stopped, reserved, dirs, file, marker>>
    /\ UNCHANGED <<commands, first, batch, written, admission>>

-----------------------------------------------------------------------------
(* CaptureRequest::record.                                                  *)

Closed(w) == writer[w] \in {"flushing", "done", "cancelled"}
InFlight(w) == {r \in Requests : uses[r] = w /\ request[r] \in {"encoding", "sending"}}

output_limit(p) == 6 * p + 64
needed(p) == p + output_limit(p) + METADATA

\* Mutant of admits: only queued records count, not those being encoded.
admits_by_queue(w, p) ==
    /\ ~Closed(w)
    /\ Len(queue[w]) < RECORD_QUEUE_CAPACITY
    /\ p <= MAX_ENCODING_INPUT
    /\ used[w] + needed(p) <= RECORD_QUEUE_BYTES

\* A channel permit, the length of the payload, a reservation of bytes.
admits(w, p) ==
    /\ ~Closed(w)
    /\ Len(queue[w]) + Cardinality(InFlight(w)) < RECORD_QUEUE_CAPACITY
    /\ p <= MAX_ENCODING_INPUT
    /\ used[w] + needed(p) <= RECORD_QUEUE_BYTES

OfferRecord(r, p) ==
    /\ request[r] = "open" /\ offered[uses[r]] < MaxOffered
    /\ offered' = [offered EXCEPT ![uses[r]] = @ + 1]
    /\ IF admits(uses[r], p)
       THEN /\ request' = [request EXCEPT ![r] = "encoding"]
            /\ reserved' = [reserved EXCEPT ![r] = needed(p)]
            /\ used' = [used EXCEPT ![uses[r]] = @ + needed(p)]
       ELSE /\ request' = [request EXCEPT ![r] = "refused"]
            /\ UNCHANGED <<reserved, used>>
    /\ UNCHANGED <<current, stopped, wanted, uses, queue, incomplete>>
    /\ UNCHANGED <<commands, storage, task, capture>>

\* Mutant of EncodeRecord: shrink gives bytes back and still counts them its own.
shrink_in_name(r, n) ==
    /\ request[r] = "encoding" /\ ~Closed(uses[r])
    /\ n + METADATA <= reserved[r]
    /\ used' = [used EXCEPT ![uses[r]] = @ - (reserved[r] - (n + METADATA))]
    /\ request' = [request EXCEPT ![r] = "sending"]
    /\ UNCHANGED <<current, stopped, wanted, uses, reserved, queue, incomplete, offered>>
    /\ UNCHANGED <<commands, storage, task, capture>>

\* The encoding fits, and the channel was open when it was looked at.
EncodeRecord(r, n) ==
    /\ request[r] = "encoding" /\ ~Closed(uses[r])
    /\ n + METADATA <= reserved[r]
    /\ used' = [used EXCEPT ![uses[r]] = @ - (reserved[r] - (n + METADATA))]
    /\ reserved' = [reserved EXCEPT ![r] = n + METADATA]
    /\ request' = [request EXCEPT ![r] = "sending"]
    /\ UNCHANGED <<current, stopped, wanted, uses, queue, incomplete, offered>>
    /\ UNCHANGED <<commands, storage, task, capture>>

\* It does not fit, or the channel is closed: permit and bytes go back.
EncodingFails(r) ==
    /\ request[r] = "encoding"
    /\ used' = [used EXCEPT ![uses[r]] = @ - reserved[r]]
    /\ reserved' = [reserved EXCEPT ![r] = 0]
    /\ request' = [request EXCEPT ![r] = "refused"]
    /\ UNCHANGED <<current, stopped, wanted, uses, queue, incomplete, offered>>
    /\ UNCHANGED <<commands, storage, task, capture>>

\* permit.send: the record and its reservation, into a channel that may have
\* been closed meanwhile.
SendRecord(r) ==
    /\ request[r] = "sending"
    /\ queue' = [queue EXCEPT ![uses[r]] = Append(@, reserved[r])]
    /\ reserved' = [reserved EXCEPT ![r] = 0]
    /\ request' = [request EXCEPT ![r] = "open"]
    /\ UNCHANGED <<current, stopped, wanted, uses, used, incomplete, offered>>
    /\ UNCHANGED <<commands, storage, task, capture>>

\* What was refused, or could not be captured at all, is owed a marker.
MarkIncomplete(r) ==
    /\ request[r] \in {"refused", "open"}
    /\ incomplete' = [incomplete EXCEPT ![uses[r]] = TRUE]
    /\ request' = [request EXCEPT ![r] = "open"]
    /\ UNCHANGED <<current, stopped, wanted, uses, reserved, queue, used, offered>>
    /\ UNCHANGED <<commands, storage, task, capture>>

Bytes(records) == SumFunction(records)

\* The request is over; what was sent to a closed channel goes with its last
\* sender.
DropRequest(r) ==
    /\ request[r] = "open"
    /\ uses' = [uses EXCEPT ![r] = NONE]
    /\ request' = [request EXCEPT ![r] = "idle"]
    /\ LET w == uses[r]
           dead == Closed(w) /\ \A q \in Requests \ {r} : uses[q] # w
       IN  /\ used' = [used EXCEPT ![w] = IF dead THEN @ - Bytes(queue[w]) ELSE @]
           /\ queue' = [queue EXCEPT ![w] = IF dead THEN <<>> ELSE @]
    /\ UNCHANGED <<current, stopped, wanted, reserved, incomplete, offered>>
    /\ UNCHANGED <<commands, storage, task, capture>>

RequestStep(r) ==
    \/ JoinWriter(r) \/ \E w \in Writers : MakeDirectory(r, w)
    \/ LockShared(r) \/ OpenFile(r) \/ CannotStart(r)
    \/ \E n \in Encodings : EncodeRecord(r, n)
    \/ EncodingFails(r) \/ SendRecord(r) \/ MarkIncomplete(r) \/ DropRequest(r)

-----------------------------------------------------------------------------
(* Storage::run, write_batch and finish.                                    *)

\* Mutant of Receive: the writer never learns that the last request is gone.
receive_records_only(w) ==
    /\ writer[w] = "receiving" /\ queue[w] # <<>>
    /\ first' = [first EXCEPT ![w] = Head(queue[w])]
    /\ queue' = [queue EXCEPT ![w] = Tail(@)]
    /\ writer' = [writer EXCEPT ![w] = "waiting"]
    /\ UNCHANGED <<batch, written, used, incomplete, offered>>
    /\ UNCHANGED <<commands, storage, producers, capture>>

\* recv() returns a record, or that the last request is gone.
Receive(w) ==
    /\ writer[w] = "receiving"
    /\ queue[w] # <<>> \/ ~Alive(w)
    /\ IF queue[w] = <<>> THEN UNCHANGED <<first, queue>>
       ELSE /\ first' = [first EXCEPT ![w] = Head(queue[w])]
            /\ queue' = [queue EXCEPT ![w] = Tail(@)]
    /\ writer' = [writer EXCEPT ![w] = "waiting"]
    /\ UNCHANGED <<batch, written, used, incomplete, offered>>
    /\ UNCHANGED <<commands, storage, producers, capture>>

\* WRITER_SLOTS bounds the blocking threads of the process.
StartBatch(w) ==
    /\ writer[w] = "waiting"
    /\ Cardinality({v \in Writers : writer[v] \in {"writing", "closing", "flushing"}})
         < CONCURRENT_BATCHES
    /\ writer' = [writer EXCEPT ![w] = "writing"]
    /\ UNCHANGED <<first, batch, written, capture, admission>>
    /\ UNCHANGED <<commands, storage, producers>>

\* The record the batch was given, or the next in the queue, is taken.
Taken(w) == IF first[w] # 0 THEN first[w] ELSE Head(queue[w])
takes(w) ==
    /\ writer[w] = "writing" /\ batch[w] < BATCH_RECORDS
    /\ first[w] # 0 \/ queue[w] # <<>>
    /\ first' = [first EXCEPT ![w] = 0]
    /\ queue' = [queue EXCEPT ![w] = IF first[w] # 0 THEN @ ELSE Tail(@)]
    /\ used' = [used EXCEPT ![w] = @ - Taken(w)]

WriteRecord(w) ==
    /\ takes(w)
    /\ written' = [written EXCEPT ![w] = @ + 1]
    /\ batch' = [batch EXCEPT ![w] = @ + 1]
    /\ UNCHANGED <<writer, incomplete, offered, capture>>
    /\ UNCHANGED <<commands, storage, producers>>

WriteFails(w) ==
    /\ takes(w)
    /\ incomplete' = [incomplete EXCEPT ![w] = TRUE]
    /\ batch' = [batch EXCEPT ![w] = 0]
    /\ writer' = [writer EXCEPT ![w] = "closing"]
    /\ UNCHANGED <<written, offered, capture>>
    /\ UNCHANGED <<commands, storage, producers>>

\* The batch is full or finds nothing more to write.  A runtime that stops has
\* no task left to take the storage back: it is dropped as it is.
EndBatch(w) ==
    /\ writer[w] = "writing" /\ first[w] = 0
    /\ batch[w] = BATCH_RECORDS \/ (queue[w] = <<>> /\ Alive(w))
    /\ batch' = [batch EXCEPT ![w] = 0]
    /\ writer' = [writer EXCEPT ![w] = IF stopped THEN "cancelled" ELSE "receiving"]
    /\ IF stopped
       THEN /\ shared' = shared \ {w}
            /\ used' = [used EXCEPT ![w] = @ - Bytes(queue[w])]
            /\ queue' = [queue EXCEPT ![w] = <<>>]
       ELSE UNCHANGED <<shared, used, queue>>
    /\ UNCHANGED <<first, written, incomplete, offered, capture>>
    /\ UNCHANGED <<commands, dirs, file, marker, producers>>

\* Nothing more to write, and nobody to send any more.
Drained(w) ==
    /\ writer[w] = "writing" /\ first[w] = 0 /\ batch[w] < BATCH_RECORDS
    /\ queue[w] = <<>> /\ ~Alive(w)
    /\ batch' = [batch EXCEPT ![w] = 0]
    /\ writer' = [writer EXCEPT ![w] = "closing"]
    /\ UNCHANGED <<first, written, capture, admission>>
    /\ UNCHANGED <<commands, storage, producers>>

\* Mutant of CloseReceiver: records are forgotten with their reservations.
forget_queued(w) ==
    /\ writer[w] = "closing"
    /\ queue' = [queue EXCEPT ![w] = <<>>]
    /\ writer' = [writer EXCEPT ![w] = "flushing"]
    /\ UNCHANGED <<first, batch, written, used, incomplete, offered, capture>>
    /\ UNCHANGED <<commands, storage, producers>>

\* finish: the receiver goes first, and with it what is still queued.
CloseReceiver(w) ==
    /\ writer[w] = "closing"
    /\ used' = [used EXCEPT ![w] = @ - Bytes(queue[w])]
    /\ queue' = [queue EXCEPT ![w] = <<>>]
    /\ writer' = [writer EXCEPT ![w] = "flushing"]
    /\ UNCHANGED <<first, batch, written, incomplete, offered, capture>>
    /\ UNCHANGED <<commands, storage, producers>>

\* What becomes of the marker of a writer that owes one, or does not.
MarkerFor(owed, made) == CASE ~owed -> "none" [] owed /\ made -> "made" [] OTHER -> "failed"

\* Mutant of Finish: the flag is read before the flush.
finish_early(w) ==
    /\ writer[w] = "flushing"
    /\ \E flushed, made \in BOOLEAN :
        /\ incomplete' = [incomplete EXCEPT ![w] = @ \/ ~flushed]
        /\ written' = [written EXCEPT ![w] = IF flushed THEN @ ELSE 0]
        /\ marker' = [marker EXCEPT ![w] = MarkerFor(incomplete[w], made)]
    /\ shared' = shared \ {w}
    /\ writer' = [writer EXCEPT ![w] = "done"]
    /\ UNCHANGED <<first, batch, queue, used, offered, capture>>
    /\ UNCHANGED <<commands, dirs, file, producers>>

\* The flush may fail and lose what was written; the flag is read after it, a
\* marker that cannot be made is given up, and the lock goes last.
Finish(w) ==
    /\ writer[w] = "flushing"
    /\ \E flushed, made \in BOOLEAN :
        /\ incomplete' = [incomplete EXCEPT ![w] = @ \/ ~flushed]
        /\ written' = [written EXCEPT ![w] = IF flushed THEN @ ELSE 0]
        /\ marker' = [marker EXCEPT ![w] = MarkerFor(incomplete'[w], made)]
    /\ shared' = shared \ {w}
    /\ writer' = [writer EXCEPT ![w] = "done"]
    /\ UNCHANGED <<first, batch, queue, used, offered, capture>>
    /\ UNCHANGED <<commands, dirs, file, producers>>

WriterStep(w) ==
    \/ Receive(w) \/ StartBatch(w) \/ WriteRecord(w) \/ WriteFails(w)
    \/ EndBatch(w) \/ Drained(w) \/ CloseReceiver(w) \/ Finish(w)

\* The runtime shuts down: tasks are dropped where they await, requests between
\* two records, writers unless a thread is in their batch.
Stop ==
    /\ ~stopped /\ \A r \in Requests : request[r] \in {"idle", "open"}
    /\ stopped' = TRUE
    /\ request' = [r \in Requests |-> "idle"]
    /\ uses' = [r \in Requests |-> NONE]
    /\ \E unstarted \in SUBSET {w \in Writers : writer[w] = "writing" /\ batch[w] = 0} :
       LET dropped == {w \in Writers : writer[w] \in {"receiving", "waiting"}} \cup unstarted
           dead == {w \in Writers : Closed(w)} \cup dropped
       IN  /\ writer' = [w \in Writers |-> IF w \in dropped THEN "cancelled" ELSE writer[w]]
           /\ shared' = shared \ dropped
           /\ used' = [w \in Writers |->
                        IF w \in dead THEN used[w] - first[w] - Bytes(queue[w]) ELSE used[w]]
           /\ queue' = [w \in Writers |-> IF w \in dead THEN <<>> ELSE queue[w]]
           /\ first' = [w \in Writers |-> IF w \in dropped THEN 0 ELSE first[w]]
    /\ UNCHANGED <<current, wanted, reserved, batch, written, incomplete, offered, capture>>
    /\ UNCHANGED <<commands, dirs, file, marker>>

Next ==
    \/ Command
    \/ \E r \in Requests : Begin(r) \/ RequestStep(r)
    \/ \E r \in Requests, p \in Payloads : OfferRecord(r, p)
    \/ \E w \in Writers : WriterStep(w)
    \/ Stop

Spec == Init /\ [][Next]_vars

\* Blocking batches return, and the task that awaits one goes on.
FairSpec == Spec /\ \A w \in Writers : WF_vars(WriterStep(w))

-----------------------------------------------------------------------------
\* A writer that finishes with less in its file than it was offered has gone
\* to make a marker: full queues, lost bytes and disk errors, also those that
\* come while it closes, are seen in time (capture.rs:139 and 197,
\* writer.rs:101).  Whether the marker can be made is the disk's; a runtime that
\* stops leaves its writers no time for one.
CompleteUnlessMarkerOwed ==
    \A w \in Writers : writer[w] = "done" /\ marker[w] = "none" => written[w] = offered[w]

\* Bytes that are really held for w: by queued records, by the one being
\* written, and by requests that encode one.
BytesHeld(w) ==
    Bytes(queue[w]) + first[w]
      + Bytes([r \in {q \in Requests : uses[q] = w} |-> reserved[r]])

\* The counter of reserved bytes is what is really held, on every way out of
\* record and of the writer (capture.rs:76).
BytesAccounted == \A w \in Writers : used[w] = BytesHeld(w)

\* "Capture admission allows at most 256 queued or encoding records within a
\* 64 MiB logical byte budget" (SECURITY.md:52-53), however requests interleave;
\* the queue and the budget are each writer's own.
AdmissionBounded == \A w \in Writers :
    /\ Len(queue[w]) + Cardinality(InFlight(w)) <= RECORD_QUEUE_CAPACITY
    /\ BytesHeld(w) <= RECORD_QUEUE_BYTES

\* A purge deletes no file that is still written to, and when it has removed
\* the captures none comes back before it lets go of the lock
\* (diagnostics.rs:111, capture.rs:203).
PurgeMeetsNoWriter ==
    /\ \A w \in Writers :
        writer[w] \in {"receiving", "waiting", "writing", "closing", "flushing"} => file[w]
    /\ purge = "removed" => \A w \in Writers : ~file[w]

\* When no request is captured any more, the lock comes free for a purge: every
\* writer gets its batches, drains and finishes (writer.rs:53).
LockComesFree ==
    <>[](\A r \in Requests : request[r] = "idle") => <>[](shared = {})
=============================================================================
