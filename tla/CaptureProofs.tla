----------------------------- MODULE CaptureProofs -----------------------------
(***************************************************************************)
(* What holds of the diagnostic capture for any number of requests, writers *)
(* and captures and any limits: the lock keeps purges and writers apart, a  *)
(* writer that is owed no marker has written everything, and the bytes that  *)
(* are counted are those that are held and fit the limits.                  *)
(***************************************************************************)
EXTENDS DiagnosticCapture, FiniteSetTheorems, SequenceTheorems, TLAPS

-----------------------------------------------------------------------------
(* The lock: who holds capture.lock, and who only has begun to want it.      *)

LockTypes ==
    /\ purge \in {"idle", "disabled", "holding", "removed"}
    /\ shared \subseteq Writers /\ file \in [Writers -> BOOLEAN]
    /\ current \in Writers \cup {NONE}
    /\ request \in [Requests -> RequestStates]
    /\ uses \in [Requests -> Writers \cup {NONE}]
    /\ writer \in [Writers -> WriterStates]

\* A writer that has its storage.
Active(w) == writer[w] \in {"receiving", "waiting", "writing", "closing", "flushing"}

PurgeIsAlone == purge \in {"holding", "removed"} => shared = {}
ActiveIsLocked == \A w \in Writers : Active(w) => w \in shared /\ file[w]
NothingLeft == purge = "removed" => \A w \in Writers : ~file[w]

\* A request holds an Arc exactly from the writer it starts or joins to its end.
UsesInPlace == \A r \in Requests : uses[r] = NONE <=> request[r] \in {"idle", "begun"}

\* The sink's mutex admits one starter; its writer is nobody else's yet.
StarterInPlace ==
    /\ \A r, q \in Requests :
        request[r] \in {"making", "locking"} /\ request[q] \in {"making", "locking"} => r = q
    /\ \A r \in Requests :
        /\ request[r] \in {"making", "locking"} => writer[uses[r]] = "starting"
        /\ request[r] = "locking" => uses[r] \in shared

LockInv ==
    /\ LockTypes /\ PurgeIsAlone /\ ActiveIsLocked /\ NothingLeft
    /\ UsesInPlace /\ StarterInPlace

(* The records: an offered one is written, queued, in the writer's hand or   *)
(* still with its request, unless a marker is owed.                          *)

RecordTypes ==
    /\ reserved \in [Requests -> Nat]
    /\ queue \in [Writers -> Seq(Nat \ {0})] /\ first \in [Writers -> Nat]
    /\ incomplete \in [Writers -> BOOLEAN] /\ marker \in [Writers -> {"none", "made", "failed"}]
    /\ offered \in [Writers -> Nat] /\ written \in [Writers -> Nat]

Carrying == {"encoding", "sending", "refused"}
WithRequests(w) == {r \in Requests : uses[r] = w /\ request[r] \in Carrying}
InHand(w) == IF first[w] = 0 THEN 0 ELSE 1

Unharmed(w) == writer[w] # "cancelled" /\ ~incomplete[w]

EveryRecordSomewhere == \A w \in Writers : Unharmed(w) =>
    offered[w] = written[w] + Len(queue[w]) + InHand(w) + Cardinality(WithRequests(w))

\* A writer nobody may use yet, and nobody remembers.
NotYetUsed ==
    /\ current # NONE => writer[current] \notin {"unborn", "starting"}
    /\ \A r \in Requests : uses[r] # NONE /\ writer[uses[r]] \in {"unborn", "starting"}
         => request[r] \in {"making", "locking"}

HandsInPlace ==
    /\ \A w \in Writers : writer[w] \in {"unborn", "starting", "receiving"} => first[w] = 0
    /\ \A r \in Requests : request[r] = "sending" => reserved[r] # 0

\* A writer closes of itself only when it has nothing left to do.
ClosingIsOver == \A w \in Writers :
    writer[w] \in {"closing", "flushing", "done"} /\ ~incomplete[w]
      => ~Alive(w) /\ queue[w] = <<>> /\ first[w] = 0

MarkerTells == \A w \in Writers : writer[w] = "done" /\ marker[w] = "none" => ~incomplete[w]

RecordInv ==
    /\ RecordTypes /\ EveryRecordSomewhere /\ NotYetUsed /\ HandsInPlace
    /\ ClosingIsOver /\ MarkerTells

IInv == LockInv /\ RecordInv

LEMMA QueueEmptied ==
    ASSUME NEW q \in [Writers -> Seq(Nat \ {0})], NEW w \in Writers
    PROVE  [q EXCEPT ![w] = <<>>] \in [Writers -> Seq(Nat \ {0})]
<1>1. <<>> \in Seq(Nat \ {0})
    BY EmptySeq
<1> QED
    BY <1>1

-----------------------------------------------------------------------------
(* The lock invariant, action by action.                                     *)

USE DEF LockInv, LockTypes, PurgeIsAlone, ActiveIsLocked, Active, NothingLeft,
    UsesInPlace, StarterInPlace

LEMMA LockInit == Init => LockInv
BY CaptureAssumption DEF Init, RequestStates, WriterStates

\* What changes none of the state the lock invariant speaks about.
LEMMA LockFrame ==
    LockInv /\ UNCHANGED <<purge, shared, file, current, request, uses, writer>> => LockInv'
OBVIOUS

\* The commands touch the lock only where they say so.
LEMMA LockCommand == LockInv /\ Command => LockInv'
<1> SUFFICES ASSUME LockInv, Command PROVE LockInv'
    OBVIOUS
<1> USE DEF commands, storage, producers, task, admission
<1>1. ASSUME NEW k \in Captures, EnableCapture(k) PROVE LockInv'
    BY <1>1, LockFrame DEF EnableCapture
<1>2. CASE WriteEnabled \/ EnablingFails
    BY <1>2, LockFrame DEF WriteEnabled, EnablingFails
<1>3. CASE Disable
    BY <1>3, LockFrame DEF Disable
<1>4. CASE PurgeDisables
    BY <1>4 DEF PurgeDisables
<1>5. CASE PurgeLocks
    BY <1>5 DEF PurgeLocks
<1>6. CASE PurgeRemoves
    BY <1>6 DEF PurgeRemoves
<1>7. CASE PurgeFails
    BY <1>7 DEF PurgeFails
<1>8. CASE PurgeUnlocks
    BY <1>8 DEF PurgeUnlocks
<1> QED
    BY <1>1, <1>2, <1>3, <1>4, <1>5, <1>6, <1>7, <1>8 DEF Command

LEMMA LockRequest ==
    ASSUME LockInv, NEW r \in Requests, Begin(r) \/ RequestStep(r)
    PROVE  LockInv'
<1> USE CaptureAssumption DEF commands, storage, producers, task, admission, RequestStates,
        WriterStates
<1>1. CASE Begin(r)
    BY <1>1 DEF Begin
<1>2. CASE JoinWriter(r)
    BY <1>2 DEF JoinWriter, Joinable, Starting
<1>3. ASSUME NEW w \in Writers, MakeDirectory(r, w) PROVE LockInv'
    BY <1>3 DEF MakeDirectory, Starting
<1>4. CASE LockShared(r)
    BY <1>4 DEF LockShared
<1>5. CASE OpenFile(r)
    BY <1>5 DEF OpenFile
<1>6. CASE CannotStart(r)
    BY <1>6 DEF CannotStart, Starting
<1>7. ASSUME NEW n \in Encodings, EncodeRecord(r, n) PROVE LockInv'
    BY <1>7 DEF EncodeRecord
<1>8. CASE EncodingFails(r)
    BY <1>8 DEF EncodingFails
<1>9. CASE SendRecord(r)
    BY <1>9 DEF SendRecord
<1>10. CASE MarkIncomplete(r)
    BY <1>10 DEF MarkIncomplete
<1>11. CASE DropRequest(r)
    BY <1>11 DEF DropRequest
<1> QED
    BY <1>1, <1>2, <1>3, <1>4, <1>5, <1>6, <1>7, <1>8, <1>9, <1>10, <1>11 DEF RequestStep

LEMMA LockOffer ==
    ASSUME LockInv, NEW r \in Requests, NEW p \in Payloads, OfferRecord(r, p)
    PROVE  LockInv'
BY DEF OfferRecord, storage, commands, task, RequestStates

LEMMA LockWriter ==
    ASSUME LockInv, NEW w \in Writers, WriterStep(w)
    PROVE  LockInv'
<1> USE DEF commands, storage, producers, task, admission, WriterStates
<1>1. CASE Receive(w)
    BY <1>1 DEF Receive
<1>2. CASE StartBatch(w)
    BY <1>2 DEF StartBatch
<1>3. CASE WriteRecord(w)
    BY <1>3, LockFrame DEF WriteRecord
<1>4. CASE WriteFails(w)
    BY <1>4 DEF WriteFails, takes
<1>5. CASE EndBatch(w)
    BY <1>5 DEF EndBatch
<1>6. CASE Drained(w)
    BY <1>6 DEF Drained
<1>7. CASE CloseReceiver(w)
    BY <1>7 DEF CloseReceiver
<1>8. CASE Finish(w)
    BY <1>8 DEF Finish
<1> QED
    BY <1>1, <1>2, <1>3, <1>4, <1>5, <1>6, <1>7, <1>8 DEF WriterStep

\* What a runtime that stops does to the writers, without the bytes.
LEMMA StopDrops ==
    ASSUME LockInv, Stop
    PROVE  \E dropped \in SUBSET {w \in Writers :
                                    writer[w] \in {"receiving", "waiting", "writing"}} :
            /\ writer' = [w \in Writers |-> IF w \in dropped THEN "cancelled" ELSE writer[w]]
            /\ shared' = shared \ dropped
            /\ first' = [w \in Writers |-> IF w \in dropped THEN 0 ELSE first[w]]
            /\ queue' = [w \in Writers |->
                          IF Closed(w) \/ w \in dropped THEN <<>> ELSE queue[w]]
<1>1. PICK unstarted \in SUBSET {w \in Writers : writer[w] = "writing" /\ batch[w] = 0} :
        LET dropped == {w \in Writers : writer[w] \in {"receiving", "waiting"}} \cup unstarted
            dead == {w \in Writers : Closed(w)} \cup dropped
        IN  /\ writer' = [w \in Writers |-> IF w \in dropped THEN "cancelled" ELSE writer[w]]
            /\ shared' = shared \ dropped
            /\ used' = [w \in Writers |->
                         IF w \in dead THEN used[w] - first[w] - Bytes(queue[w]) ELSE used[w]]
            /\ queue' = [w \in Writers |-> IF w \in dead THEN <<>> ELSE queue[w]]
            /\ first' = [w \in Writers |-> IF w \in dropped THEN 0 ELSE first[w]]
    BY DEF Stop
<1> DEFINE dropped == {w \in Writers : writer[w] \in {"receiving", "waiting"}} \cup unstarted
<1> WITNESS dropped \in SUBSET {w \in Writers : writer[w] \in {"receiving", "waiting", "writing"}}
<1> QED
    BY <1>1

LEMMA LockStop == LockInv /\ Stop => LockInv'
<1> SUFFICES ASSUME LockInv, Stop PROVE LockInv'
    OBVIOUS
<1>1. PICK dropped \in SUBSET {w \in Writers : writer[w] \in {"receiving", "waiting", "writing"}} :
        /\ writer' = [w \in Writers |-> IF w \in dropped THEN "cancelled" ELSE writer[w]]
        /\ shared' = shared \ dropped
    BY StopDrops
<1>2. /\ request' = [r \in Requests |-> "idle"] /\ uses' = [r \in Requests |-> NONE]
      /\ UNCHANGED <<purge, file, current>>
    BY DEF Stop, commands
<1> QED
    BY <1>1, <1>2 DEF RequestStates, WriterStates

LEMMA LockNext == LockInv /\ [Next]_vars => LockInv'
<1> SUFFICES ASSUME LockInv, [Next]_vars PROVE LockInv'
    OBVIOUS
<1>1. CASE UNCHANGED vars
    BY <1>1, LockFrame DEF vars, commands, storage, producers, task
<1>2. CASE Next
    BY <1>2, LockCommand, LockRequest, LockOffer, LockWriter, LockStop DEF Next
<1> QED
    BY <1>1, <1>2

LEMMA LockIsKept == Spec => []LockInv
BY LockInit, LockNext, PTL DEF Spec

\* A purge deletes no file that is still written to, and none comes back before
\* it lets go of the lock (diagnostics.rs:111, capture.rs:203).
THEOREM PurgesMeetNoWriter == Spec => []PurgeMeetsNoWriter
<1>1. LockInv => PurgeMeetsNoWriter
    BY DEF PurgeMeetsNoWriter
<1> QED
    BY <1>1, LockIsKept, PTL

-----------------------------------------------------------------------------
(* The record invariant, conjunct by conjunct where an action disturbs it.    *)

USE DEF RecordInv, NotYetUsed, HandsInPlace, ClosingIsOver, MarkerTells,
    Unharmed

LEMMA RecordInit == Init => RecordInv
<1> SUFFICES ASSUME Init PROVE RecordInv
    OBVIOUS
<1>1. \A w \in Writers : WithRequests(w) = {} /\ Alive(w) = FALSE
    BY CaptureAssumption DEF Init, WithRequests, Alive
<1>2. EveryRecordSomewhere
  <2>1. Cardinality({}) = 0
    BY FS_EmptySet
  <2>2. \A w \in Writers : Cardinality(WithRequests(w)) = 0
    BY <1>1, <2>1
  <2>3. \A w \in Writers : InHand(w) = 0 /\ Len(queue[w]) = 0 /\ offered[w] = written[w]
            /\ written[w] = 0
    BY EmptySeq DEF Init, InHand
  <2> QED
    BY <2>2, <2>3 DEF EveryRecordSomewhere
<1>3. RecordTypes
    BY EmptySeq DEF Init, RecordTypes
<1>4. NotYetUsed /\ HandsInPlace /\ ClosingIsOver /\ MarkerTells
    BY DEF Init
<1> QED
    BY <1>2, <1>3, <1>4

LEMMA WithRequestsFinite ==
    ASSUME NEW w \in Writers
    PROVE  IsFiniteSet(WithRequests(w)) /\ Cardinality(WithRequests(w)) \in Nat
BY CaptureAssumption, FS_Subset, FS_CardinalityType DEF WithRequests

\* Steps that leave the records and their writers alone.
LEMMA RecordFrame ==
    ASSUME LockInv, RecordInv,
           UNCHANGED <<current, request, uses, reserved, writer, queue, first, incomplete,
                       marker, offered, written>>
    PROVE  RecordInv'
<1>1. \A w \in Writers : WithRequests(w)' = WithRequests(w) /\ Alive(w)' = Alive(w)
    BY DEF WithRequests, Alive
<1>2. EveryRecordSomewhere'
    BY <1>1 DEF EveryRecordSomewhere, InHand
<1>3. RecordTypes'
    BY DEF RecordTypes
<1> QED
    BY <1>1, <1>2, <1>3

LEMMA RecordCommand == LockInv /\ RecordInv /\ Command => RecordInv'
<1> SUFFICES ASSUME LockInv, RecordInv, Command PROVE RecordInv'
    OBVIOUS
<1>1. UNCHANGED <<current, request, uses, reserved, writer, queue, first, incomplete,
                  marker, offered, written>>
    BY DEF Command, EnableCapture, WriteEnabled, EnablingFails, Disable, PurgeDisables, PurgeLocks,
        PurgeRemoves, PurgeFails, PurgeUnlocks, storage, producers, task, admission
<1> QED
    BY <1>1, RecordFrame

\* Where a request moves among the states in which it has no record, its
\* writer's books stay as they are.
LEMMA WithoutRecord ==
    ASSUME LockInv, RecordInv, NEW r \in Requests, NEW s, NEW u,
           request' = [request EXCEPT ![r] = s], uses' = [uses EXCEPT ![r] = u],
           s \notin Carrying, request[r] \notin Carrying
    PROVE  \A w \in Writers : WithRequests(w)' = WithRequests(w)
BY DEF WithRequests

LEMMA RecordStart ==
    ASSUME LockInv, RecordInv, NEW r \in Requests,
           \/ Begin(r) \/ JoinWriter(r) \/ \E w \in Writers : MakeDirectory(r, w)
           \/ LockShared(r) \/ OpenFile(r) \/ CannotStart(r)
    PROVE  RecordInv'
<1> USE CaptureAssumption DEF commands, storage, producers, task, admission, RequestStates,
        WriterStates
<1>1. \A w \in Writers : WithRequests(w)' = WithRequests(w)
    BY WithoutRecord DEF Begin, JoinWriter, MakeDirectory, LockShared, OpenFile, CannotStart,
        WithRequests, Carrying
<1>2. UNCHANGED <<offered, written, queue, first, incomplete, marker, reserved>>
    BY DEF Begin, JoinWriter, MakeDirectory, LockShared, OpenFile, CannotStart
<1>3. \A w \in Writers :
        \/ writer'[w] = writer[w]
        \/ /\ writer[w] \in {"unborn", "starting"}
           /\ writer'[w] \in {"unborn", "starting", "receiving"}
  <2>1. CASE Begin(r) \/ JoinWriter(r) \/ LockShared(r)
    BY <2>1 DEF Begin, JoinWriter, LockShared
  <2>2. ASSUME NEW w \in Writers, MakeDirectory(r, w)
        PROVE  writer' = [writer EXCEPT ![w] = "starting"] /\ writer[w] = "unborn"
    BY <2>2 DEF MakeDirectory
  <2>3. CASE OpenFile(r)
    BY <2>3 DEF OpenFile
  <2>4. CASE CannotStart(r)
    BY <2>4 DEF CannotStart
  <2> QED
    BY <2>1, <2>2, <2>3, <2>4
<1>4. EveryRecordSomewhere'
    BY <1>1, <1>2, <1>3 DEF EveryRecordSomewhere, InHand
<1>5. \A w \in Writers : writer[w] \in {"closing", "flushing", "done"} /\ ~Alive(w) => ~Alive(w)'
    BY DEF Alive, Begin, JoinWriter, Joinable, MakeDirectory, LockShared, OpenFile, CannotStart
<1>6. ClosingIsOver'
    BY <1>2, <1>3, <1>5
<1>7. NotYetUsed'
  <2>1. CASE Begin(r)
    BY <2>1 DEF Begin
  <2>2. CASE JoinWriter(r)
    BY <2>2 DEF JoinWriter, Joinable
  <2>3. ASSUME NEW w \in Writers, MakeDirectory(r, w) PROVE NotYetUsed'
    BY <2>3 DEF MakeDirectory, Starting
  <2>4. CASE LockShared(r)
    BY <2>4 DEF LockShared
  <2>5. CASE OpenFile(r)
    BY <2>5 DEF OpenFile
  <2>6. CASE CannotStart(r)
    BY <2>6 DEF CannotStart
  <2> QED
    BY <2>1, <2>2, <2>3, <2>4, <2>5, <2>6
<1>8. HandsInPlace'
    BY <1>2, <1>3 DEF Begin, JoinWriter, MakeDirectory, LockShared, OpenFile, CannotStart
<1>9. RecordTypes'
    BY <1>2 DEF RecordTypes
<1> QED
    BY <1>2, <1>3, <1>4, <1>6, <1>7, <1>8, <1>9

\* What a request does with the record it offers: the writer's books move with
\* it, and those of the other writers do not.
LEMMA OneRequest ==
    ASSUME LockInv, RecordInv, NEW r \in Requests, NEW u \in Writers, uses[r] = u,
           NEW s \in RequestStates, request' = [request EXCEPT ![r] = s], UNCHANGED uses
    PROVE  /\ \A w \in Writers \ {u} : WithRequests(w)' = WithRequests(w)
           /\ s \in Carrying /\ request[r] \notin Carrying
                => Cardinality(WithRequests(u))' = Cardinality(WithRequests(u)) + 1
           /\ s \notin Carrying /\ request[r] \in Carrying
                => Cardinality(WithRequests(u))' = Cardinality(WithRequests(u)) - 1
           /\ (s \in Carrying <=> request[r] \in Carrying)
                => Cardinality(WithRequests(u))' = Cardinality(WithRequests(u))
           /\ Cardinality(WithRequests(u)) \in Nat
<1>1. IsFiniteSet(WithRequests(u)) /\ Cardinality(WithRequests(u)) \in Nat
    BY WithRequestsFinite
<1>2. \A w \in Writers \ {u} : WithRequests(w)' = WithRequests(w)
    BY DEF WithRequests
<1>3. CASE s \in Carrying /\ request[r] \notin Carrying
  <2>1. WithRequests(u)' = WithRequests(u) \cup {r} /\ r \notin WithRequests(u)
    BY <1>3 DEF WithRequests
  <2>2. Cardinality(WithRequests(u) \cup {r}) = Cardinality(WithRequests(u)) + 1
    BY <1>1, <2>1, FS_AddElement
  <2> QED
    BY <1>1, <1>2, <1>3, <2>1, <2>2
<1>4. CASE s \notin Carrying /\ request[r] \in Carrying
  <2>1. WithRequests(u)' = WithRequests(u) \ {r} /\ r \in WithRequests(u)
    BY <1>4 DEF WithRequests
  <2>2. Cardinality(WithRequests(u) \ {r}) = Cardinality(WithRequests(u)) - 1
    BY <1>1, <2>1, FS_RemoveElement
  <2> QED
    BY <1>1, <1>2, <1>4, <2>1, <2>2
<1>5. CASE s \in Carrying <=> request[r] \in Carrying
  <2>1. WithRequests(u)' = WithRequests(u)
    BY <1>5 DEF WithRequests
  <2> QED
    BY <1>1, <1>2, <1>5, <2>1
<1> QED
    BY <1>3, <1>4, <1>5

LEMMA RecordOffer ==
    ASSUME LockInv, RecordInv, NEW r \in Requests, NEW p \in Payloads, OfferRecord(r, p)
    PROVE  RecordInv'
<1>1. PICK u \in Writers : uses[r] = u
    BY DEF OfferRecord
<1>2. PICK s \in {"encoding", "refused"} : request' = [request EXCEPT ![r] = s]
    BY DEF OfferRecord
<1>3. /\ offered' = [offered EXCEPT ![u] = @ + 1]
      /\ UNCHANGED <<current, uses, queue, incomplete, marker, writer, first, written>>
    BY <1>1 DEF OfferRecord, storage, task
<1>4. request[r] = "open"
    BY DEF OfferRecord
<1>5. reserved' \in [Requests -> Nat] /\ \A q \in Requests \ {r} : reserved'[q] = reserved[q]
  <2>1. needed(p) \in Nat
    BY CaptureAssumption DEF needed, output_limit
  <2>2. reserved' = reserved \/ reserved' = [reserved EXCEPT ![r] = needed(p)]
    BY DEF OfferRecord
  <2>3. reserved \in [Requests -> Nat]
    BY DEF RecordTypes
  <2>4. PICK n \in Nat : reserved' = reserved \/ reserved' = [reserved EXCEPT ![r] = n]
    BY ONLY <2>1, <2>2
  <2> QED
    BY ONLY <2>3, <2>4, r \in Requests
<1>6. /\ \A w \in Writers \ {u} : WithRequests(w)' = WithRequests(w)
      /\ Cardinality(WithRequests(u))' = Cardinality(WithRequests(u)) + 1
      /\ Cardinality(WithRequests(u)) \in Nat
  <2>1. s \in RequestStates /\ s \in Carrying /\ request[r] \notin Carrying
    BY <1>4 DEF RequestStates, Carrying
  <2> QED
    BY <1>1, <1>2, <1>3, <2>1, OneRequest
<1>7. EveryRecordSomewhere'
  <2> SUFFICES ASSUME NEW w \in Writers, Unharmed(w)
               PROVE  (offered[w] = written[w] + Len(queue[w]) + InHand(w)
                                       + Cardinality(WithRequests(w)))'
    BY <1>3 DEF EveryRecordSomewhere
  <2>1. /\ offered[w] = written[w] + Len(queue[w]) + InHand(w) + Cardinality(WithRequests(w))
        /\ InHand(w)' = InHand(w) /\ InHand(w) \in Nat
        /\ Len(queue[w]) \in Nat /\ written[w] \in Nat /\ offered[w] \in Nat
    BY <1>3 DEF EveryRecordSomewhere, InHand, RecordTypes
  <2>2. CASE w = u
    BY <1>3, <1>6, <2>1, <2>2 DEF RecordTypes
  <2>3. CASE w # u
    BY <1>3, <1>6, <2>1, <2>3 DEF RecordTypes
  <2> QED
    BY <2>2, <2>3
<1>8. RecordTypes'
    BY <1>1, <1>3, <1>5 DEF RecordTypes
<1>9. NotYetUsed' /\ MarkerTells'
    BY <1>2, <1>3, <1>4
<1>10. HandsInPlace'
  <2>1. \A q \in Requests : request'[q] = "sending" => q # r /\ request[q] = "sending"
    BY <1>2 DEF LockInv, LockTypes
  <2> QED
    BY <1>3, <1>5, <2>1 DEF HandsInPlace
<1>11. ClosingIsOver'
    BY <1>3 DEF Alive
<1> QED
    BY <1>7, <1>8, <1>9, <1>10, <1>11

\* The record is encoded or refused: it stays with its request.
LEMMA RecordEncode ==
    ASSUME LockInv, RecordInv, NEW r \in Requests,
           EncodingFails(r) \/ \E n \in Encodings : EncodeRecord(r, n)
    PROVE  RecordInv'
<1>1. PICK u \in Writers : uses[r] = u
    BY DEF EncodingFails, EncodeRecord
<1>2. PICK s \in {"sending", "refused"} : request' = [request EXCEPT ![r] = s]
    BY DEF EncodingFails, EncodeRecord
<1>3. UNCHANGED <<current, uses, queue, incomplete, marker, writer, first, written, offered>>
    BY DEF EncodingFails, EncodeRecord, storage, task
<1>4. request[r] = "encoding"
    BY DEF EncodingFails, EncodeRecord
<1>5. PICK m \in Nat : reserved' = [reserved EXCEPT ![r] = m] /\ (s = "sending" => m # 0)
  <2>1. CASE EncodingFails(r)
    BY <1>2, <2>1 DEF EncodingFails
  <2>2. ASSUME NEW n \in Encodings, EncodeRecord(r, n)
        PROVE  reserved' = [reserved EXCEPT ![r] = n + METADATA]
    BY <2>2 DEF EncodeRecord
  <2>3. \A n \in Encodings : n + METADATA \in Nat \ {0}
    BY CaptureAssumption
  <2> QED
    BY <1>2, <2>1, <2>2, <2>3 DEF LockTypes
<1>6. \A w \in Writers : Cardinality(WithRequests(w))' = Cardinality(WithRequests(w))
  <2>1. s \in Carrying /\ request[r] \in Carrying
    BY <1>4 DEF Carrying
  <2> QED
    BY <1>2, <1>3, <2>1 DEF WithRequests
<1>7. EveryRecordSomewhere'
    BY <1>3, <1>6 DEF EveryRecordSomewhere, InHand
<1>8. RecordTypes'
    BY <1>3, <1>5 DEF RecordTypes
<1>9. NotYetUsed' /\ HandsInPlace' /\ MarkerTells'
    BY <1>1, <1>2, <1>3, <1>4, <1>5, <1>8 DEF RecordTypes
<1>10. ClosingIsOver'
    BY <1>3 DEF Alive
<1> QED
    BY <1>7, <1>8, <1>9, <1>10

LEMMA RecordSend ==
    ASSUME LockInv, RecordInv, NEW r \in Requests, SendRecord(r)
    PROVE  RecordInv'
<1>1. PICK u \in Writers : uses[r] = u
    BY DEF SendRecord
<1>2. /\ request' = [request EXCEPT ![r] = "open"] /\ request[r] = "sending"
      /\ reserved' = [reserved EXCEPT ![r] = 0]
      /\ queue' = [queue EXCEPT ![u] = Append(@, reserved[r])]
      /\ UNCHANGED <<current, uses, incomplete, marker, writer, first, written, offered>>
    BY <1>1 DEF SendRecord, storage, task
<1>3. reserved[r] \in Nat \ {0} /\ queue[u] \in Seq(Nat \ {0})
    BY <1>2 DEF RecordTypes
<1>4. /\ Append(queue[u], reserved[r]) \in Seq(Nat \ {0})
      /\ Len(Append(queue[u], reserved[r])) = Len(queue[u]) + 1
      /\ Len(queue[u]) \in Nat
    BY <1>3
<1>5. /\ \A w \in Writers \ {u} : WithRequests(w)' = WithRequests(w)
      /\ Cardinality(WithRequests(u))' = Cardinality(WithRequests(u)) - 1
      /\ Cardinality(WithRequests(u)) \in Nat
  <2>1. "open" \in RequestStates /\ "open" \notin Carrying /\ request[r] \in Carrying
    BY <1>2 DEF RequestStates, Carrying
  <2> QED
    BY <1>1, <1>2, <2>1, OneRequest
<1>6. EveryRecordSomewhere'
  <2> SUFFICES ASSUME NEW w \in Writers, Unharmed(w)
               PROVE  (offered[w] = written[w] + Len(queue[w]) + InHand(w)
                                       + Cardinality(WithRequests(w)))'
    BY <1>2 DEF EveryRecordSomewhere
  <2>1. /\ offered[w] = written[w] + Len(queue[w]) + InHand(w) + Cardinality(WithRequests(w))
        /\ InHand(w)' = InHand(w) /\ InHand(w) \in Nat
        /\ written[w] \in Nat /\ offered[w] \in Nat
    BY <1>2 DEF EveryRecordSomewhere, InHand, RecordTypes
  <2>2. CASE w = u
    <3>1. Len(queue[w])' = Len(queue[w]) + 1
      BY <1>2, <1>4, <2>2 DEF RecordTypes
    <3> QED
      BY <1>2, <1>4, <1>5, <2>1, <2>2, <3>1
  <2>3. CASE w # u
    BY <1>2, <1>5, <2>1, <2>3 DEF RecordTypes
  <2> QED
    BY <2>2, <2>3
<1>7. RecordTypes'
    BY <1>2, <1>4 DEF RecordTypes
<1>8. NotYetUsed' /\ HandsInPlace' /\ MarkerTells'
    BY <1>2 DEF RecordTypes
<1>9. ClosingIsOver'
    BY <1>1, <1>2 DEF Alive, RecordTypes
<1> QED
    BY <1>6, <1>7, <1>8, <1>9

LEMMA RecordMark ==
    ASSUME LockInv, RecordInv, NEW r \in Requests, MarkIncomplete(r)
    PROVE  RecordInv'
<1>1. PICK u \in Writers : uses[r] = u
    BY DEF MarkIncomplete
<1>2. /\ request' = [request EXCEPT ![r] = "open"] /\ request[r] \in {"open", "refused"}
      /\ incomplete' = [incomplete EXCEPT ![u] = TRUE]
      /\ UNCHANGED <<current, uses, reserved, queue, marker, writer, first, written, offered>>
    BY <1>1 DEF MarkIncomplete, storage, task
<1>3. \A w \in Writers \ {u} : WithRequests(w)' = WithRequests(w)
    BY <1>1, <1>2 DEF WithRequests
<1>4. EveryRecordSomewhere'
    BY <1>2, <1>3 DEF EveryRecordSomewhere, InHand, RecordTypes
<1>5. NotYetUsed' /\ HandsInPlace' /\ RecordTypes'
    BY <1>2 DEF RecordTypes
<1>6. ClosingIsOver'
    BY <1>2 DEF Alive, RecordTypes
<1>7. MarkerTells'
  <2>1. Alive(u)
    BY <1>1 DEF Alive
  <2> QED
    BY <1>2, <2>1 DEF RecordTypes
<1> QED
    BY <1>4, <1>5, <1>6, <1>7

LEMMA RecordDrop ==
    ASSUME LockInv, RecordInv, NEW r \in Requests, DropRequest(r)
    PROVE  RecordInv'
<1>1. PICK u \in Writers : uses[r] = u
    BY DEF DropRequest
<1>2. /\ request' = [request EXCEPT ![r] = "idle"] /\ request[r] = "open"
      /\ uses' = [uses EXCEPT ![r] = NONE]
      /\ UNCHANGED <<current, reserved, incomplete, marker, writer, first, written, offered>>
    BY DEF DropRequest, storage, task
<1>3. \/ UNCHANGED queue
      \/ Closed(u) /\ queue' = [queue EXCEPT ![u] = <<>>]
    BY <1>1 DEF DropRequest, RecordTypes
<1>4. \A w \in Writers : WithRequests(w)' = WithRequests(w)
    BY <1>2 DEF WithRequests, Carrying
<1>5. Closed(u) => ~Unharmed(u)
  <2>1. Alive(u)
    BY <1>1 DEF Alive
  <2> QED
    BY <2>1 DEF Closed
<1>6. EveryRecordSomewhere'
  <2> SUFFICES ASSUME NEW w \in Writers, Unharmed(w)
               PROVE  (offered[w] = written[w] + Len(queue[w]) + InHand(w)
                                       + Cardinality(WithRequests(w)))'
    BY <1>2 DEF EveryRecordSomewhere
  <2>1. queue'[w] = queue[w]
    <3>1. CASE UNCHANGED queue
      BY <3>1
    <3>2. CASE Closed(u) /\ queue' = [queue EXCEPT ![u] = <<>>]
      <4>1. w # u
        BY <1>5, <3>2
      <4> QED
        BY <3>2, <4>1
    <3> QED
      BY <1>3, <3>1, <3>2
  <2>2. offered[w] = written[w] + Len(queue[w]) + InHand(w) + Cardinality(WithRequests(w))
    BY DEF EveryRecordSomewhere
  <2>3. InHand(w)' = InHand(w)
    BY <1>2 DEF InHand
  <2>4. offered'[w] = offered[w] /\ written'[w] = written[w]
    BY <1>2
  <2>5. Cardinality(WithRequests(w))' = Cardinality(WithRequests(w))
    BY <1>4
  <2>6. Len(queue[w])' = Len(queue[w])
    BY <2>1
  <2> QED
    BY ONLY <2>2, <2>3, <2>4, <2>5, <2>6
<1>7. NotYetUsed' /\ HandsInPlace' /\ MarkerTells'
    BY <1>2 DEF RecordTypes
<1>8. ClosingIsOver'
  <2>1. \A w \in Writers : ~Alive(w) => ~Alive(w)'
    BY CaptureAssumption, <1>2 DEF Alive
  <2>2. \A w \in Writers : queue[w] = <<>> => queue'[w] = <<>>
    BY <1>3 DEF RecordTypes
  <2> QED
    BY <1>2, <2>1, <2>2
<1>9. RecordTypes'
  <2>1. queue \in [Writers -> Seq(Nat \ {0})]
    BY DEF RecordTypes
  <2>2. queue' = queue \/ queue' = [queue EXCEPT ![u] = <<>>]
    BY <1>3
  <2>3. [queue EXCEPT ![u] = <<>>] \in [Writers -> Seq(Nat \ {0})]
    BY <2>1, QueueEmptied
  <2>4. queue' \in [Writers -> Seq(Nat \ {0})]
    BY ONLY <2>1, <2>2, <2>3
  <2> QED
    BY <1>2, <2>4 DEF RecordTypes
<1> QED
    BY <1>6, <1>7, <1>8, <1>9

LEMMA RecordRequest ==
    ASSUME LockInv, RecordInv, NEW r \in Requests, Begin(r) \/ RequestStep(r)
    PROVE  RecordInv'
BY RecordStart, RecordEncode, RecordSend, RecordMark, RecordDrop DEF RequestStep

\* A step of a writer's task moves its own books and no request.
LEMMA WriterFrame ==
    ASSUME LockInv, RecordInv, NEW w \in Writers, WriterStep(w)
    PROVE  /\ UNCHANGED <<current, request, uses, reserved, offered>>
           /\ \A v \in Writers : WithRequests(v)' = WithRequests(v) /\ Alive(v)' = Alive(v)
           /\ \A v \in Writers \ {w} :
                /\ writer'[v] = writer[v] /\ queue'[v] = queue[v] /\ first'[v] = first[v]
                /\ incomplete'[v] = incomplete[v] /\ marker'[v] = marker[v]
                /\ written'[v] = written[v] /\ InHand(v)' = InHand(v)
<1> USE DEF storage, producers, task, admission
<1>1. UNCHANGED <<current, request, uses, reserved, offered>>
    BY DEF WriterStep, Receive, StartBatch, WriteRecord, WriteFails, EndBatch, Drained,
        CloseReceiver, Finish
<1>2. \A v \in Writers : WithRequests(v)' = WithRequests(v) /\ Alive(v)' = Alive(v)
    BY <1>1 DEF WithRequests, Alive
<1>3. ASSUME NEW v \in Writers \ {w}
      PROVE  /\ writer'[v] = writer[v] /\ queue'[v] = queue[v] /\ first'[v] = first[v]
             /\ incomplete'[v] = incomplete[v] /\ marker'[v] = marker[v]
             /\ written'[v] = written[v]
  <2>1. CASE Receive(w) \/ StartBatch(w)
    BY <2>1 DEF Receive, StartBatch, RecordTypes
  <2>2. CASE WriteRecord(w) \/ WriteFails(w)
    BY <2>2 DEF WriteRecord, WriteFails, takes, RecordTypes
  <2>3. CASE EndBatch(w) \/ Drained(w)
    BY <2>3 DEF EndBatch, Drained, RecordTypes
  <2>4. CASE CloseReceiver(w) \/ Finish(w)
    BY <2>4 DEF CloseReceiver, Finish, RecordTypes
  <2> QED
    BY <2>1, <2>2, <2>3, <2>4 DEF WriterStep
<1>4. \A v \in Writers \ {w} : InHand(v)' = InHand(v)
    BY <1>3 DEF InHand
<1> QED
    BY <1>1, <1>2, <1>3, <1>4

\* So it keeps the record invariant if it keeps what that says of its writer.
LEMMA OneWriter ==
    ASSUME LockInv, RecordInv, NEW w \in Writers, WriterStep(w), RecordTypes',
           Unharmed(w)' => (offered[w] = written[w] + Len(queue[w]) + InHand(w)
                                           + Cardinality(WithRequests(w)))',
           writer'[w] \notin {"unborn", "starting"},
           writer'[w] = "receiving" => first'[w] = 0,
           writer'[w] \in {"closing", "flushing", "done"} /\ ~incomplete'[w]
             => ~Alive(w) /\ queue'[w] = <<>> /\ first'[w] = 0,
           writer'[w] = "done" /\ marker'[w] = "none" => ~incomplete'[w]
    PROVE  RecordInv'
<1>1. EveryRecordSomewhere'
  <2> SUFFICES ASSUME NEW v \in Writers, Unharmed(v)'
               PROVE  (offered[v] = written[v] + Len(queue[v]) + InHand(v)
                                       + Cardinality(WithRequests(v)))'
    BY DEF EveryRecordSomewhere
  <2>1. CASE v = w
    BY <2>1
  <2>2. CASE v # w
    BY <2>2, WriterFrame DEF EveryRecordSomewhere
  <2> QED
    BY <2>1, <2>2
<1>2. NotYetUsed' /\ HandsInPlace' /\ ClosingIsOver' /\ MarkerTells'
    BY WriterFrame
<1> QED
    BY <1>1, <1>2

LEMMA RecordWriter ==
    ASSUME LockInv, RecordInv, NEW w \in Writers, WriterStep(w)
    PROVE  RecordInv'
<1> DEFINE q == queue[w]
<1>1. /\ offered[w] \in Nat /\ written[w] \in Nat /\ first[w] \in Nat
      /\ q \in Seq(Nat \ {0}) /\ Len(q) \in Nat
      /\ Cardinality(WithRequests(w)) \in Nat
      /\ Unharmed(w) => offered[w] = written[w] + Len(q) + InHand(w) + Cardinality(WithRequests(w))
    BY WithRequestsFinite DEF RecordTypes, EveryRecordSomewhere
<1>2. /\ UNCHANGED <<current, request, uses, reserved, offered>>
      /\ WithRequests(w)' = WithRequests(w) /\ Alive(w)' = Alive(w)
    BY WriterFrame
<1>3. q # <<>> => /\ Tail(q) \in Seq(Nat \ {0}) /\ Len(Tail(q)) = Len(q) - 1
                  /\ Head(q) \in Nat \ {0}
    BY <1>1
<1>4. q = <<>> => Len(q) = 0
    BY EmptySeq
<1>5. CASE Receive(w)
  <2>1. /\ writer[w] = "receiving" /\ first[w] = 0
        /\ writer' = [writer EXCEPT ![w] = "waiting"]
        /\ UNCHANGED <<written, incomplete, marker>>
    BY <1>5 DEF Receive, storage
  <2>2. CASE q = <<>>
    <3>1. UNCHANGED <<first, queue>>
      BY <1>5, <2>2 DEF Receive
    <3>2. RecordTypes' /\ writer'[w] = "waiting"
      BY <1>2, <2>1, <3>1 DEF RecordTypes
    <3>3. Unharmed(w)' => Unharmed(w)
      BY <2>1
    <3>4. UNCHANGED <<offered, written, queue>> /\ InHand(w)' = InHand(w)
      BY <1>2, <2>1, <3>1 DEF InHand
    <3> QED
      BY <1>1, <1>2, <3>1, <3>2, <3>3, <3>4, OneWriter
  <2>3. CASE q # <<>>
    <3>1. /\ first' = [first EXCEPT ![w] = Head(q)]
          /\ queue' = [queue EXCEPT ![w] = Tail(q)]
      BY <1>5, <2>3 DEF Receive
    <3>2. RecordTypes'
      BY <1>2, <1>3, <2>1, <2>3, <3>1 DEF RecordTypes
    <3>3. /\ queue'[w] = Tail(q) /\ first'[w] = Head(q)
          /\ written'[w] = written[w] /\ writer'[w] = "waiting"
      BY <2>1, <3>1 DEF RecordTypes
    <3>4. InHand(w) = 0 /\ InHand(w)' = 1
      BY <1>3, <2>1, <2>3, <3>3 DEF InHand
    <3>5. Unharmed(w)' => (offered[w] = written[w] + Len(queue[w]) + InHand(w)
                                            + Cardinality(WithRequests(w)))'
      BY <1>1, <1>2, <1>3, <2>1, <2>3, <3>3, <3>4
    <3> QED
      BY <3>2, <3>3, <3>5, OneWriter
  <2> QED
    BY <2>2, <2>3
<1>6. CASE StartBatch(w)
  <2>1. /\ writer' = [writer EXCEPT ![w] = "writing"] /\ writer[w] = "waiting"
        /\ UNCHANGED <<first, queue, written, incomplete, marker>>
    BY <1>6 DEF StartBatch, storage, admission
  <2>2. RecordTypes' /\ writer'[w] = "writing" /\ InHand(w)' = InHand(w)
    BY <1>2, <2>1 DEF RecordTypes, InHand
  <2>3. Unharmed(w)' => (offered[w] = written[w] + Len(queue[w]) + InHand(w)
                                          + Cardinality(WithRequests(w)))'
    BY <1>1, <1>2, <2>1, <2>2
  <2> QED
    BY <2>2, <2>3, OneWriter
<1>7. CASE WriteRecord(w)
  <2>1. /\ writer[w] = "writing" /\ (first[w] # 0 \/ q # <<>>)
        /\ first' = [first EXCEPT ![w] = 0]
        /\ queue' = [queue EXCEPT ![w] = IF first[w] # 0 THEN q ELSE Tail(q)]
        /\ written' = [written EXCEPT ![w] = @ + 1]
        /\ UNCHANGED <<writer, incomplete, marker>>
    BY <1>7 DEF WriteRecord, takes, storage
  <2>2. /\ first'[w] = 0 /\ queue'[w] = (IF first[w] # 0 THEN q ELSE Tail(q))
        /\ written'[w] = written[w] + 1 /\ writer'[w] = "writing"
    BY <2>1 DEF RecordTypes
  <2>3. RecordTypes'
    <3>1. queue \in [Writers -> Seq(Nat \ {0})]
      BY DEF RecordTypes
    <3>2. queue' \in [Writers -> Seq(Nat \ {0})]
      BY <1>3, <2>1, <3>1
    <3> QED
      BY <1>2, <2>1, <3>2 DEF RecordTypes
  <2>4. Unharmed(w)' => (offered[w] = written[w] + Len(queue[w]) + InHand(w)
                                          + Cardinality(WithRequests(w)))'
    <3>1. Len(queue'[w]) + InHand(w)' = Len(q) + InHand(w) - 1 /\ InHand(w)' = 0
      <4>1. CASE first[w] # 0
        BY <1>1, <2>2, <4>1 DEF InHand
      <4>2. CASE first[w] = 0
        <5>1. queue'[w] = Tail(q) /\ q # <<>> /\ InHand(w) = 0 /\ InHand(w)' = 0
          BY <2>1, <2>2, <4>2 DEF InHand
        <5>2. Len(Tail(q)) = Len(q) - 1
          BY <1>3, <5>1
        <5> QED
          BY <1>1, <5>1, <5>2
      <4> QED
        BY <4>1, <4>2
    <3>2. /\ Unharmed(w)' => Unharmed(w)
          /\ offered'[w] = offered[w] /\ written'[w] = written[w] + 1
          /\ Cardinality(WithRequests(w))' = Cardinality(WithRequests(w))
          /\ InHand(w) \in Nat /\ Len(queue'[w]) \in Nat
      <4>1. queue'[w] \in Seq(Nat \ {0})
        BY <2>3 DEF RecordTypes
      <4> QED
        BY <1>2, <2>1, <2>2, <4>1 DEF InHand
    <3>3. ASSUME Unharmed(w)
          PROVE  offered'[w] = written'[w] + Len(queue'[w]) + InHand(w)'
                                 + Cardinality(WithRequests(w))'
      <4>1. offered[w] = written[w] + Len(q) + InHand(w) + Cardinality(WithRequests(w))
        BY <1>1, <3>3
      <4> HIDE DEF q, LockInv, RecordInv
      <4> QED
        BY <1>1, <3>1, <3>2, <4>1
    <3> QED
      BY <3>2, <3>3
  <2> QED
    BY <2>2, <2>3, <2>4, OneWriter
<1>8. CASE WriteFails(w)
  <2>1. /\ writer[w] = "writing" /\ (first[w] # 0 \/ q # <<>>)
        /\ first' = [first EXCEPT ![w] = 0]
        /\ queue' = [queue EXCEPT ![w] = IF first[w] # 0 THEN q ELSE Tail(q)]
        /\ incomplete' = [incomplete EXCEPT ![w] = TRUE]
        /\ writer' = [writer EXCEPT ![w] = "closing"]
        /\ UNCHANGED <<written, marker>>
    BY <1>8 DEF WriteFails, takes, storage
  <2>2. incomplete'[w] = TRUE /\ writer'[w] = "closing"
    BY <2>1 DEF RecordTypes
  <2>3. RecordTypes'
    <3>1. queue \in [Writers -> Seq(Nat \ {0})]
      BY DEF RecordTypes
    <3>2. queue' \in [Writers -> Seq(Nat \ {0})]
      BY <1>3, <2>1, <3>1
    <3> QED
      BY <1>2, <2>1, <3>2 DEF RecordTypes
  <2> QED
    BY <2>2, <2>3, OneWriter
<1>9. CASE EndBatch(w)
  <2>1. /\ writer[w] = "writing" /\ first[w] = 0
        /\ writer' = [writer EXCEPT ![w] = IF stopped THEN "cancelled" ELSE "receiving"]
        /\ IF stopped THEN queue' = [queue EXCEPT ![w] = <<>>] ELSE UNCHANGED queue
        /\ UNCHANGED <<first, written, incomplete, marker>>
    BY <1>9 DEF EndBatch
  <2>2. RecordTypes'
    <3>1. queue \in [Writers -> Seq(Nat \ {0})]
      BY DEF RecordTypes
    <3>2. queue' = queue \/ queue' = [queue EXCEPT ![w] = <<>>]
      BY <2>1
    <3>3. [queue EXCEPT ![w] = <<>>] \in [Writers -> Seq(Nat \ {0})]
      BY <3>1, QueueEmptied
    <3>4. queue' \in [Writers -> Seq(Nat \ {0})]
      BY ONLY <3>1, <3>2, <3>3
    <3> QED
      BY <1>2, <2>1, <3>4 DEF RecordTypes
  <2>3. CASE stopped
    <3>1. writer'[w] = "cancelled"
      BY <2>1, <2>3
    <3> QED
      BY <2>2, <3>1, OneWriter
  <2>4. CASE ~stopped
    <3>1. writer'[w] = "receiving" /\ first'[w] = 0 /\ UNCHANGED queue
      BY <2>1, <2>4
    <3>2. Unharmed(w)' => (offered[w] = written[w] + Len(queue[w]) + InHand(w)
                                            + Cardinality(WithRequests(w)))'
      BY <1>1, <1>2, <2>1, <3>1 DEF InHand
    <3> QED
      BY <2>2, <3>1, <3>2, OneWriter
  <2> QED
    BY <2>3, <2>4
<1>10. CASE Drained(w)
  <2>1. /\ writer[w] = "writing" /\ first[w] = 0 /\ q = <<>> /\ ~Alive(w)
        /\ writer' = [writer EXCEPT ![w] = "closing"]
        /\ UNCHANGED <<first, queue, written, incomplete, marker>>
    BY <1>10 DEF Drained, storage, admission
  <2>2. RecordTypes' /\ writer'[w] = "closing"
    BY <1>2, <2>1 DEF RecordTypes
  <2>3. Unharmed(w)' => Unharmed(w)
    BY <2>1
  <2>4. UNCHANGED <<offered, written, queue>> /\ InHand(w)' = InHand(w)
    BY <1>2, <2>1 DEF InHand
  <2> QED
    BY <1>1, <1>2, <2>1, <2>2, <2>3, <2>4, OneWriter
<1>11. CASE CloseReceiver(w)
  <2>1. /\ writer[w] = "closing" /\ writer' = [writer EXCEPT ![w] = "flushing"]
        /\ queue' = [queue EXCEPT ![w] = <<>>]
        /\ UNCHANGED <<first, written, incomplete, marker>>
    BY <1>11 DEF CloseReceiver, storage
  <2>2. writer'[w] = "flushing" /\ queue'[w] = <<>>
    BY <2>1 DEF RecordTypes
  <2>3. ~incomplete[w] => ~Alive(w) /\ q = <<>> /\ first[w] = 0
    BY <2>1
  <2>4. RecordTypes'
    <3>1. queue \in [Writers -> Seq(Nat \ {0})] /\ <<>> \in Seq(Nat \ {0})
      BY EmptySeq DEF RecordTypes
    <3> QED
      BY <1>2, <2>1, <3>1 DEF RecordTypes
  <2>5. Unharmed(w)' => (offered[w] = written[w] + Len(queue[w]) + InHand(w)
                                          + Cardinality(WithRequests(w)))'
    BY <1>1, <1>2, <2>1, <2>2, <2>3 DEF InHand
  <2> QED
    BY <2>1, <2>2, <2>3, <2>4, <2>5, OneWriter
<1>12. CASE Finish(w)
  <2>1. PICK flushed \in BOOLEAN, made \in BOOLEAN :
          /\ incomplete' = [incomplete EXCEPT ![w] = @ \/ ~flushed]
          /\ written' = [written EXCEPT ![w] = IF flushed THEN @ ELSE 0]
          /\ marker' = [marker EXCEPT ![w] = MarkerFor(incomplete'[w], made)]
    BY <1>12 DEF Finish
  <2>2. /\ writer[w] = "flushing" /\ writer' = [writer EXCEPT ![w] = "done"]
        /\ UNCHANGED <<first, queue>>
    BY <1>12 DEF Finish
  <2>3. /\ writer'[w] = "done" /\ marker'[w] = "none" => ~incomplete'[w]
        /\ ~incomplete'[w] => ~incomplete[w] /\ written'[w] = written[w]
    BY <2>1, <2>2 DEF RecordTypes, MarkerFor
  <2>4. RecordTypes'
    BY <1>2, <2>1, <2>2 DEF RecordTypes, MarkerFor
  <2>5. Unharmed(w)' => (offered[w] = written[w] + Len(queue[w]) + InHand(w)
                                          + Cardinality(WithRequests(w)))'
    BY <1>1, <1>2, <2>2, <2>3 DEF InHand
  <2> QED
    BY <2>2, <2>3, <2>4, <2>5, OneWriter
<1> QED
    BY <1>5, <1>6, <1>7, <1>8, <1>9, <1>10, <1>11, <1>12 DEF WriterStep

LEMMA RecordStop == LockInv /\ RecordInv /\ Stop => RecordInv'
<1> SUFFICES ASSUME LockInv, RecordInv, Stop PROVE RecordInv'
    OBVIOUS
<1>1. PICK dropped \in SUBSET {w \in Writers : writer[w] \in {"receiving", "waiting", "writing"}} :
        /\ writer' = [w \in Writers |-> IF w \in dropped THEN "cancelled" ELSE writer[w]]
        /\ first' = [w \in Writers |-> IF w \in dropped THEN 0 ELSE first[w]]
        /\ queue' = [w \in Writers |-> IF Closed(w) \/ w \in dropped THEN <<>> ELSE queue[w]]
    BY StopDrops
<1>2. /\ request' = [r \in Requests |-> "idle"] /\ uses' = [r \in Requests |-> NONE]
      /\ \A r \in Requests : request[r] \in {"idle", "open"}
      /\ UNCHANGED <<current, reserved, incomplete, marker, offered, written>>
    BY DEF Stop
<1>3. \A w \in Writers : WithRequests(w)' = WithRequests(w) /\ ~Alive(w)'
    BY CaptureAssumption, <1>2 DEF WithRequests, Carrying, Alive
<1>4. \A w \in Writers : Unharmed(w)' =>
        /\ Unharmed(w) /\ w \notin dropped
        /\ queue'[w] = queue[w] /\ first'[w] = first[w]
    BY <1>1, <1>2 DEF Closed
<1>5. EveryRecordSomewhere'
    BY <1>2, <1>3, <1>4 DEF EveryRecordSomewhere, InHand
<1>6. RecordTypes'
  <2>1. queue \in [Writers -> Seq(Nat \ {0})] /\ <<>> \in Seq(Nat \ {0})
    BY EmptySeq DEF RecordTypes
  <2>2. queue' \in [Writers -> Seq(Nat \ {0})]
    BY <1>1, <2>1
  <2>3. first' \in [Writers -> Nat]
    BY <1>1 DEF RecordTypes
  <2> QED
    BY <1>2, <2>2, <2>3 DEF RecordTypes
<1>7. NotYetUsed' /\ HandsInPlace' /\ MarkerTells'
    BY <1>1, <1>2
<1>8. ClosingIsOver'
    BY <1>1, <1>2, <1>3
<1> QED
    BY <1>5, <1>6, <1>7, <1>8

LEMMA RecordNext == LockInv /\ RecordInv /\ [Next]_vars => RecordInv'
<1> SUFFICES ASSUME LockInv, RecordInv, [Next]_vars PROVE RecordInv'
    OBVIOUS
<1>1. CASE UNCHANGED vars
    BY <1>1, RecordFrame DEF vars, storage, producers, task, admission
<1>2. CASE Next
    BY <1>2, RecordCommand, RecordRequest, RecordOffer, RecordWriter, RecordStop DEF Next
<1> QED
    BY <1>1, <1>2

LEMMA Invariance == Spec => []IInv
<1>1. Init => IInv
    BY LockInit, RecordInit DEF IInv
<1>2. IInv /\ [Next]_vars => IInv'
    BY LockNext, RecordNext DEF IInv
<1> QED
    BY <1>1, <1>2, PTL DEF Spec

\* A writer that finished with less than it was offered has gone to make a
\* marker (capture.rs:139 and 197, writer.rs:101).
THEOREM LossesAreNoticed == Spec => []CompleteUnlessMarkerOwed
<1>1. RecordInv => CompleteUnlessMarkerOwed
  <2> SUFFICES ASSUME RecordInv, NEW w \in Writers, writer[w] = "done", marker[w] = "none"
               PROVE  written[w] = offered[w]
    BY DEF CompleteUnlessMarkerOwed
  <2>1. ~incomplete[w] /\ ~Alive(w) /\ queue[w] = <<>> /\ first[w] = 0
    OBVIOUS
  <2>2. WithRequests(w) = {} /\ Cardinality({}) = 0
    BY <2>1, FS_EmptySet DEF Alive, WithRequests
  <2>3. /\ offered[w] = written[w] + Len(queue[w]) + InHand(w) + Cardinality(WithRequests(w))
        /\ written[w] \in Nat
    BY <2>1 DEF EveryRecordSomewhere, RecordTypes
  <2> QED
    BY <2>1, <2>2, <2>3, EmptySeq DEF InHand
<1>2. IInv => RecordInv
    BY DEF IInv
<1> QED
    BY <1>1, <1>2, Invariance, PTL

-----------------------------------------------------------------------------
(* Sums over finite sets.  What is claimed of every subset is stated as a    *)
(* set of subsets, and holds of all because none is a minimal exception.     *)

HIDE DEF LockInv, LockTypes, PurgeIsAlone, ActiveIsLocked, Active, NothingLeft, UsesInPlace,
    StarterInPlace, RecordInv, NotYetUsed, HandsInPlace, ClosingIsOver, MarkerTells, Unharmed

LEMMA SubsetsAllGood ==
    ASSUME NEW S, IsFiniteSet(S), NEW G,
           \A T \in SUBSET S : (\A U \in SUBSET T : U # T => U \in G) => T \in G
    PROVE  SUBSET S \subseteq G
<1> DEFINE Bad == (SUBSET S) \ G
<1> SUFFICES ASSUME Bad # {} PROVE FALSE
    OBVIOUS
<1>1. IsWellFoundedOn(StrictSubsetOrdering(S), SUBSET S)
    <2>1. IsWellFoundedOn(StrictSubsetOrdering(S), FiniteSubsetsOf(S))
        BY FS_StrictSubsetOrderingWellFounded
    <2>2. FiniteSubsetsOf(S) = SUBSET S
        BY FS_FiniteSubsetsOfFinite
    <2> QED
        BY <2>1, <2>2
<1>2. PICK T \in Bad : \A U \in Bad : <<U, T>> \notin StrictSubsetOrdering(S)
    <2>1. Bad \subseteq SUBSET S
        OBVIOUS
    <2> HIDE DEF Bad
    <2> QED
        BY <1>1, <2>1, WFMin
<1>3. \A U \in SUBSET T : U # T => U \in G
    BY <1>2 DEF StrictSubsetOrdering
<1>4. T \in G
    BY <1>2, <1>3
<1>5. T \in (SUBSET S) \ G
    BY <1>2
<1> QED
    BY <1>4, <1>5

\* The sum that the community modules define is the value of a recursive function
\* on the subsets of a set; it takes the elements in an order nobody knows.
Pick(s) == CHOOSE x \in s : TRUE
SumStep(f, g, s) == IF s = {} THEN 0 ELSE f[Pick(s)] + g[s \ {Pick(s)}]
SumsUp(f, g, S) == g = [s \in SUBSET S |-> SumStep(f, g, s)]
SumsOf(f, S) == CHOOSE g : SumsUp(f, g, S)

LEMMA SumIsRecursive ==
    ASSUME NEW f, NEW S
    PROVE  SumFunctionOnSet(f, S) = SumsOf(f, S)[S]
BY DEF SumFunctionOnSet, FoldFunctionOnSet, MapThenFoldSet, SumsOf, SumsUp, SumStep, Pick

LEMMA PickIn == \A s : s # {} => Pick(s) \in s
BY DEF Pick

\* Two such functions agree wherever both are defined.
LEMMA SumsAgree ==
    ASSUME NEW f, NEW S, NEW T, IsFiniteSet(S), NEW g, NEW h, SumsUp(f, g, S), SumsUp(f, h, T)
    PROVE  \A s \in SUBSET S : s \in SUBSET T => g[s] = h[s]
<1> DEFINE G == {s \in SUBSET S : s \in SUBSET T => g[s] = h[s]}
<1>1. ASSUME NEW s \in SUBSET S, \A u \in SUBSET s : u # s => u \in G
      PROVE  s \in G
    <2> SUFFICES ASSUME s \in SUBSET T PROVE g[s] = h[s]
        OBVIOUS
    <2>1. g[s] = SumStep(f, g, s) /\ h[s] = SumStep(f, h, s)
        BY DEF SumsUp
    <2>2. CASE s = {}
        BY <2>1, <2>2 DEF SumStep
    <2>3. CASE s # {}
        <3>1. Pick(s) \in s
            BY <2>3, PickIn
        <3>2. s \ {Pick(s)} \in G
            BY <1>1, <3>1
        <3>3. g[s \ {Pick(s)}] = h[s \ {Pick(s)}]
            BY <3>2
        <3> QED
            BY <2>1, <3>3 DEF SumStep
    <2> QED
        BY <2>2, <2>3
<1> HIDE DEF G
<1>2. SUBSET S \subseteq G
    BY <1>1, SubsetsAllGood
<1> QED
    BY <1>2 DEF G

LEMMA SumsExist ==
    ASSUME NEW f, NEW S, IsFiniteSet(S)
    PROVE  SumsUp(f, SumsOf(f, S), S)
<1> DEFINE G == {T \in SUBSET S : SumsUp(f, SumsOf(f, T), T)}
<1>1. ASSUME NEW T \in SUBSET S, \A U \in SUBSET T : U # T => U \in G
      PROVE  T \in G
    <2> DEFINE Sm(s) == SumsOf(f, s)[s]
               g == [s \in SUBSET T |-> IF s = T /\ T # {} THEN f[Pick(T)] + Sm(T \ {Pick(T)})
                                        ELSE IF s = {} THEN 0 ELSE Sm(s)]
    <2>1. ASSUME NEW s \in SUBSET T
          PROVE  g[s] = SumStep(f, g, s)
        <3>1. CASE s = {}
            BY <3>1 DEF SumStep
        <3>2. CASE s # {}
            <4> DEFINE u == s \ {Pick(s)}
            <4>1. Pick(s) \in s /\ u \in SUBSET T /\ u # T /\ u \in SUBSET s /\ u # s
                BY <3>2, PickIn
            <4>2. g[u] = Sm(u)
                <5>1. CASE u # {}
                    BY <4>1, <5>1
                <5>2. CASE u = {}
                    <6>1. SumsUp(f, SumsOf(f, u), u)
                        BY <1>1, <4>1
                    <6>2. Sm(u) = SumStep(f, SumsOf(f, u), u)
                        BY <6>1 DEF SumsUp
                    <6>3. Sm(u) = 0
                        BY <6>2, <5>2 DEF SumStep
                    <6> QED
                        BY <5>2, <6>3, <4>1
                <5> QED
                    BY <5>1, <5>2
            <4>3. g[s] = f[Pick(s)] + Sm(u)
                <5>1. CASE s = T
                    BY <5>1, <3>2
                <5>2. CASE s # T
                    <6>1. SumsUp(f, SumsOf(f, s), s) /\ SumsUp(f, SumsOf(f, u), u)
                        BY <1>1, <4>1, <5>2
                    <6>2. IsFiniteSet(u) /\ IsFiniteSet(s)
                        BY FS_Subset, <4>1
                    <6>3. SumsOf(f, u)[u] = SumsOf(f, s)[u]
                        <7> HIDE DEF u
                        <7>1. u \in SUBSET u
                            OBVIOUS
                        <7> QED
                            BY <4>1, <6>1, <6>2, <7>1, SumsAgree
                    <6>4. SumsOf(f, s)[s] = SumStep(f, SumsOf(f, s), s)
                        BY <6>1 DEF SumsUp
                    <6>5. SumsOf(f, s)[s] = f[Pick(s)] + SumsOf(f, s)[u]
                        BY <6>4, <3>2 DEF SumStep
                    <6>6. g[s] = SumsOf(f, s)[s]
                        BY <5>2, <3>2
                    <6> QED
                        BY <6>3, <6>5, <6>6
                <5> QED
                    BY <5>1, <5>2
            <4> QED
                BY <4>2, <4>3, <3>2 DEF SumStep
        <3> QED
            BY <3>1, <3>2
    <2>2. g = [s \in SUBSET T |-> SumStep(f, g, s)]
        <3>1. g = [s \in SUBSET T |-> g[s]]
            OBVIOUS
        <3> HIDE DEF g
        <3> QED
            BY <2>1, <3>1
    <2>3. \E h : SumsUp(f, h, T)
        <3> HIDE DEF g
        <3> QED
            BY <2>2 DEF SumsUp
    <2>4. SumsUp(f, SumsOf(f, T), T)
        BY <2>3 DEF SumsOf
    <2> QED
        BY <2>4
<1> HIDE DEF G
<1>2. SUBSET S \subseteq G
    BY <1>1, SubsetsAllGood
<1> QED
    BY <1>2 DEF G

Total(f, S) == SumFunctionOnSet(f, S)

LEMMA TotalPicks ==
    ASSUME NEW f, NEW S, IsFiniteSet(S)
    PROVE  Total(f, S) = IF S = {} THEN 0 ELSE f[Pick(S)] + Total(f, S \ {Pick(S)})
<1>1. Total(f, S) = SumStep(f, SumsOf(f, S), S)
    <2> DEFINE g == SumsOf(f, S)
    <2>1. SumsUp(f, g, S)
        BY SumsExist
    <2>2. Total(f, S) = g[S]
        BY SumIsRecursive DEF Total
    <2> HIDE DEF g
    <2>3. g[S] = SumStep(f, g, S)
        BY <2>1 DEF SumsUp
    <2> QED
        BY <2>2, <2>3 DEF g
<1>2. ASSUME S # {}
      PROVE  SumsOf(f, S)[S \ {Pick(S)}] = Total(f, S \ {Pick(S)})
    <2> DEFINE T == S \ {Pick(S)}
    <2>1. IsFiniteSet(T)
        BY FS_RemoveElement
    <2>2. T \in SUBSET S /\ T \in SUBSET T
        OBVIOUS
    <2> HIDE DEF T
    <2>3. SumsUp(f, SumsOf(f, S), S) /\ SumsUp(f, SumsOf(f, T), T)
        BY <2>1, SumsExist
    <2>4. SumsOf(f, S)[T] = SumsOf(f, T)[T]
        BY <2>2, <2>3, SumsAgree
    <2> QED
        BY <2>4, SumIsRecursive DEF T, Total
<1> QED
    BY <1>1, <1>2 DEF SumStep

\* The order does not matter.
LEMMA TotalTakes ==
    ASSUME NEW S, IsFiniteSet(S), NEW f, \A x \in S : f[x] \in Nat
    PROVE  /\ Total(f, S) \in Nat
           /\ \A x \in S : Total(f, S) = f[x] + Total(f, S \ {x})
<1> DEFINE G == {T \in SUBSET S : /\ Total(f, T) \in Nat
                                 /\ \A x \in T : Total(f, T) = f[x] + Total(f, T \ {x})}
<1>1. ASSUME NEW T \in SUBSET S, \A U \in SUBSET T : U # T => U \in G
      PROVE  T \in G
    <2>1. IsFiniteSet(T)
        BY FS_Subset
    <2>2. CASE T = {}
        <3>1. Total(f, T) = 0
            BY <2>1, <2>2, TotalPicks
        <3> QED
            BY <2>2, <3>1
    <2>3. CASE T # {}
        <3> DEFINE p == Pick(T)
        <3>1. p \in T /\ f[p] \in Nat
            BY <2>3, PickIn
        <3>2. Total(f, T) = f[p] + Total(f, T \ {p})
            BY <2>1, <2>3, TotalPicks
        <3> HIDE DEF p
        <3>3. T \ {p} \in G
            BY <3>1, <1>1
        <3>4. Total(f, T) \in Nat
            BY <3>1, <3>2, <3>3
        <3>5. ASSUME NEW x \in T, x # p
              PROVE  Total(f, T) = f[x] + Total(f, T \ {x})
            <4> DEFINE rest == (T \ {p}) \ {x}
            <4>1. rest = (T \ {x}) \ {p}
                OBVIOUS
            <4>2. rest \in G /\ T \ {x} \in G
                BY <1>1, <3>1
            <4>3. Total(f, T \ {p}) = f[x] + Total(f, rest)
                BY <3>3, <3>5
            <4>4. Total(f, T \ {x}) = f[p] + Total(f, rest)
                BY <4>1, <4>2, <3>1, <3>5
            <4>5. Total(f, rest) \in Nat /\ f[x] \in Nat
                BY <4>2
            <4> HIDE DEF rest
            <4> QED
                BY <3>1, <3>2, <4>3, <4>4, <4>5
        <3> QED
            BY <3>2, <3>4, <3>5
    <2> QED
        BY <2>2, <2>3
<1> HIDE DEF G
<1>2. SUBSET S \subseteq G
    BY <1>1, SubsetsAllGood
<1>3. S \in G
    BY <1>2
<1> QED
    BY <1>3 DEF G

\* A sum depends on the values only, whatever they are named by.
Renamed(f, S, g, R, n) ==
    /\ \A x \in S : f[x] = g[n[x]] /\ g[n[x]] \in Nat
    /\ \A x, y \in S : n[x] = n[y] => x = y
    /\ R = {n[x] : x \in S}

LEMMA TotalRenamed ==
    ASSUME NEW S, IsFiniteSet(S), NEW f, NEW g, NEW n, NEW R, Renamed(f, S, g, R, n)
    PROVE  Total(f, S) = Total(g, R)
<1> USE DEF Renamed
<1> DEFINE Im(T) == {n[x] : x \in T}
           G == {T \in SUBSET S : IsFiniteSet(Im(T)) /\ Total(f, T) = Total(g, Im(T))}
<1>1. ASSUME NEW T \in SUBSET S, \A U \in SUBSET T : U # T => U \in G
      PROVE  T \in G
    <2>1. IsFiniteSet(T)
        BY FS_Subset
    <2>3. CASE T = {}
        <3>1. Im(T) = {} /\ IsFiniteSet({})
            BY <2>3, FS_EmptySet
        <3> QED
            BY <2>3, <3>1, TotalPicks
    <2>4. CASE T # {}
        <3>1. PICK x \in T : TRUE
            BY <2>4
        <3>2. T \ {x} \in G
            BY <1>1
        <3>3. Im(T \ {x}) = Im(T) \ {n[x]} /\ n[x] \in Im(T)
            OBVIOUS
        <3>6. IsFiniteSet(Im(T))
            <4> DEFINE A == Im(T \ {x})
            <4>1. Im(T) = A \cup {n[x]}
                OBVIOUS
            <4>2. IsFiniteSet(A)
                BY <3>2
            <4> HIDE DEF A, Im
            <4>3. IsFiniteSet(A \cup {n[x]})
                BY ONLY <4>2, FS_AddElement
            <4> QED
                BY <4>1, <4>3
        <3>4. Total(f, T) = f[x] + Total(f, T \ {x})
            BY <2>1, TotalTakes
        <3>5. Total(g, Im(T)) = g[n[x]] + Total(g, Im(T) \ {n[x]})
            <4>1. \A y \in Im(T) : g[y] \in Nat
                OBVIOUS
            <4> HIDE DEF Im
            <4> QED
                BY <3>3, <3>6, <4>1, TotalTakes
        <3> QED
            BY <3>2, <3>3, <3>4, <3>5, <3>6
    <2> QED
        BY <2>3, <2>4
<1> HIDE DEF G
<1>2. SUBSET S \subseteq G
    BY <1>1, SubsetsAllGood
<1>3. S \in G
    BY <1>2
<1> QED
    BY <1>3 DEF G

\* What two functions that agree on a set sum up to there.
LEMMA TotalSame ==
    ASSUME NEW S, IsFiniteSet(S), NEW f, NEW g, \A x \in S : f[x] = g[x] /\ g[x] \in Nat
    PROVE  Total(f, S) = Total(g, S)
<1> DEFINE n == [x \in S |-> x]
<1>1. \A x \in S : f[x] = g[n[x]] /\ g[n[x]] \in Nat
    OBVIOUS
<1>2. \A x, y \in S : n[x] = n[y] => x = y
    OBVIOUS
<1>3. {n[x] : x \in S} = S
    OBVIOUS
<1>4. Renamed(f, S, g, S, n)
    BY <1>1, <1>2, <1>3 DEF Renamed
<1> QED
    BY <1>4, TotalRenamed

\* One value more, or another one.
LEMMA TotalGrows ==
    ASSUME NEW S, IsFiniteSet(S), NEW f, NEW x, x \notin S,
           \A y \in S \cup {x} : f[y] \in Nat
    PROVE  Total(f, S \cup {x}) = Total(f, S) + f[x]
<1> DEFINE T == S \cup {x}
<1>1. IsFiniteSet(T) /\ x \in T /\ T \ {x} = S /\ \A y \in T : f[y] \in Nat
    BY FS_AddElement
<1> HIDE DEF T
<1>2. Total(f, T) = f[x] + Total(f, S)
    BY <1>1, TotalTakes
<1>3. Total(f, S) \in Nat
    BY TotalTakes
<1> QED
    BY <1>1, <1>2, <1>3 DEF T

-----------------------------------------------------------------------------
(* The bytes of a queue.                                                    *)

LEMMA BytesAreTotal == \A f : Bytes(f) = Total(f, DOMAIN f)
BY DEF Bytes, SumFunction, Total

LEMMA SeqDomain ==
    ASSUME NEW q \in Seq(Nat)
    PROVE  /\ DOMAIN q = 1..Len(q) /\ IsFiniteSet(1..Len(q)) /\ Len(q) \in Nat
           /\ \A i \in 1..Len(q) : q[i] \in Nat
<1>1. Len(q) \in Nat /\ DOMAIN q = 1..Len(q) /\ \A i \in 1..Len(q) : q[i] \in Nat
    BY ElementOfSeq, LenProperties
<1> QED
    BY <1>1, FS_Interval

LEMMA BytesType ==
    ASSUME NEW q \in Seq(Nat)
    PROVE  Bytes(q) \in Nat
BY SeqDomain, BytesAreTotal, TotalTakes

LEMMA BytesOfNothing == Bytes(<<>>) = 0
<1>1. <<>> \in Seq(Nat) /\ DOMAIN (<<>>) = {}
    OBVIOUS
<1>2. IsFiniteSet({})
    BY FS_EmptySet
<1>3. Total(<<>>, {}) = 0
    BY <1>2, TotalPicks
<1> QED
    BY <1>1, <1>3, BytesAreTotal

LEMMA BytesAppended ==
    ASSUME NEW q \in Seq(Nat), NEW n \in Nat
    PROVE  Bytes(Append(q, n)) = Bytes(q) + n
<1> DEFINE p == Append(q, n)
           S == 1..Len(q)
           k == Len(q) + 1
<1>1. /\ p \in Seq(Nat) /\ Len(p) = k /\ p[k] = n /\ \A i \in S : p[i] = q[i]
    BY AppendProperties
<1>2. k \notin S /\ IsFiniteSet(S) /\ 1..k = S \cup {k} /\ DOMAIN q = S
    BY SeqDomain
<1>3. DOMAIN p = 1..k /\ \A i \in 1..k : p[i] \in Nat
    BY <1>1, SeqDomain
<1>4. \A i \in S : q[i] \in Nat
    BY SeqDomain
<1> HIDE DEF p, S, k
<1>5. Total(p, S \cup {k}) = Total(p, S) + p[k]
    BY <1>2, <1>3, TotalGrows
<1>6. Total(p, S) = Total(q, S)
    BY <1>1, <1>2, <1>4, TotalSame
<1>7. Bytes(p) = Total(p, S \cup {k}) /\ Bytes(q) = Total(q, S)
    BY <1>2, <1>3, BytesAreTotal
<1> QED
    BY <1>1, <1>5, <1>6, <1>7 DEF p

LEMMA BytesTaken ==
    ASSUME NEW q \in Seq(Nat), q # <<>>
    PROVE  Bytes(q) = Head(q) + Bytes(Tail(q))
<1> DEFINE t == Tail(q)
           S == 1..Len(t)
           n == [i \in S |-> i + 1]
           L == 1..Len(q)
<1>1. /\ t \in Seq(Nat) /\ Len(t) = Len(q) - 1 /\ \A i \in S : t[i] = q[i + 1]
      /\ Head(q) = q[1] /\ Len(q) >= 1
    BY HeadTailProperties, EmptySeq, LenProperties
<1>2. IsFiniteSet(S) /\ IsFiniteSet(L) /\ DOMAIN t = S /\ DOMAIN q = L
    BY <1>1, SeqDomain
<1>3. \A i \in L : q[i] \in Nat
    BY SeqDomain
<1>4. {n[i] : i \in S} = L \ {1}
    <2>1. ASSUME NEW j \in L \ {1} PROVE j - 1 \in S /\ n[j - 1] = j
        BY <1>1, SeqDomain
    <2>2. \A i \in S : n[i] \in L \ {1}
        BY <1>1, SeqDomain
    <2> HIDE DEF n, S, L
    <2> QED
        BY <2>1, <2>2
<1>5. \A i \in S : t[i] = q[n[i]] /\ q[n[i]] \in Nat
    BY <1>1, <1>3, SeqDomain
<1>6. \A i, j \in S : n[i] = n[j] => i = j
    BY <1>1, SeqDomain
<1>7. 1 \in L
    BY <1>1, SeqDomain
<1> HIDE DEF t, S, n, L
<1>8. Renamed(t, S, q, L \ {1}, n)
    BY <1>4, <1>5, <1>6 DEF Renamed
<1>9. Total(q, L) = q[1] + Total(q, L \ {1})
    BY <1>2, <1>3, <1>7, TotalTakes
<1>10. Total(t, S) = Total(q, L \ {1})
    BY <1>2, <1>8, TotalRenamed
<1> QED
    BY <1>1, <1>2, <1>9, <1>10, BytesAreTotal DEF t

-----------------------------------------------------------------------------
(* The bytes: what is counted for a writer is what its queue, its hand and   *)
(* its requests hold, and a record has its place before it has its bytes.    *)

ByteTypes ==
    /\ queue \in [Writers -> Seq(Nat)] /\ first \in [Writers -> Nat]
    /\ reserved \in [Requests -> Nat]
    /\ request \in [Requests -> RequestStates]
    /\ uses \in [Requests -> Writers \cup {NONE}]
    /\ writer \in [Writers -> WriterStates]

LEMMA ByteTypesHold == /\ IInv => ByteTypes
                       /\ IInv' => ByteTypes'
<1>1. [Writers -> Seq(Nat \ {0})] \subseteq [Writers -> Seq(Nat)]
    <2>1. Seq(Nat \ {0}) \subseteq Seq(Nat)
        BY SeqDef
    <2> QED
        BY <2>1
<1> QED
    BY <1>1 DEF IInv, LockInv, LockTypes, RecordInv, RecordTypes, ByteTypes

Users(w) == {r \in Requests : uses[r] = w}
Reserved(w) == Total(reserved, Users(w))

OnlyEncodersReserve ==
    \A r \in Requests : request[r] \notin {"encoding", "sending"} => reserved[r] = 0
HandsEmptied ==
    \A w \in Writers : writer[w] \in {"closing", "flushing", "done", "cancelled"} => first[w] = 0

Counted(w) ==
    /\ used[w] = Bytes(queue[w]) + first[w] + Reserved(w)
    /\ used[w] <= RECORD_QUEUE_BYTES
    /\ Len(queue[w]) + Cardinality(InFlight(w)) <= RECORD_QUEUE_CAPACITY

ByteInv ==
    /\ used \in [Writers -> Nat]
    /\ OnlyEncodersReserve /\ HandsEmptied
    /\ \A w \in Writers : Counted(w)


\* What is worth nothing may be left out of a sum.
LEMMA TotalWithout ==
    ASSUME NEW S, IsFiniteSet(S), NEW f, \A y \in S : f[y] \in Nat, NEW x, x \in S => f[x] = 0
    PROVE  Total(f, S) = Total(f, S \ {x})
<1>1. CASE x \in S
    <2>1. Total(f, S) = f[x] + Total(f, S \ {x})
        BY <1>1, TotalTakes
    <2>2. IsFiniteSet(S \ {x}) /\ \A y \in S \ {x} : f[y] \in Nat
        BY FS_RemoveElement
    <2>3. Total(f, S \ {x}) \in Nat
        <3> DEFINE R == S \ {x}
        <3> HIDE DEF R
        <3> QED
            BY <2>2, TotalTakes DEF R
    <2> QED
        BY <1>1, <2>1, <2>3
<1>2. CASE x \notin S
    <2>1. S \ {x} = S
        BY <1>2
    <2> QED
        BY <2>1
<1> QED
    BY <1>1, <1>2

LEMMA TotalOfZeros ==
    ASSUME NEW S, IsFiniteSet(S), NEW f, \A x \in S : f[x] = 0
    PROVE  Total(f, S) = 0
<1> DEFINE G == {T \in SUBSET S : Total(f, T) = 0}
<1>1. ASSUME NEW T \in SUBSET S, \A U \in SUBSET T : U # T => U \in G
      PROVE  T \in G
    <2>1. IsFiniteSet(T)
        BY FS_Subset
    <2>2. T # {} => Pick(T) \in T
        BY PickIn
    <2>3. T # {} => T \ {Pick(T)} \in G
        BY <1>1, <2>2
    <2> QED
        BY <2>1, <2>2, <2>3, TotalPicks
<1> HIDE DEF G
<1>2. SUBSET S \subseteq G
    BY <1>1, SubsetsAllGood
<1>3. S \in G
    BY <1>2
<1> QED
    BY <1>3 DEF G

LEMMA UsersFinite ==
    \A w : /\ IsFiniteSet(Users(w)) /\ IsFiniteSet(InFlight(w))
           /\ IsFiniteSet(Users(w))' /\ IsFiniteSet(InFlight(w))'
           /\ Cardinality(InFlight(w)) \in Nat
<1>1. \A w : /\ Users(w) \subseteq Requests /\ InFlight(w) \subseteq Requests
             /\ Users(w)' \subseteq Requests /\ InFlight(w)' \subseteq Requests
    BY DEF Users, InFlight
<1>2. IsFiniteSet(Requests)
    BY CaptureAssumption
<1>3. \A w : IsFiniteSet(Users(w)) /\ IsFiniteSet(InFlight(w))
    BY <1>1, <1>2, FS_Subset
<1>4. \A w : IsFiniteSet(Users(w)') /\ IsFiniteSet(InFlight(w)')
    BY <1>1, <1>2, FS_Subset
<1> QED
    BY <1>3, <1>4, FS_CardinalityType

\* A request that has reserved nothing comes and goes unnoticed.
LEMMA ReservedMoves ==
    ASSUME ByteTypes, NEW r \in Requests, UNCHANGED reserved, reserved[r] = 0,
           \A q \in Requests \ {r} : uses'[q] = uses[q]
    PROVE  \A w : Reserved(w)' = Reserved(w)
<1> SUFFICES ASSUME NEW w PROVE Reserved(w)' = Reserved(w)
    OBVIOUS
<1> DEFINE A == Users(w)
           B == Users(w)'
<1>1. /\ A \subseteq Requests /\ B \subseteq Requests /\ A \ {r} = B \ {r}
      /\ \A q \in Requests : reserved[q] \in Nat
    BY DEF Users, ByteTypes
<1>2. IsFiniteSet(A) /\ IsFiniteSet(B)
    BY UsersFinite
<1>3. Reserved(w) = Total(reserved, A) /\ Reserved(w)' = Total(reserved, B)
    BY DEF Reserved
<1> HIDE DEF A, B
<1>4. Total(reserved, A) = Total(reserved, A \ {r})
    BY <1>1, <1>2, TotalWithout
<1>5. Total(reserved, B) = Total(reserved, B \ {r})
    BY <1>1, <1>2, TotalWithout
<1> QED
    BY <1>1, <1>3, <1>4, <1>5

\* What a request reserves or gives back is its writer's.
LEMMA ReservedChanges ==
    ASSUME ByteTypes, ByteTypes', NEW r \in Requests, UNCHANGED uses,
           \A q \in Requests \ {r} : reserved'[q] = reserved[q]
    PROVE  /\ \A w : w # uses[r] => Reserved(w)' = Reserved(w)
           /\ \E rest \in Nat : /\ Reserved(uses[r]) = rest + reserved[r]
                                /\ Reserved(uses[r])' = rest + reserved'[r]
<1> DEFINE u == uses[r]
<1>1. \A q \in Requests : reserved[q] \in Nat /\ reserved'[q] \in Nat
    BY DEF ByteTypes
<1>2. u' = u /\ \A q \in Requests \ {r} : reserved'[q] = reserved[q]
    OBVIOUS
<1>3. \A w : /\ Users(w)' = Users(w) /\ IsFiniteSet(Users(w))
             /\ Users(w) \subseteq Requests /\ (r \in Users(w) <=> w = u)
    BY UsersFinite DEF Users
<1> HIDE DEF u
<1>4. ASSUME NEW w, w # u PROVE Reserved(w)' = Reserved(w)
    <2>1. \A q \in Users(w) : reserved'[q] = reserved[q] /\ reserved[q] \in Nat
        BY <1>1, <1>2, <1>3, <1>4
    <2>2. Total(reserved', Users(w)) = Total(reserved, Users(w))
        BY <1>3, <2>1, TotalSame
    <2> QED
        BY <1>3, <2>2 DEF Reserved
<1>5. \E rest \in Nat : /\ Reserved(u) = rest + reserved[r]
                         /\ Reserved(u)' = rest + reserved'[r]
    <2> DEFINE S == Users(u)
               R == S \ {r}
    <2>1. /\ IsFiniteSet(S) /\ IsFiniteSet(R) /\ r \in S
          /\ \A q \in S : reserved[q] \in Nat /\ reserved'[q] \in Nat
          /\ \A q \in R : reserved'[q] = reserved[q] /\ reserved[q] \in Nat
        BY <1>1, <1>2, <1>3, FS_RemoveElement
    <2>2. Reserved(u) = Total(reserved, S) /\ Reserved(u)' = Total(reserved', S)
        BY <1>2, <1>3 DEF Reserved
    <2>3. reserved'[r] \in Nat /\ reserved[r] \in Nat
        BY <1>1
    <2> HIDE DEF S
    <2>4. Total(reserved, S) = reserved[r] + Total(reserved, R)
        BY <2>1, TotalTakes
    <2>5. Total(reserved', S) = reserved'[r] + Total(reserved', R)
        BY <2>1, TotalTakes
    <2> HIDE DEF R
    <2>6. Total(reserved', R) = Total(reserved, R) /\ Total(reserved, R) \in Nat
        BY <2>1, TotalSame, TotalTakes
    <2> QED
        BY <2>2, <2>3, <2>4, <2>5, <2>6
<1> QED
    BY <1>2, <1>4, <1>5 DEF u

LEMMA ReservedType == /\ ByteTypes => \A w : Reserved(w) \in Nat
                      /\ ByteTypes' => \A w : Reserved(w)' \in Nat
<1>1. ASSUME ByteTypes, NEW w PROVE Reserved(w) \in Nat
    <2>1. \A q \in Users(w) : reserved[q] \in Nat
        BY <1>1 DEF ByteTypes, Users
    <2> QED
        BY <2>1, UsersFinite, TotalTakes DEF Reserved
<1>2. ASSUME ByteTypes', NEW w PROVE Reserved(w)' \in Nat
    <2>1. \A q \in Users(w)' : reserved'[q] \in Nat
        BY <1>2 DEF ByteTypes, Users
    <2>2. Total(reserved', Users(w)') \in Nat
        BY <2>1, UsersFinite, TotalTakes
    <2> QED
        BY <2>2 DEF Reserved
<1> QED
    BY <1>1, <1>2

Encoding == {"encoding", "sending"}

\* A request that neither has a record nor gets one.
LEMMA AtRest ==
    ASSUME ByteTypes, OnlyEncodersReserve, NEW r \in Requests, UNCHANGED reserved,
           request[r] \notin Encoding, request'[r] \notin Encoding,
           \A q \in Requests \ {r} : request'[q] = request[q] /\ uses'[q] = uses[q]
    PROVE  /\ \A w : Reserved(w)' = Reserved(w) /\ InFlight(w)' = InFlight(w)
           /\ OnlyEncodersReserve'
<1>1. reserved[r] = 0
    BY DEF OnlyEncodersReserve, Encoding
<1>2. \A w : Reserved(w)' = Reserved(w)
    BY <1>1, ReservedMoves
<1>3. \A w : InFlight(w)' = InFlight(w)
    BY DEF InFlight, Encoding
<1>4. OnlyEncodersReserve'
    BY <1>1 DEF OnlyEncodersReserve
<1> QED
    BY <1>2, <1>3, <1>4

LEMMA InFlightChanges ==
    ASSUME ByteTypes, NEW r \in Requests, NEW u, uses[r] = u, UNCHANGED uses,
           NEW s \in RequestStates, request' = [request EXCEPT ![r] = s]
    PROVE  /\ \A w : w # u => InFlight(w)' = InFlight(w)
           /\ s \in Encoding /\ request[r] \notin Encoding
                => Cardinality(InFlight(u))' = Cardinality(InFlight(u)) + 1
           /\ s \notin Encoding /\ request[r] \in Encoding
                => Cardinality(InFlight(u))' = Cardinality(InFlight(u)) - 1
           /\ (s \in Encoding <=> request[r] \in Encoding)
                => InFlight(u)' = InFlight(u)
<1> DEFINE F == InFlight(u)
<1>1. IsFiniteSet(F) /\ Cardinality(F) \in Nat
    BY UsersFinite
<1>2. /\ \A w : w # u => InFlight(w)' = InFlight(w)
      /\ request[r] \in Encoding <=> r \in F
      /\ (s \in Encoding <=> request[r] \in Encoding) => InFlight(u)' = F
      /\ s \in Encoding => InFlight(u)' = F \cup {r}
      /\ s \notin Encoding => InFlight(u)' = F \ {r}
    BY DEF ByteTypes, InFlight, Encoding
<1> HIDE DEF F
<1>3. r \notin F => Cardinality(F \cup {r}) = Cardinality(F) + 1
    BY <1>1, FS_AddElement
<1>4. r \in F => Cardinality(F \ {r}) = Cardinality(F) - 1
    BY <1>1, FS_RemoveElement
<1> QED
    BY <1>2, <1>3, <1>4 DEF F

\* The parts a step has to be checked for.
LEMMA ByteFrame ==
    ASSUME ByteInv, ByteTypes, ByteTypes', UNCHANGED <<used, queue, first>>,
           OnlyEncodersReserve', HandsEmptied',
           \A w : Reserved(w)' = Reserved(w) /\ InFlight(w)' = InFlight(w)
    PROVE  ByteInv'
BY DEF ByteInv, Counted

LEMMA ByteCommand == IInv /\ IInv' /\ ByteInv /\ Command => ByteInv'
<1> SUFFICES ASSUME IInv, IInv', ByteInv, Command PROVE ByteInv'
    OBVIOUS
<1>1. UNCHANGED <<request, uses, reserved, writer, queue, first, used>>
    BY DEF Command, EnableCapture, WriteEnabled, EnablingFails, Disable, PurgeDisables, PurgeLocks,
        PurgeRemoves, PurgeFails, PurgeUnlocks, storage, producers, task, admission
<1>2. \A w : Reserved(w)' = Reserved(w) /\ InFlight(w)' = InFlight(w)
    BY <1>1 DEF Reserved, Users, InFlight
<1>3. OnlyEncodersReserve' /\ HandsEmptied'
    BY <1>1 DEF ByteInv, OnlyEncodersReserve, HandsEmptied
<1> QED
    BY <1>1, <1>2, <1>3, ByteFrame, ByteTypesHold

LEMMA ByteStart ==
    ASSUME IInv, IInv', ByteInv, NEW r \in Requests,
           \/ Begin(r) \/ JoinWriter(r) \/ \E w \in Writers : MakeDirectory(r, w)
           \/ LockShared(r) \/ OpenFile(r) \/ CannotStart(r) \/ MarkIncomplete(r)
    PROVE  ByteInv'
<1> USE ByteTypesHold DEF commands, storage, producers, task, admission
<1>1. UNCHANGED <<reserved, queue, first, used>>
    BY DEF Begin, JoinWriter, MakeDirectory, LockShared, OpenFile, CannotStart, MarkIncomplete
<1>2. /\ request[r] \notin Encoding /\ request'[r] \notin Encoding
      /\ \A q \in Requests \ {r} : request'[q] = request[q] /\ uses'[q] = uses[q]
    BY DEF Begin, JoinWriter, MakeDirectory, LockShared, OpenFile, CannotStart, MarkIncomplete,
        ByteTypes, Encoding
<1>3. HandsEmptied'
    <2>1. \A w \in Writers :
            writer'[w] = writer[w] \/ writer'[w] \in {"unborn", "starting", "receiving"}
        BY DEF Begin, JoinWriter, MakeDirectory, LockShared, OpenFile, CannotStart,
            MarkIncomplete, ByteTypes
    <2> QED
        BY <1>1, <2>1 DEF ByteInv, HandsEmptied
<1>4. /\ \A w : Reserved(w)' = Reserved(w) /\ InFlight(w)' = InFlight(w)
      /\ OnlyEncodersReserve'
    BY <1>1, <1>2, AtRest DEF ByteInv
<1> QED
    BY <1>1, <1>3, <1>4, ByteFrame

LEMMA ByteOffer ==
    ASSUME IInv, IInv', ByteInv, NEW r \in Requests, NEW p \in Payloads, OfferRecord(r, p)
    PROVE  ByteInv'
<1> USE DEF commands, storage, task
<1> ByteTypes /\ ByteTypes'
    BY ByteTypesHold
<1>1. PICK u \in Writers : uses[r] = u
    <2>1. request[r] = "open"
        BY DEF OfferRecord
    <2> QED
        BY <2>1, CaptureAssumption DEF ByteTypes, IInv, LockInv, UsesInPlace
<1>2. /\ request[r] = "open" /\ UNCHANGED <<uses, queue, first, writer>>
      /\ Counted(u) /\ Len(queue[u]) \in Nat /\ Cardinality(InFlight(u)) \in Nat
      /\ used[u] \in Nat /\ Bytes(queue[u]) \in Nat /\ first[u] \in Nat
    <2>1. queue[u] \in Seq(Nat) /\ first[u] \in Nat
        BY DEF ByteTypes
    <2> QED
        BY <2>1, BytesType, SeqDomain, UsersFinite DEF OfferRecord, ByteInv
<1>3. HandsEmptied'
    BY <1>2 DEF ByteInv, HandsEmptied
<1>4. CASE ~admits(u, p)
    <2>1. request' = [request EXCEPT ![r] = "refused"] /\ UNCHANGED <<reserved, used>>
        BY <1>1, <1>4 DEF OfferRecord
    <2>2. /\ \A w : Reserved(w)' = Reserved(w) /\ InFlight(w)' = InFlight(w)
          /\ OnlyEncodersReserve'
        BY <1>2, <2>1, AtRest DEF ByteInv, Encoding, ByteTypes
    <2> QED
        BY <1>2, <1>3, <2>1, <2>2, ByteFrame
<1>5. CASE admits(u, p)
    <2> DEFINE n == needed(p)
    <2>1. n \in Nat
        BY CaptureAssumption DEF needed, output_limit
    <2>2. /\ request' = [request EXCEPT ![r] = "encoding"]
          /\ reserved' = [reserved EXCEPT ![r] = n]
          /\ used' = [used EXCEPT ![u] = @ + n]
          /\ used[u] + n <= RECORD_QUEUE_BYTES
          /\ Len(queue[u]) + Cardinality(InFlight(u)) < RECORD_QUEUE_CAPACITY
        BY <1>1, <1>5 DEF OfferRecord, admits
    <2> HIDE DEF n
    <2>3. reserved[r] = 0
        BY <1>2 DEF ByteInv, OnlyEncodersReserve
    <2>4. /\ \A w : w # u => Reserved(w)' = Reserved(w)
          /\ \E rest \in Nat : Reserved(u) = rest + reserved[r] /\ Reserved(u)' = rest + n
        <3>1. reserved'[r] = n /\ \A q \in Requests \ {r} : reserved'[q] = reserved[q]
            BY <2>2 DEF ByteTypes
        <3>2. /\ \A w : w # uses[r] => Reserved(w)' = Reserved(w)
              /\ \E rest \in Nat : /\ Reserved(uses[r]) = rest + reserved[r]
                                   /\ Reserved(uses[r])' = rest + reserved'[r]
            BY <1>2, <3>1, ReservedChanges
        <3> QED
            BY <1>1, <1>2, <3>1, <3>2
    <2>5. /\ \A w : w # u => InFlight(w)' = InFlight(w)
          /\ Cardinality(InFlight(u))' = Cardinality(InFlight(u)) + 1
        BY <1>1, <1>2, <2>2, InFlightChanges DEF Encoding, RequestStates
    <2>6. used' \in [Writers -> Nat] /\ used'[u] = used[u] + n
        BY <2>1, <2>2 DEF ByteInv
    <2>7. Counted(u)'
        <3>1. Reserved(u)' = Reserved(u) + n
            BY <2>3, <2>4
        <3>2. /\ used'[u] = Bytes(queue[u]) + first[u] + Reserved(u)'
              /\ used'[u] <= RECORD_QUEUE_BYTES
            BY <1>2, <2>1, <2>2, <2>6, <3>1, ReservedType DEF Counted
        <3>3. Len(queue[u]) + Cardinality(InFlight(u))' <= RECORD_QUEUE_CAPACITY
            BY <1>2, <2>2, <2>5, CaptureAssumption
        <3> QED
            BY <1>2, <3>2, <3>3 DEF Counted
    <2>8. ASSUME NEW w \in Writers, w # u PROVE Counted(w)'
        BY <1>2, <2>2, <2>4, <2>5, <2>8 DEF Counted, ByteInv
    <2>9. OnlyEncodersReserve'
        BY <2>2 DEF ByteInv, OnlyEncodersReserve, ByteTypes
    <2> QED
        BY <1>3, <2>6, <2>7, <2>8, <2>9 DEF ByteInv
<1> QED
    BY <1>4, <1>5

\* The numbers a step on one writer's books is about.
LEMMA Numbers ==
    ASSUME ByteInv, ByteTypes, NEW w \in Writers
    PROVE  /\ Counted(w) /\ used[w] \in Nat /\ queue[w] \in Seq(Nat)
           /\ Bytes(queue[w]) \in Nat /\ Len(queue[w]) \in Nat /\ first[w] \in Nat
           /\ Reserved(w) \in Nat /\ Cardinality(InFlight(w)) \in Nat
           /\ used[w] = Bytes(queue[w]) + first[w] + Reserved(w)
           /\ used[w] <= RECORD_QUEUE_BYTES /\ RECORD_QUEUE_BYTES \in Nat
           /\ Len(queue[w]) + Cardinality(InFlight(w)) <= RECORD_QUEUE_CAPACITY
           /\ RECORD_QUEUE_CAPACITY \in Nat
<1>1. queue[w] \in Seq(Nat) /\ first[w] \in Nat
    BY DEF ByteTypes
<1> QED
    BY <1>1, BytesType, SeqDomain, UsersFinite, ReservedType, CaptureAssumption
       DEF ByteInv, Counted

LEMMA ByteEncode ==
    ASSUME IInv, IInv', ByteInv, NEW r \in Requests,
           EncodingFails(r) \/ \E n \in Encodings : EncodeRecord(r, n)
    PROVE  ByteInv'
<1> ByteTypes /\ ByteTypes'
    BY ByteTypesHold
<1> DEFINE m == reserved'[r]
           old == reserved[r]
<1>1. PICK u \in Writers : uses[r] = u
    <2>1. request[r] = "encoding"
        BY DEF EncodingFails, EncodeRecord
    <2> QED
        BY <2>1, CaptureAssumption DEF ByteTypes, IInv, LockInv, UsesInPlace
<1>2. PICK s \in {"sending", "refused"} :
        /\ request' = [request EXCEPT ![r] = s]
        /\ m \in Nat /\ old \in Nat /\ m <= old
        /\ s = "refused" => m = 0
        /\ used' \in [Writers -> Int] /\ used'[u] = used[u] - (old - m)
        /\ \A w \in Writers : w # u => used'[w] = used[w]
    <2>1. CASE EncodingFails(r)
        <3>1. m = 0 /\ old \in Nat
            BY <2>1 DEF EncodingFails, ByteTypes
        <3>2. used' = [used EXCEPT ![u] = @ - old] /\ used \in [Writers -> Nat]
            BY <1>1, <2>1 DEF EncodingFails, ByteInv
        <3>3. request' = [request EXCEPT ![r] = "refused"]
            BY <2>1 DEF EncodingFails
        <3> HIDE DEF m, old
        <3>4. /\ used' \in [Writers -> Int] /\ used'[u] = used[u] - (old - m)
              /\ \A w \in Writers : w # u => used'[w] = used[w]
            BY <3>1, <3>2
        <3> QED
            BY <3>1, <3>3, <3>4
    <2>2. ASSUME NEW n \in Encodings, EncodeRecord(r, n)
          PROVE  /\ request' = [request EXCEPT ![r] = "sending"]
                 /\ m \in Nat /\ old \in Nat /\ m <= old
                 /\ used' \in [Writers -> Int] /\ used'[u] = used[u] - (old - m)
                 /\ \A w \in Writers : w # u => used'[w] = used[w]
        <3>1. m = n + METADATA /\ old \in Nat /\ m \in Nat
            BY <2>2, CaptureAssumption DEF EncodeRecord, ByteTypes
        <3>2. /\ used' = [used EXCEPT ![u] = @ - (old - (n + METADATA))]
              /\ used \in [Writers -> Nat]
            BY <1>1, <2>2 DEF EncodeRecord, ByteInv
        <3>3. m <= old /\ request' = [request EXCEPT ![r] = "sending"]
            BY <2>2, <3>1 DEF EncodeRecord
        <3> HIDE DEF m, old
        <3>4. n + METADATA = m
            BY <3>1
        <3>5. /\ used' \in [Writers -> Int] /\ used'[u] = used[u] - (old - m)
              /\ \A w \in Writers : w # u => used'[w] = used[w]
            BY <3>1, <3>2, <3>4
        <3> QED
            BY <3>1, <3>3, <3>5
    <2> QED
        BY <2>1, <2>2
<1>3. /\ \A q \in Requests \ {r} : reserved'[q] = reserved[q]
      /\ request[r] = "encoding" /\ UNCHANGED <<uses, queue, first, writer>>
    BY DEF EncodingFails, EncodeRecord, task, ByteTypes
<1>4. /\ \A w : w # u => Reserved(w)' = Reserved(w)
      /\ \E rest \in Nat : Reserved(u) = rest + old /\ Reserved(u)' = rest + m
    BY <1>1, <1>3, ReservedChanges
<1>5. /\ \A w : w # u => InFlight(w)' = InFlight(w)
      /\ Cardinality(InFlight(u))' <= Cardinality(InFlight(u))
      /\ Cardinality(InFlight(u))' \in Int
    <2>1. \A w : w # u => InFlight(w)' = InFlight(w)
        BY <1>1, <1>2, <1>3, InFlightChanges DEF RequestStates
    <2>2. Cardinality(InFlight(u))' = Cardinality(InFlight(u))
            \/ Cardinality(InFlight(u))' = Cardinality(InFlight(u)) - 1
        BY <1>1, <1>2, <1>3, InFlightChanges DEF Encoding, RequestStates
    <2>3. Cardinality(InFlight(u)) \in Nat
        BY UsersFinite
    <2> QED
        BY <2>1, <2>2, <2>3
<1> HIDE DEF m, old
<1>7. Counted(u)' /\ used'[u] \in Nat
    <2> /\ Len(queue[u]) \in Nat /\ Cardinality(InFlight(u)) \in Nat
        /\ Len(queue[u]) + Cardinality(InFlight(u)) <= RECORD_QUEUE_CAPACITY
        /\ RECORD_QUEUE_CAPACITY \in Nat
        BY Numbers
    <2>0. /\ used[u] \in Nat /\ Bytes(queue[u]) \in Nat
          /\ first[u] \in Nat /\ Reserved(u) \in Nat
          /\ used[u] = Bytes(queue[u]) + first[u] + Reserved(u)
          /\ used[u] <= RECORD_QUEUE_BYTES /\ RECORD_QUEUE_BYTES \in Nat
        BY Numbers
    <2>1. /\ used'[u] = Bytes(queue[u]) + first[u] + Reserved(u)'
          /\ used'[u] <= RECORD_QUEUE_BYTES /\ used'[u] \in Nat
        <3>1. PICK rest \in Nat : Reserved(u) = rest + old /\ Reserved(u)' = rest + m
            BY <1>4
        <3>2. used'[u] = used[u] - (old - m) /\ m \in Nat /\ old \in Nat /\ m <= old
            BY <1>2
        <3>3. used'[u] = Bytes(queue[u]) + first[u] + (rest + m)
            BY ONLY <2>0, <3>1, <3>2
        <3>4. used'[u] \in Nat
            BY ONLY <2>0, <3>2, <3>3, rest \in Nat
        <3>5. used'[u] <= used[u]
            BY ONLY <2>0, <3>2
        <3> QED
            BY ONLY <2>0, <3>1, <3>3, <3>4, <3>5
    <2>2. Len(queue[u]) + Cardinality(InFlight(u))' <= RECORD_QUEUE_CAPACITY
        BY <1>5
    <2> QED
        BY <1>3, <2>1, <2>2 DEF Counted
<1>8. ASSUME NEW w \in Writers, w # u PROVE Counted(w)'
    BY <1>2, <1>3, <1>4, <1>5, <1>8, Numbers DEF Counted
<1>9. used' \in [Writers -> Nat]
    BY <1>2, <1>7, Numbers
<1>10. OnlyEncodersReserve' /\ HandsEmptied'
    BY <1>2, <1>3 DEF ByteInv, OnlyEncodersReserve, HandsEmptied, ByteTypes, m
<1> QED
    BY <1>7, <1>8, <1>9, <1>10 DEF ByteInv

LEMMA ByteSend ==
    ASSUME IInv, IInv', ByteInv, NEW r \in Requests, SendRecord(r)
    PROVE  ByteInv'
<1> ByteTypes /\ ByteTypes'
    BY ByteTypesHold
<1>1. PICK u \in Writers : uses[r] = u
    <2>1. request[r] = "sending"
        BY DEF SendRecord
    <2> QED
        BY <2>1, CaptureAssumption DEF ByteTypes, IInv, LockInv, UsesInPlace
<1>2. /\ request[r] = "sending" /\ request' = [request EXCEPT ![r] = "open"]
      /\ queue'[u] = Append(queue[u], reserved[r])
      /\ \A w \in Writers : w # u => queue'[w] = queue[w]
      /\ reserved'[r] = 0 /\ \A q \in Requests \ {r} : reserved'[q] = reserved[q]
      /\ UNCHANGED <<uses, used, first, writer>>
    BY <1>1 DEF SendRecord, task, ByteTypes
<1>3. /\ \A w : w # u => Reserved(w)' = Reserved(w)
      /\ \E rest \in Nat : Reserved(u) = rest + reserved[r] /\ Reserved(u)' = rest
    <2>1. /\ \A w : w # uses[r] => Reserved(w)' = Reserved(w)
          /\ \E rest \in Nat : /\ Reserved(uses[r]) = rest + reserved[r]
                               /\ Reserved(uses[r])' = rest + reserved'[r]
        BY <1>2, ReservedChanges
    <2> QED
        BY <1>1, <1>2, <2>1
<1>4. /\ \A w : w # u => InFlight(w)' = InFlight(w)
      /\ Cardinality(InFlight(u))' = Cardinality(InFlight(u)) - 1
    BY <1>1, <1>2, InFlightChanges DEF Encoding, RequestStates
<1>5. reserved[r] \in Nat
    BY DEF ByteTypes
<1>6. /\ Bytes(queue'[u]) = Bytes(queue[u]) + reserved[r]
      /\ Len(queue'[u]) = Len(queue[u]) + 1
    <2>1. queue[u] \in Seq(Nat)
        BY Numbers
    <2>2. Bytes(Append(queue[u], reserved[r])) = Bytes(queue[u]) + reserved[r]
        BY <1>5, <2>1, BytesAppended
    <2>3. Len(Append(queue[u], reserved[r])) = Len(queue[u]) + 1
        BY <1>5, <2>1, AppendProperties
    <2> QED
        BY <1>2, <2>2, <2>3
<1>7. Counted(u)'
    <2> /\ Len(queue[u]) \in Nat /\ Cardinality(InFlight(u)) \in Nat
        /\ Len(queue[u]) + Cardinality(InFlight(u)) <= RECORD_QUEUE_CAPACITY
        /\ RECORD_QUEUE_CAPACITY \in Nat
        BY Numbers
    <2>0. /\ used[u] \in Nat /\ Bytes(queue[u]) \in Nat
          /\ first[u] \in Nat /\ Reserved(u) \in Nat
          /\ used[u] = Bytes(queue[u]) + first[u] + Reserved(u)
          /\ used[u] <= RECORD_QUEUE_BYTES /\ RECORD_QUEUE_BYTES \in Nat
        BY Numbers
    <2>1. used[u] = Bytes(queue'[u]) + first[u] + Reserved(u)'
        <3>1. PICK rest \in Nat : Reserved(u) = rest + reserved[r] /\ Reserved(u)' = rest
            BY <1>3
        <3>2. used[u] = Bytes(queue[u]) + first[u] + (rest + reserved[r])
            BY <2>0, <3>1
        <3>3. used[u] = (Bytes(queue[u]) + reserved[r]) + first[u] + rest
            BY ONLY <1>5, <2>0, <3>2, rest \in Nat
        <3> QED
            BY <1>6, <3>1, <3>3
    <2>2. Len(queue'[u]) + Cardinality(InFlight(u))' <= RECORD_QUEUE_CAPACITY
        BY <1>4, <1>6
    <2> QED
        <3>1. used'[u] = used[u] /\ first'[u] = first[u]
            BY <1>2
        <3> QED
            BY <2>0, <2>1, <2>2, <3>1 DEF Counted
<1>8. ASSUME NEW w \in Writers, w # u PROVE Counted(w)'
    BY <1>2, <1>3, <1>4, <1>8, Numbers DEF Counted
<1>9. OnlyEncodersReserve' /\ HandsEmptied'
    BY <1>2 DEF ByteInv, OnlyEncodersReserve, HandsEmptied, ByteTypes
<1> QED
    BY <1>2, <1>7, <1>8, <1>9 DEF ByteInv

LEMMA ByteDrop ==
    ASSUME IInv, IInv', ByteInv, NEW r \in Requests, DropRequest(r)
    PROVE  ByteInv'
<1> ByteTypes /\ ByteTypes'
    BY ByteTypesHold
<1>1. PICK u \in Writers : uses[r] = u
    <2>1. request[r] = "open"
        BY DEF DropRequest
    <2> QED
        BY <2>1, CaptureAssumption DEF ByteTypes, IInv, LockInv, UsesInPlace
<1> DEFINE dead == Closed(u) /\ \A q \in Requests \ {r} : uses[q] # u
<1>2. /\ request[r] = "open" /\ request' = [request EXCEPT ![r] = "idle"]
      /\ used' = [used EXCEPT ![u] = IF dead THEN @ - Bytes(queue[u]) ELSE @]
      /\ queue' = [queue EXCEPT ![u] = IF dead THEN <<>> ELSE @]
      /\ UNCHANGED <<reserved, first, writer>>
      /\ \A q \in Requests \ {r} : request'[q] = request[q] /\ uses'[q] = uses[q]
    BY <1>1 DEF DropRequest, task, ByteTypes
<1>3. /\ \A w : Reserved(w)' = Reserved(w) /\ InFlight(w)' = InFlight(w)
      /\ OnlyEncodersReserve'
    BY <1>2, AtRest DEF ByteInv, Encoding, ByteTypes
<1>4. HandsEmptied'
    BY <1>2 DEF ByteInv, HandsEmptied
<1> HIDE DEF dead
<1>5. /\ \A w \in Writers : w # u => used'[w] = used[w] /\ queue'[w] = queue[w]
      /\ dead => used'[u] = used[u] - Bytes(queue[u]) /\ queue'[u] = <<>>
      /\ ~dead => used'[u] = used[u] /\ queue'[u] = queue[u]
    BY <1>1, <1>2 DEF ByteInv, ByteTypes
<1>6. Counted(u)' /\ used'[u] \in Nat
    <2> /\ Len(queue[u]) \in Nat /\ Cardinality(InFlight(u)) \in Nat
        /\ Len(queue[u]) + Cardinality(InFlight(u)) <= RECORD_QUEUE_CAPACITY
        /\ RECORD_QUEUE_CAPACITY \in Nat
        BY Numbers
    <2>0. /\ used[u] \in Nat /\ Bytes(queue[u]) \in Nat
          /\ first[u] \in Nat /\ Reserved(u) \in Nat
          /\ used[u] = Bytes(queue[u]) + first[u] + Reserved(u)
          /\ used[u] <= RECORD_QUEUE_BYTES /\ RECORD_QUEUE_BYTES \in Nat
        BY Numbers, <1>1
    <2>1. CASE dead
        <3>1. Bytes(queue'[u]) = 0 /\ Len(queue'[u]) = 0
            BY <1>5, <2>1, BytesOfNothing
        <3>2. used'[u] = used[u] - Bytes(queue[u])
            BY <1>5, <2>1
        <3>3. /\ used'[u] = Bytes(queue'[u]) + first[u] + Reserved(u)
              /\ used'[u] <= RECORD_QUEUE_BYTES /\ used'[u] \in Nat
            BY ONLY <2>0, <3>1, <3>2
        <3>4. Len(queue'[u]) + Cardinality(InFlight(u)) <= RECORD_QUEUE_CAPACITY
            BY <3>1
        <3> QED
            BY <1>2, <1>3, <3>3, <3>4 DEF Counted
    <2>2. CASE ~dead
        <3>1. Counted(u)
            BY <1>1, Numbers
        <3>2. used'[u] = used[u] /\ queue'[u] = queue[u] /\ first'[u] = first[u]
            BY <1>2, <1>5, <2>2
        <3> QED
            BY <1>3, <2>0, <3>1, <3>2 DEF Counted
    <2> QED
        BY <2>1, <2>2
<1>7. ASSUME NEW w \in Writers, w # u PROVE Counted(w)'
    BY <1>2, <1>3, <1>5, <1>7, Numbers DEF Counted
<1>8. used' \in [Writers -> Nat]
    <2>1. used' \in [Writers -> Int]
        BY <1>1, <1>2, Numbers DEF ByteInv
    <2>2. \A w \in Writers : used'[w] \in Nat
        BY <1>5, <1>6 DEF ByteInv
    <2> QED
        BY <2>1, <2>2
<1> QED
    BY <1>3, <1>4, <1>6, <1>7, <1>8 DEF ByteInv

\* A step of one writer on its own books.
LEMMA OneBook ==
    ASSUME IInv, IInv', ByteInv, NEW w \in Writers, UNCHANGED <<request, uses, reserved>>,
           \A v \in Writers \ {w} : /\ used'[v] = used[v] /\ queue'[v] = queue[v]
                                    /\ first'[v] = first[v] /\ writer'[v] = writer[v],
           used' \in [Writers -> Int],
           used'[w] = Bytes(queue'[w]) + first'[w] + Reserved(w),
           used'[w] <= used[w], Len(queue'[w]) <= Len(queue[w]),
           writer'[w] \in {"closing", "flushing", "done", "cancelled"} => first'[w] = 0
    PROVE  ByteInv'
<1> ByteTypes /\ ByteTypes'
    BY ByteTypesHold
<1>1. \A v : Reserved(v)' = Reserved(v) /\ InFlight(v)' = InFlight(v)
    BY DEF Reserved, Users, InFlight
<1>2. Counted(w)' /\ used'[w] \in Nat
    <2> /\ used[w] \in Nat /\ Len(queue[w]) \in Nat
        /\ Reserved(w) \in Nat /\ Cardinality(InFlight(w)) \in Nat
        /\ used[w] <= RECORD_QUEUE_BYTES /\ RECORD_QUEUE_BYTES \in Nat
        /\ Len(queue[w]) + Cardinality(InFlight(w)) <= RECORD_QUEUE_CAPACITY
        /\ RECORD_QUEUE_CAPACITY \in Nat
        BY Numbers
    <2>1. queue'[w] \in Seq(Nat) /\ first'[w] \in Nat
        BY DEF ByteTypes
    <2>2. Bytes(queue'[w]) \in Nat /\ Len(queue'[w]) \in Nat
        BY <2>1, BytesType, SeqDomain
    <2>3. used'[w] \in Nat
        BY <2>1, <2>2
    <2>4. used'[w] <= RECORD_QUEUE_BYTES
        BY <2>3
    <2>5. Len(queue'[w]) + Cardinality(InFlight(w)) <= RECORD_QUEUE_CAPACITY
        BY <2>2
    <2> QED
        BY <1>1, <2>3, <2>4, <2>5 DEF Counted
<1>3. ASSUME NEW v \in Writers, v # w PROVE Counted(v)'
    BY <1>1, <1>3, Numbers DEF Counted
<1>4. used' \in [Writers -> Nat]
    BY <1>2 DEF ByteInv
<1>5. OnlyEncodersReserve'
    BY DEF ByteInv, OnlyEncodersReserve
<1>6. HandsEmptied'
    BY DEF ByteInv, HandsEmptied
<1> QED
    BY <1>2, <1>3, <1>4, <1>5, <1>6 DEF ByteInv

LEMMA ByteWriter ==
    ASSUME IInv, IInv', ByteInv, NEW w \in Writers, WriterStep(w)
    PROVE  ByteInv'
<1> USE DEF commands, storage, producers, task, admission
<1> DEFINE q == queue[w]
           h == Head(q)
           t == Tail(q)
<1> ByteTypes /\ ByteTypes'
    BY ByteTypesHold
<1>1. UNCHANGED <<request, uses, reserved>>
    BY DEF WriterStep, Receive, StartBatch, WriteRecord, WriteFails, EndBatch, Drained,
        CloseReceiver, Finish
<1>2. /\ used[w] \in Nat /\ q \in Seq(Nat) /\ Bytes(q) \in Nat /\ Len(q) \in Nat
      /\ first[w] \in Nat /\ Reserved(w) \in Nat
      /\ used[w] = Bytes(q) + first[w] + Reserved(w)
    BY Numbers
<1>3. used \in [Writers -> Nat]
    BY DEF ByteInv
<1>4. writer[w] \in {"closing", "flushing", "done", "cancelled"} => first[w] = 0
    BY DEF ByteInv, HandsEmptied
<1>5. q # <<>> => /\ Bytes(q) = h + Bytes(t) /\ h \in Nat
                  /\ Bytes(t) \in Nat /\ Len(t) <= Len(q)
    <2> HIDE DEF q
    <2> SUFFICES ASSUME q # <<>>
                 PROVE  /\ Bytes(q) = h + Bytes(t) /\ h \in Nat
                        /\ Bytes(t) \in Nat /\ Len(t) <= Len(q)
        OBVIOUS
    <2>1. h \in Nat /\ t \in Seq(Nat) /\ Len(t) = Len(q) - 1
        BY <1>2, HeadTailProperties
    <2>2. Bytes(q) = h + Bytes(t)
        BY <1>2, BytesTaken
    <2>3. Bytes(t) \in Nat
        <3> HIDE DEF t
        <3> QED
            BY <2>1, BytesType
    <2> QED
        BY <1>2, <2>1, <2>2, <2>3
\* Only the task's own state moves.
<1>6. ASSUME UNCHANGED <<used, queue, first>>,
             \E s : writer' = [writer EXCEPT ![w] = s],
             writer'[w] \in {"closing", "flushing", "done", "cancelled"} => first[w] = 0
      PROVE  ByteInv'
    <2>1. \A v \in Writers \ {w} : /\ used'[v] = used[v] /\ queue'[v] = queue[v]
                                   /\ first'[v] = first[v] /\ writer'[v] = writer[v]
        BY <1>6 DEF ByteTypes
    <2>2. /\ used' \in [Writers -> Int] /\ queue'[w] = q /\ first'[w] = first[w]
          /\ used'[w] = used[w]
        BY <1>3, <1>6
    <2>3. /\ used'[w] = Bytes(queue'[w]) + first'[w] + Reserved(w)
          /\ used'[w] <= used[w] /\ Len(queue'[w]) <= Len(q)
        BY <1>2, <2>2
    <2> QED
        BY <1>1, <1>6, <2>1, <2>2, <2>3, OneBook
<1>7. CASE Receive(w)
    <2>1. /\ writer[w] = "receiving" /\ writer' = [writer EXCEPT ![w] = "waiting"]
          /\ UNCHANGED used
        BY <1>7 DEF Receive
    <2>2. CASE q = <<>>
        BY <1>6, <1>7, <2>1, <2>2 DEF Receive, ByteTypes
    <2>3. CASE q # <<>>
        <3>1. /\ first' = [first EXCEPT ![w] = h] /\ queue' = [queue EXCEPT ![w] = t]
              /\ first[w] = 0
            BY <1>7, <2>1, <2>3 DEF Receive, IInv, RecordInv, HandsInPlace
        <3>2. first'[w] = h /\ queue'[w] = t /\ writer'[w] = "waiting"
            BY <2>1, <3>1 DEF ByteTypes
        <3> HIDE DEF q, h, t
        <3>3. /\ used'[w] = Bytes(queue'[w]) + first'[w] + Reserved(w)
              /\ used'[w] <= used[w] /\ Len(queue'[w]) <= Len(q)
            BY <1>2, <1>5, <2>1, <2>3, <3>1, <3>2
        <3>4. \A v \in Writers \ {w} : /\ used'[v] = used[v] /\ queue'[v] = queue[v]
                                       /\ first'[v] = first[v] /\ writer'[v] = writer[v]
            BY <2>1, <3>1 DEF ByteTypes
        <3>5. used' \in [Writers -> Int]
            BY <1>3, <2>1
        <3> QED
            BY ONLY IInv, IInv', ByteInv, w \in Writers, <1>1, <3>2, <3>3, <3>4, <3>5, OneBook
               DEF q
    <2> QED
        BY <2>2, <2>3
<1>8. CASE StartBatch(w)
    BY <1>6, <1>8 DEF StartBatch, ByteTypes
<1>9. ASSUME takes(w), writer'[w] \in {"writing", "closing"},
             \A v \in Writers \ {w} : writer'[v] = writer[v]
      PROVE  ByteInv'
    <2>1. /\ first[w] # 0 \/ q # <<>>
          /\ first' = [first EXCEPT ![w] = 0]
          /\ queue' = [queue EXCEPT ![w] = IF first[w] # 0 THEN @ ELSE Tail(@)]
          /\ used' = [used EXCEPT ![w] = @ - Taken(w)]
        BY <1>9 DEF takes
    <2>2. /\ first'[w] = 0
          /\ queue'[w] = IF first[w] # 0 THEN q ELSE t
          /\ used'[w] = used[w] - Taken(w)
          /\ Taken(w) = IF first[w] # 0 THEN first[w] ELSE h
        BY <1>3, <2>1 DEF Taken, ByteTypes
    <2>3. Taken(w) \in Nat
        BY <1>2, <1>5, <2>1, <2>2
    <2>4. used' \in [Writers -> Int]
        BY <1>3, <2>1, <2>3
    <2>5. \A v \in Writers \ {w} : /\ used'[v] = used[v] /\ queue'[v] = queue[v]
                                   /\ first'[v] = first[v] /\ writer'[v] = writer[v]
        BY <1>3, <1>9, <2>1 DEF ByteTypes
    <2> HIDE DEF q, h, t
    <2>6. /\ used'[w] = Bytes(queue'[w]) + first'[w] + Reserved(w)
          /\ used'[w] <= used[w] /\ Len(queue'[w]) <= Len(q)
        <3>1. CASE first[w] # 0
            BY <1>2, <2>2, <3>1
        <3>2. CASE first[w] = 0
            <4>1. q # <<>>
                BY <2>1, <3>2
            <4>2. queue'[w] = t /\ used'[w] = used[w] - h /\ first'[w] = 0
                BY <2>2, <3>2
            <4>3. /\ used[w] = Bytes(q) + 0 + Reserved(w) /\ Bytes(q) = h + Bytes(t)
                  /\ used'[w] = used[w] - h
                BY <1>2, <1>5, <3>2, <4>1, <4>2
            <4>4. h \in Nat /\ Bytes(t) \in Nat /\ Reserved(w) \in Nat /\ used[w] \in Nat
                BY <1>2, <1>5, <4>1
            <4>5. used'[w] = Bytes(t) + 0 + Reserved(w) /\ used'[w] <= used[w]
                BY ONLY <4>3, <4>4
            <4> QED
                BY <1>5, <4>1, <4>2, <4>5
        <3> QED
            BY <3>1, <3>2
    <2> QED
        BY <1>1, <2>2, <2>4, <2>5, <2>6, OneBook DEF q
<1>10. CASE WriteRecord(w)
    <2>1. writer[w] = "writing" /\ UNCHANGED writer /\ takes(w)
        BY <1>10 DEF WriteRecord, takes
    <2> QED
        BY <1>9, <2>1
<1>11. CASE WriteFails(w)
    <2>1. writer' = [writer EXCEPT ![w] = "closing"] /\ takes(w)
        BY <1>11 DEF WriteFails
    <2>2. writer'[w] = "closing" /\ \A v \in Writers \ {w} : writer'[v] = writer[v]
        BY <2>1 DEF ByteTypes
    <2> QED
        BY <1>9, <2>1, <2>2
\* The queue goes, with what it reserves.
<1>12. ASSUME queue' = [queue EXCEPT ![w] = <<>>], used' = [used EXCEPT ![w] = @ - Bytes(q)],
              UNCHANGED first, first[w] = 0, \E s : writer' = [writer EXCEPT ![w] = s]
       PROVE  ByteInv'
    <2>1. queue'[w] = <<>> /\ Bytes(queue'[w]) = 0 /\ Len(queue'[w]) = 0
        BY <1>12, BytesOfNothing DEF ByteTypes
    <2>2. used'[w] = used[w] - Bytes(q) /\ used' \in [Writers -> Int]
        BY <1>2, <1>3, <1>12
    <2>3. \A v \in Writers \ {w} : /\ used'[v] = used[v] /\ queue'[v] = queue[v]
                                   /\ first'[v] = first[v] /\ writer'[v] = writer[v]
        BY <1>3, <1>12 DEF ByteTypes
    <2> HIDE DEF q, h, t
    <2>4. first[w] = 0 /\ first'[w] = 0
        BY <1>12
    <2>5. used'[w] = Bytes(queue'[w]) + first'[w] + Reserved(w)
        BY <1>2, <2>1, <2>2, <2>4
    <2>6. used'[w] <= used[w] /\ Len(queue'[w]) <= Len(q)
        BY <1>2, <2>1, <2>2
    <2> QED
        BY <1>1, <2>2, <2>3, <2>4, <2>5, <2>6, OneBook DEF q
<1>13. CASE EndBatch(w)
    <2>1. first[w] = 0 /\ UNCHANGED first /\ \E s : writer' = [writer EXCEPT ![w] = s]
        BY <1>13 DEF EndBatch
    <2>2. CASE stopped
        BY <1>12, <1>13, <2>1, <2>2 DEF EndBatch
    <2>3. CASE ~stopped
        BY <1>6, <1>13, <2>1, <2>3 DEF EndBatch
    <2> QED
        BY <2>2, <2>3
<1>14. CASE Drained(w)
    BY <1>6, <1>14 DEF Drained
<1>15. CASE CloseReceiver(w)
    BY <1>4, <1>12, <1>15 DEF CloseReceiver
<1>16. CASE Finish(w)
    BY <1>4, <1>6, <1>16 DEF Finish
<1> QED
    BY <1>7, <1>8, <1>10, <1>11, <1>13, <1>14, <1>15, <1>16 DEF WriterStep

\* A runtime that stops: no request has a record, and what goes is given back.
LEMMA ByteStop ==
    ASSUME IInv, IInv', ByteInv, Stop
    PROVE  ByteInv'
<1> ByteTypes /\ ByteTypes'
    BY ByteTypesHold
<1>1. PICK unstarted \in SUBSET {w \in Writers : writer[w] = "writing" /\ batch[w] = 0} :
        LET dropped == {w \in Writers : writer[w] \in {"receiving", "waiting"}} \cup unstarted
            dead == {w \in Writers : Closed(w)} \cup dropped
        IN  /\ writer' = [w \in Writers |-> IF w \in dropped THEN "cancelled" ELSE writer[w]]
            /\ used' = [w \in Writers |->
                         IF w \in dead THEN used[w] - first[w] - Bytes(queue[w]) ELSE used[w]]
            /\ queue' = [w \in Writers |-> IF w \in dead THEN <<>> ELSE queue[w]]
            /\ first' = [w \in Writers |-> IF w \in dropped THEN 0 ELSE first[w]]
    BY DEF Stop
<1> DEFINE dropped == {w \in Writers : writer[w] \in {"receiving", "waiting"}} \cup unstarted
           dead == {w \in Writers : Closed(w)} \cup dropped
<1>2. \A w \in Writers :
        /\ w \in dead <=> w \in dropped \/ Closed(w)
        /\ writer'[w] = IF w \in dropped THEN "cancelled" ELSE writer[w]
        /\ used'[w] = IF w \in dead THEN used[w] - first[w] - Bytes(queue[w]) ELSE used[w]
        /\ queue'[w] = IF w \in dead THEN <<>> ELSE queue[w]
        /\ first'[w] = IF w \in dropped THEN 0 ELSE first[w]
    BY <1>1
<1>3. /\ request' = [r \in Requests |-> "idle"] /\ uses' = [r \in Requests |-> NONE]
      /\ \A r \in Requests : request[r] \in {"idle", "open"}
      /\ UNCHANGED reserved
    BY DEF Stop
<1>4. \A w \in Writers : InFlight(w) = {} /\ InFlight(w)' = {}
    BY <1>3 DEF InFlight
<1>5. \A r \in Requests : reserved[r] = 0
    BY <1>3 DEF ByteInv, OnlyEncodersReserve
<1>6. \A w \in Writers : Reserved(w) = 0 /\ Reserved(w)' = 0
    <2> SUFFICES ASSUME NEW w \in Writers PROVE Reserved(w) = 0 /\ Reserved(w)' = 0
        OBVIOUS
    <2>1. /\ \A r \in Users(w) : reserved[r] = 0
          /\ \A r \in Users(w)' : reserved[r] = 0
        BY <1>5 DEF Users
    <2>2. Total(reserved, Users(w)) = 0 /\ Total(reserved, Users(w)') = 0
        BY <2>1, UsersFinite, TotalOfZeros
    <2> QED
        BY <1>3, <2>2 DEF Reserved
<1>7. \A w \in Writers : Closed(w) => first[w] = 0
    BY DEF ByteInv, HandsEmptied, Closed
<1> HIDE DEF dropped, dead
<1>8. ASSUME NEW w \in Writers PROVE Counted(w)' /\ used'[w] \in Nat
    <2> /\ used[w] \in Nat /\ Bytes(queue[w]) \in Nat /\ Len(queue[w]) \in Nat
        /\ first[w] \in Nat /\ Reserved(w) \in Nat
        /\ used[w] = Bytes(queue[w]) + first[w] + Reserved(w)
        /\ used[w] <= RECORD_QUEUE_BYTES /\ RECORD_QUEUE_BYTES \in Nat
        /\ Len(queue[w]) + Cardinality(InFlight(w)) <= RECORD_QUEUE_CAPACITY
        /\ RECORD_QUEUE_CAPACITY \in Nat
        BY Numbers
    <2>1. Cardinality(InFlight(w)) = 0 /\ Cardinality(InFlight(w))' = 0
        BY <1>4, FS_EmptySet
    <2>2. CASE w \in dead
        <3>1. Bytes(queue'[w]) = 0 /\ Len(queue'[w]) = 0
            BY <1>2, <2>2, BytesOfNothing
        <3>2. first'[w] = 0
            BY <1>2, <1>7, <2>2
        <3>3. used'[w] = used[w] - first[w] - Bytes(queue[w])
            BY <1>2, <2>2
        <3>4. used'[w] = 0
            BY <1>6, <3>3
        <3> QED
            BY <1>6, <2>1, <3>1, <3>2, <3>4 DEF Counted
    <2>3. CASE w \notin dead
        <3>1. used'[w] = used[w] /\ queue'[w] = queue[w] /\ first'[w] = first[w]
            BY <1>2, <2>3
        <3> QED
            BY <1>6, <2>1, <3>1 DEF Counted
    <2> QED
        BY <2>2, <2>3
<1>9. used' \in [Writers -> Nat]
    <2>1. used' \in [Writers -> Int]
        <3>1. \A w \in Writers : used[w] \in Nat /\ first[w] \in Nat /\ Bytes(queue[w]) \in Nat
            BY Numbers
        <3> QED
            BY <1>1, <3>1
    <2> QED
        BY <1>8, <2>1
<1>10. OnlyEncodersReserve' /\ HandsEmptied'
    BY <1>2, <1>3, <1>5 DEF ByteInv, OnlyEncodersReserve, HandsEmptied
<1> QED
    BY <1>8, <1>9, <1>10 DEF ByteInv

LEMMA ByteInit == Init => ByteInv
<1> SUFFICES ASSUME Init PROVE ByteInv
    OBVIOUS
<1>1. /\ used = [w \in Writers |-> 0] /\ first = [w \in Writers |-> 0]
      /\ queue = [w \in Writers |-> <<>>] /\ reserved = [r \in Requests |-> 0]
      /\ request = [r \in Requests |-> "idle"] /\ writer = [w \in Writers |-> "unborn"]
    BY DEF Init
<1>2. ASSUME NEW w \in Writers PROVE Counted(w)
    <2>1. InFlight(w) = {} /\ Cardinality({}) = 0
        BY <1>1, FS_EmptySet DEF InFlight
    <2>2. Reserved(w) = 0
        <3>1. \A r \in Users(w) : reserved[r] = 0
            BY <1>1 DEF Users
        <3> QED
            BY <3>1, UsersFinite, TotalOfZeros DEF Reserved
    <2>3. /\ Bytes(queue[w]) = 0 /\ Len(queue[w]) = 0 /\ first[w] = 0 /\ used[w] = 0
        BY <1>1, BytesOfNothing
    <2> QED
        BY <2>1, <2>2, <2>3, CaptureAssumption DEF Counted
<1>3. used \in [Writers -> Nat] /\ OnlyEncodersReserve /\ HandsEmptied
    BY <1>1 DEF OnlyEncodersReserve, HandsEmptied
<1> QED
    BY <1>2, <1>3 DEF ByteInv

LEMMA ByteNext == IInv /\ IInv' /\ ByteInv /\ [Next]_vars => ByteInv'
<1> SUFFICES ASSUME IInv, IInv', ByteInv, [Next]_vars PROVE ByteInv'
    OBVIOUS
<1>1. CASE UNCHANGED vars
    <2>1. UNCHANGED <<request, uses, reserved, writer, queue, first, used>>
        BY <1>1 DEF vars, producers, task, admission
    <2>2. \A w : Reserved(w)' = Reserved(w) /\ InFlight(w)' = InFlight(w)
        BY <2>1 DEF Reserved, Users, InFlight
    <2>3. OnlyEncodersReserve' /\ HandsEmptied'
        BY <2>1 DEF ByteInv, OnlyEncodersReserve, HandsEmptied
    <2> QED
        BY <2>1, <2>2, <2>3, ByteFrame, ByteTypesHold
<1>2. ASSUME NEW r \in Requests, RequestStep(r) PROVE ByteInv'
    BY <1>2, ByteStart, ByteEncode, ByteSend, ByteDrop DEF RequestStep
<1>3. CASE Next
    BY <1>2, <1>3, ByteCommand, ByteStart, ByteOffer, ByteWriter, ByteStop DEF Next
<1> QED
    BY <1>1, <1>3

LEMMA BytesAreKept == Spec => []ByteInv
<1>1. IInv /\ IInv' /\ ByteInv /\ [Next]_vars => ByteInv'
    BY ByteNext
<1> QED
    BY <1>1, ByteInit, Invariance, PTL DEF Spec

LEMMA HeldIsCounted ==
    ASSUME IInv, ByteInv, NEW w \in Writers
    PROVE  used[w] = BytesHeld(w)
<1> DEFINE f == [r \in {q \in Requests : uses[q] = w} |-> reserved[r]]
<1> ByteTypes
    BY ByteTypesHold
<1>1. DOMAIN f = Users(w) /\ \A r \in Users(w) : f[r] = reserved[r] /\ reserved[r] \in Nat
    BY DEF Users, ByteTypes
<1>2. BytesHeld(w) = Bytes(queue[w]) + first[w] + Bytes(f)
    BY DEF BytesHeld
<1> HIDE DEF f
<1>3. Bytes(f) = Total(f, Users(w))
    BY <1>1, BytesAreTotal
<1>4. Total(f, Users(w)) = Reserved(w)
    BY <1>1, UsersFinite, TotalSame DEF Reserved
<1> QED
    BY <1>2, <1>3, <1>4, Numbers

\* The counter of reserved bytes is what is really held, on every way out of
\* record and of the writer (capture.rs:76).
THEOREM BytesExact == Spec => []BytesAccounted
<1>1. IInv /\ ByteInv => BytesAccounted
    BY HeldIsCounted DEF BytesAccounted
<1> QED
    BY <1>1, Invariance, BytesAreKept, PTL

\* A writer never has more records queued or encoding, nor more bytes, than the
\* limits allow (SECURITY.md:52-53), however requests interleave.
THEOREM AdmissionWithinLimits == Spec => []AdmissionBounded
<1>1. IInv /\ ByteInv => AdmissionBounded
    <2> SUFFICES ASSUME IInv, ByteInv, NEW w \in Writers
                 PROVE  /\ Len(queue[w]) + Cardinality(InFlight(w)) <= RECORD_QUEUE_CAPACITY
                        /\ BytesHeld(w) <= RECORD_QUEUE_BYTES
        BY DEF AdmissionBounded
    <2> QED
        BY HeldIsCounted, Numbers, ByteTypesHold
<1> QED
    BY <1>1, Invariance, BytesAreKept, PTL

-----------------------------------------------------------------------------
(* The types: what the settings and the requests name is a capture.          *)

SettingsTypes ==
    /\ enabled \in BOOLEAN /\ stopped \in BOOLEAN
    /\ capture_id \in Captures \cup {NONE} /\ enabling \in Captures \cup {NONE}
    /\ fresh \subseteq Captures /\ dirs \subseteq Captures
    /\ wanted \in [Requests -> Captures \cup {NONE}]
    /\ capture \in [Writers -> Captures \cup {NONE}]
    /\ batch \in [Writers -> 0..BATCH_RECORDS]

\* Settings that are on name a capture, and so does a request that read them.
NamesInPlace ==
    /\ enabled => capture_id \in Captures
    /\ \A r \in Requests : request[r] = "begun" => wanted[r] \in Captures

LEMMA TypesNext ==
    ASSUME LockInv, SettingsTypes, NamesInPlace, [Next]_vars
    PROVE  SettingsTypes' /\ NamesInPlace'
<1> USE DEF SettingsTypes, NamesInPlace, commands, storage, producers, task, admission
<1>1. CASE UNCHANGED vars
    BY <1>1 DEF vars
<1>2. CASE Command
    <2>1. UNCHANGED <<stopped, wanted, capture, batch, request>>
        BY <1>2 DEF Command, EnableCapture, WriteEnabled, EnablingFails, Disable, PurgeDisables, PurgeLocks,
            PurgeRemoves, PurgeFails, PurgeUnlocks
    <2>2. ASSUME NEW k \in Captures, EnableCapture(k) PROVE SettingsTypes' /\ NamesInPlace'
        BY <2>1, <2>2 DEF EnableCapture
    <2>3. CASE WriteEnabled
        BY <2>1, <2>3 DEF WriteEnabled
    <2>6. CASE EnablingFails
        BY <2>1, <2>6 DEF EnablingFails
    <2>4. CASE Disable \/ PurgeDisables
        BY <2>1, <2>4 DEF Disable, PurgeDisables
    <2>5. CASE PurgeLocks \/ PurgeRemoves \/ PurgeFails \/ PurgeUnlocks
        <3>1. dirs' \subseteq dirs /\ UNCHANGED <<enabled, capture_id, fresh, enabling>>
            BY <2>5 DEF PurgeLocks, PurgeRemoves, PurgeFails, PurgeUnlocks
        <3> QED
            BY <2>1, <3>1
    <2> QED
        BY <1>2, <2>2, <2>3, <2>4, <2>5, <2>6 DEF Command
<1>3. ASSUME NEW r \in Requests, Begin(r) PROVE SettingsTypes' /\ NamesInPlace'
    BY <1>3 DEF Begin, LockInv, LockTypes
<1>4. ASSUME NEW r \in Requests, RequestStep(r) PROVE SettingsTypes' /\ NamesInPlace'
    <2>1. CASE JoinWriter(r)
        BY <2>1 DEF JoinWriter, LockInv, LockTypes
    <2>2. ASSUME NEW w \in Writers, MakeDirectory(r, w) PROVE SettingsTypes' /\ NamesInPlace'
        BY <2>2 DEF MakeDirectory, LockInv, LockTypes
    <2>3. CASE LockShared(r)
        BY <2>3 DEF LockShared, LockInv, LockTypes
    <2>4. CASE OpenFile(r)
        BY <2>4 DEF OpenFile, LockInv, LockTypes
    <2>5. CASE CannotStart(r)
        BY <2>5 DEF CannotStart, LockInv, LockTypes
    <2>6. ASSUME NEW n \in Encodings, EncodeRecord(r, n) PROVE SettingsTypes' /\ NamesInPlace'
        BY <2>6 DEF EncodeRecord, LockInv, LockTypes
    <2>7. CASE EncodingFails(r) \/ SendRecord(r) \/ MarkIncomplete(r)
        BY <2>7 DEF EncodingFails, SendRecord, MarkIncomplete, LockInv, LockTypes
    <2>8. CASE DropRequest(r)
        BY <2>8 DEF DropRequest, LockInv, LockTypes
    <2> QED
        BY <1>4, <2>1, <2>2, <2>3, <2>4, <2>5, <2>6, <2>7, <2>8 DEF RequestStep
<1>5. ASSUME NEW r \in Requests, NEW p \in Payloads, OfferRecord(r, p)
      PROVE  SettingsTypes' /\ NamesInPlace'
    BY <1>5 DEF OfferRecord, LockInv, LockTypes
<1>6. ASSUME NEW w \in Writers, WriterStep(w) PROVE SettingsTypes' /\ NamesInPlace'
    <2>1. UNCHANGED <<commands, dirs, producers, capture>>
        BY <1>6 DEF WriterStep, Receive, StartBatch, WriteRecord, WriteFails, EndBatch, Drained,
            CloseReceiver, Finish
    <2>2. batch' \in [Writers -> 0..BATCH_RECORDS]
        <3>1. CASE WriteRecord(w)
            BY <3>1, CaptureAssumption DEF WriteRecord, takes
        <3>2. CASE ~WriteRecord(w)
            <4>1. UNCHANGED batch \/ batch' = [batch EXCEPT ![w] = 0]
                BY <1>6, <3>2 DEF WriterStep, Receive, StartBatch, WriteFails, EndBatch, Drained,
                    CloseReceiver, Finish
            <4> QED
                BY <4>1, CaptureAssumption
        <3> QED
            BY <3>1, <3>2
    <2> QED
        BY <2>1, <2>2
<1>7. CASE Stop
    BY <1>7 DEF Stop
<1> QED
    BY <1>1, <1>2, <1>3, <1>4, <1>5, <1>6, <1>7 DEF Next

\* Every variable keeps its type.
THEOREM CaptureTypes == Spec => []TypeOK
<1>1. Init => SettingsTypes /\ NamesInPlace
    <2> SUFFICES ASSUME Init PROVE SettingsTypes /\ NamesInPlace
        OBVIOUS
    <2>1. /\ enabled = FALSE /\ stopped = FALSE /\ capture_id = NONE /\ enabling = NONE
          /\ fresh = Captures /\ dirs = {} /\ request = [r \in Requests |-> "idle"]
        BY DEF Init
    <2>2. /\ wanted = [r \in Requests |-> NONE] /\ capture = [w \in Writers |-> NONE]
          /\ batch = [w \in Writers |-> 0]
        BY DEF Init
    <2>3. enabled \in BOOLEAN /\ stopped \in BOOLEAN
        BY <2>1
    <2>4. 0 \in 0..BATCH_RECORDS
        BY CaptureAssumption
    <2>5. batch \in [Writers -> 0..BATCH_RECORDS]
        BY <2>2, <2>4
    <2>6. NamesInPlace
        BY <2>1 DEF NamesInPlace
    <2> QED
        BY <2>1, <2>2, <2>3, <2>5, <2>6 DEF SettingsTypes
<1>2. IInv /\ SettingsTypes /\ NamesInPlace /\ [Next]_vars => SettingsTypes' /\ NamesInPlace'
    BY TypesNext DEF IInv
<1>3. IInv /\ ByteInv /\ SettingsTypes => TypeOK
    <2> SUFFICES ASSUME IInv, ByteInv, SettingsTypes PROVE TypeOK
        OBVIOUS
    <2>1. LockTypes /\ RecordTypes
        BY DEF IInv, LockInv, RecordInv
    <2>2. ByteTypes /\ used \in [Writers -> Nat]
        BY ByteTypesHold DEF ByteInv
    <2> QED
        BY <2>1, <2>2 DEF TypeOK, LockTypes, RecordTypes, ByteTypes, SettingsTypes
<1> QED
    BY <1>1, <1>2, <1>3, Invariance, BytesAreKept, PTL DEF Spec
=============================================================================
