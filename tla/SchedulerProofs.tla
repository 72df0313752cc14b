--------------------------- MODULE SchedulerProofs ---------------------------
(***************************************************************************)
(* The safety properties of Scheduler for any number of connections and    *)
(* launches, whatever they ask for and report, and any number of deaths.   *)
(***************************************************************************)
EXTENDS Scheduler, FiniteSetTheorems, SequenceTheorems, TLAPS

-----------------------------------------------------------------------------
(* The command queue and the request queue, as their readers see them.     *)

Asks(q, kind, c) == \E i \in DOMAIN q : q[i] = [kind |-> kind, conn |-> c]
OneEach(q) == \A i, j \in DOMAIN q : q[i].conn = q[j].conn => i = j

Waits(p, c) == \E i \in DOMAIN p : p[i] = c
Once(p) == \A i, j \in DOMAIN p : p[i] = p[j] => i = j

\* What a handler sends stands behind everything sent before.
LEMMA SendAsks ==
    ASSUME NEW q \in Seq(Commands),
           NEW kind \in {"acquire", "observe", "release"}, NEW c \in Conns
    PROVE  LET r == Append(q, [kind |-> kind, conn |-> c])
           IN  /\ r \in Seq(Commands)
               /\ \A k, d : Asks(r, k, d) <=> Asks(q, k, d) \/ (k = kind /\ d = c)
<1> DEFINE e == [kind |-> kind, conn |-> c]
           r == Append(q, e)
<1>1. e \in Commands
  BY DEF Commands
<1>2. /\ r \in Seq(Commands) /\ Len(r) = Len(q) + 1
      /\ \A i \in 1..Len(q) : r[i] = q[i]
      /\ r[Len(q) + 1] = e
  BY <1>1, AppendProperties
<1>3. /\ DOMAIN q = 1..Len(q) /\ Len(q) \in Nat
      /\ DOMAIN r = 1..(Len(q) + 1)
  BY <1>2, LenProperties
<1> HIDE DEF r
<1>4. ASSUME NEW k, NEW d PROVE Asks(r, k, d) <=> Asks(q, k, d) \/ (k = kind /\ d = c)
  <2>1. ASSUME Asks(r, k, d) PROVE Asks(q, k, d) \/ (k = kind /\ d = c)
    <3>1. PICK i \in DOMAIN r : r[i] = [kind |-> k, conn |-> d]
      BY <2>1 DEF Asks
    <3>2. CASE i \in DOMAIN q
      BY <3>1, <3>2, <1>2, <1>3 DEF Asks
    <3>3. CASE i = Len(q) + 1
      BY <3>1, <3>3, <1>2
    <3>4. QED
      BY <3>2, <3>3, <1>3
  <2>2. ASSUME Asks(q, k, d) PROVE Asks(r, k, d)
    BY <2>2, <1>2, <1>3 DEF Asks
  <2>3. ASSUME k = kind, d = c PROVE Asks(r, k, d)
    BY <2>3, <1>2, <1>3 DEF Asks
  <2>4. QED
    BY <2>1, <2>2, <2>3
<1>5. QED
  BY <1>2, <1>4 DEF r

\* A connection without a command under way may send one.
LEMMA SendKeepsOneEach ==
    ASSUME NEW q \in Seq(Commands), OneEach(q),
           NEW kind \in {"acquire", "observe", "release"}, NEW c \in Conns,
           \A i \in DOMAIN q : q[i].conn # c
    PROVE  OneEach(Append(q, [kind |-> kind, conn |-> c]))
<1> DEFINE e == [kind |-> kind, conn |-> c]
           r == Append(q, e)
<1>1. e \in Commands
  BY DEF Commands
<1>2. /\ r \in Seq(Commands) /\ Len(r) = Len(q) + 1
      /\ \A i \in 1..Len(q) : r[i] = q[i]
      /\ r[Len(q) + 1] = e
  BY <1>1, AppendProperties
<1>3. /\ DOMAIN q = 1..Len(q) /\ Len(q) \in Nat
      /\ DOMAIN r = 1..(Len(q) + 1)
  BY <1>2, LenProperties
<1> HIDE DEF r
<1>4. SUFFICES ASSUME NEW i \in DOMAIN r, NEW j \in DOMAIN r, r[i].conn = r[j].conn
               PROVE  i = j
  BY DEF OneEach, r
<1>5. CASE i \in DOMAIN q /\ j \in DOMAIN q
  BY <1>4, <1>5, <1>2, <1>3 DEF OneEach
<1>6. CASE i \in DOMAIN q /\ j = Len(q) + 1
  BY <1>4, <1>6, <1>2, <1>3
<1>7. CASE j \in DOMAIN q /\ i = Len(q) + 1
  BY <1>4, <1>7, <1>2, <1>3
<1>8. QED
  BY <1>5, <1>6, <1>7, <1>3

\* Taking a command leaves the others, none of them of the same connection.
LEMMA TailTakes ==
    ASSUME NEW q \in Seq(Commands), OneEach(q), q # <<>>
    PROVE  /\ Head(q) \in Commands
           /\ \A k \in {"acquire", "observe", "release"} :
                 Asks(q, k, Head(q).conn) <=> k = Head(q).kind
           /\ Tail(q) \in Seq(Commands)
           /\ OneEach(Tail(q))
           /\ \A k, d : Asks(Tail(q), k, d) <=> Asks(q, k, d) /\ d # Head(q).conn
<1>1. /\ Head(q) \in Commands
      /\ Tail(q) \in Seq(Commands)
      /\ Len(Tail(q)) = Len(q) - 1
      /\ \A i \in 1..Len(Tail(q)) : Tail(q)[i] = q[i + 1]
  BY HeadTailProperties
<1>2. Len(q) \in Nat /\ Len(q) # 0 /\ DOMAIN q = 1..Len(q) /\ Head(q) = q[1]
  BY EmptySeq, LenProperties
<1>3. DOMAIN Tail(q) = 1..(Len(q) - 1)
  BY <1>1, LenProperties
<1>4. Asks(q, Head(q).kind, Head(q).conn)
  <2>1. q[1] = [kind |-> q[1].kind, conn |-> q[1].conn]
    BY <1>1, <1>2 DEF Commands
  <2>2. QED
    BY <2>1, <1>2 DEF Asks
<1>5. OneEach(Tail(q))
  <2> SUFFICES ASSUME NEW i \in DOMAIN Tail(q), NEW j \in DOMAIN Tail(q),
                      Tail(q)[i].conn = Tail(q)[j].conn
               PROVE  i = j
    BY DEF OneEach
  <2>1. i + 1 \in DOMAIN q /\ j + 1 \in DOMAIN q /\ q[i + 1].conn = q[j + 1].conn
    BY <1>1, <1>2, <1>3
  <2>2. i + 1 = j + 1
    BY <2>1 DEF OneEach
  <2>3. QED
    BY <2>2, <1>2, <1>3
<1>6. ASSUME NEW k, NEW d PROVE Asks(Tail(q), k, d) <=> Asks(q, k, d) /\ d # Head(q).conn
  <2>1. ASSUME Asks(Tail(q), k, d) PROVE Asks(q, k, d) /\ d # Head(q).conn
    <3>1. PICK i \in DOMAIN Tail(q) : Tail(q)[i] = [kind |-> k, conn |-> d]
      BY <2>1 DEF Asks
    <3>2. i + 1 \in DOMAIN q /\ 1 \in DOMAIN q /\ i + 1 # 1 /\ q[i + 1] = [kind |-> k, conn |-> d]
      BY <3>1, <1>1, <1>2, <1>3
    <3>3. q[i + 1].conn # q[1].conn
      BY <3>2 DEF OneEach
    <3>4. QED
      BY <3>2, <3>3, <1>2 DEF Asks
  <2>2. ASSUME Asks(q, k, d), d # Head(q).conn PROVE Asks(Tail(q), k, d)
    <3>1. PICK i \in DOMAIN q : q[i] = [kind |-> k, conn |-> d]
      BY <2>2 DEF Asks
    <3>2. i # 1
      BY <3>1, <2>2, <1>2
    <3>3. i - 1 \in DOMAIN Tail(q) /\ Tail(q)[i - 1] = q[i]
      BY <3>2, <1>1, <1>2, <1>3
    <3>4. QED
      BY <3>1, <3>3 DEF Asks
  <2>3. QED
    BY <2>1, <2>2
<1>7. ASSUME NEW k, Asks(q, k, Head(q).conn) PROVE k = Head(q).kind
  <2>1. PICK i \in DOMAIN q : q[i] = [kind |-> k, conn |-> Head(q).conn]
    BY <1>7 DEF Asks
  <2>2. i = 1
    BY <2>1, <1>2 DEF OneEach
  <2>3. QED
    BY <2>1, <2>2, <1>2
<1>8. QED
  BY <1>1, <1>4, <1>5, <1>6, <1>7

\* A request goes to the end of the queue.
LEMMA RequestAppended ==
    ASSUME NEW p \in Seq(Conns), Once(p), NEW c \in Conns, ~Waits(p, c)
    PROVE  /\ Append(p, c) \in Seq(Conns)
           /\ Once(Append(p, c))
           /\ \A d : Waits(Append(p, c), d) <=> Waits(p, d) \/ d = c
           /\ p # <<>> => Head(Append(p, c)) = Head(p)
           /\ Append(p, c) # <<>>
<1> DEFINE r == Append(p, c)
<1>1. /\ r \in Seq(Conns) /\ Len(r) = Len(p) + 1 /\ r # <<>>
      /\ \A i \in 1..Len(p) : r[i] = p[i]
      /\ r[Len(p) + 1] = c
  BY AppendProperties
<1>2. /\ DOMAIN p = 1..Len(p) /\ Len(p) \in Nat
      /\ DOMAIN r = 1..(Len(p) + 1)
  BY <1>1, LenProperties
<1>3. p # <<>> => Head(r) = Head(p)
  BY HeadTailAppend
<1> HIDE DEF r
<1>4. Once(r)
  <2> SUFFICES ASSUME NEW i \in DOMAIN r, NEW j \in DOMAIN r, r[i] = r[j]
               PROVE  i = j
    BY DEF Once
  <2>1. CASE i \in DOMAIN p /\ j \in DOMAIN p
    BY <2>1, <1>1, <1>2 DEF Once
  <2>2. CASE i \in DOMAIN p /\ j = Len(p) + 1
    BY <2>2, <1>1, <1>2 DEF Waits
  <2>3. CASE j \in DOMAIN p /\ i = Len(p) + 1
    BY <2>3, <1>1, <1>2 DEF Waits
  <2>4. QED
    BY <2>1, <2>2, <2>3, <1>2
<1>5. ASSUME NEW d PROVE Waits(r, d) <=> Waits(p, d) \/ d = c
  <2>1. ASSUME Waits(r, d) PROVE Waits(p, d) \/ d = c
    <3>1. PICK i \in DOMAIN r : r[i] = d
      BY <2>1 DEF Waits
    <3>2. CASE i \in DOMAIN p
      BY <3>1, <3>2, <1>1, <1>2 DEF Waits
    <3>3. CASE i = Len(p) + 1
      BY <3>1, <3>3, <1>1
    <3>4. QED
      BY <3>2, <3>3, <1>2
  <2>2. ASSUME Waits(p, d) PROVE Waits(r, d)
    BY <2>2, <1>1, <1>2 DEF Waits
  <2>3. ASSUME d = c PROVE Waits(r, d)
    BY <2>3, <1>1, <1>2 DEF Waits
  <2>4. QED
    BY <2>1, <2>2, <2>3
<1>6. QED
  BY <1>1, <1>3, <1>4, <1>5 DEF r

\* Taking one request out of the queue keeps the others in their order.
LEMMA RequestTaken ==
    ASSUME pending \in Seq(Conns), Once(pending), NEW i \in DOMAIN pending
    PROVE  /\ Without(i) \in Seq(Conns)
           /\ Once(Without(i))
           /\ \A d : Waits(Without(i), d) <=> Waits(pending, d) /\ d # pending[i]
           /\ i # 1 => Without(i) # <<>> /\ Head(Without(i)) = Head(pending)
<1> DEFINE n == Len(pending)
           front == SubSeq(pending, 1, i - 1)
           back == SubSeq(pending, i + 1, n)
           r == Without(i)
<1>1. n \in Nat /\ DOMAIN pending = 1..n /\ i \in 1..n
  BY LenProperties
<1>2. \A j \in 1..n : pending[j] \in Conns
  BY ElementOfSeq
<1>3. /\ front \in Seq(Conns) /\ Len(front) = i - 1
      /\ \A j \in 1..(i - 1) : front[j] = pending[j]
  <2>1. \A j \in 1..(i - 1) : pending[j] \in Conns
    BY <1>1, <1>2
  <2>2. /\ front \in Seq(Conns)
        /\ Len(front) = IF 1 <= i - 1 THEN i - 1 - 1 + 1 ELSE 0
        /\ \A j \in 1..(i - 1 - 1 + 1) : front[j] = pending[1 + j - 1]
    BY <2>1, <1>1, SubSeqProperties
  <2>3. QED
    BY <2>2, <1>1
<1>4. /\ back \in Seq(Conns) /\ Len(back) = n - i
      /\ \A j \in 1..(n - i) : back[j] = pending[i + j]
  <2> DEFINE m == i + 1
  <2>1. m \in Int /\ n \in Int /\ \A j \in m..n : pending[j] \in Conns
    BY <1>1, <1>2
  <2>2. back = SubSeq(pending, m, n)
    OBVIOUS
  <2> HIDE DEF n, back
  <2>3. /\ back \in Seq(Conns)
        /\ Len(back) = IF m <= n THEN n - m + 1 ELSE 0
        /\ \A j \in 1..(n - m + 1) : back[j] = pending[m + j - 1]
    <3> HIDE DEF m
    <3>1. QED
      BY <2>1, <2>2, SubSeqProperties
  <2>4. n - m + 1 = n - i /\ \A j \in 1..(n - i) : m + j - 1 = i + j
    BY <1>1
  <2>5. (m <= n <=> n - i # 0) /\ n - i >= 0
    BY <1>1
  <2> HIDE DEF m
  <2>6. QED
    BY <2>3, <2>4, <2>5
<1> HIDE DEF n, front, back
<1>5. r = front \o back
  BY DEF Without, front, back, n
<1>6. /\ r \in Seq(Conns) /\ Len(r) = n - 1
      /\ \A j \in 1..(n - 1) : r[j] = IF j < i THEN pending[j] ELSE pending[j + 1]
  <2>1. /\ r \in Seq(Conns) /\ Len(r) = Len(front) + Len(back)
        /\ \A j \in 1..(Len(front) + Len(back)) :
              r[j] = IF j <= Len(front) THEN front[j] ELSE back[j - Len(front)]
    <3> HIDE DEF r
    <3>1. front \in Seq(Conns) /\ back \in Seq(Conns)
      BY <1>3, <1>4
    <3>2. QED
      BY <3>1, <1>5, ConcatProperties
  <2>2. Len(front) + Len(back) = n - 1
    BY <1>1, <1>3, <1>4
  <2>3. ASSUME NEW j \in 1..(n - 1)
        PROVE  r[j] = IF j < i THEN pending[j] ELSE pending[j + 1]
    <3>1. CASE j < i
      BY <3>1, <2>1, <2>2, <1>1, <1>3
    <3>2. CASE j >= i
      <4>1. j - (i - 1) \in 1..(n - i) /\ i + (j - (i - 1)) = j + 1
        BY <3>2, <1>1
      <4>2. back[j - (i - 1)] = pending[j + 1]
        BY <4>1, <1>4
      <4>3. QED
        BY <3>2, <4>2, <2>1, <2>2, <1>1, <1>3
    <3>3. QED
      BY <3>1, <3>2, <1>1
  <2>4. QED
    BY <2>1, <2>2, <2>3
<1>7. DOMAIN r = 1..(n - 1)
  BY <1>6, LenProperties
<1> HIDE DEF r
<1>8. Once(r)
  <2> SUFFICES ASSUME NEW j \in DOMAIN r, NEW k \in DOMAIN r, r[j] = r[k]
               PROVE  j = k
    BY DEF Once
  <2> DEFINE At(x) == IF x < i THEN x ELSE x + 1
  <2>1. /\ At(j) \in 1..n /\ r[j] = pending[At(j)]
        /\ At(k) \in 1..n /\ r[k] = pending[At(k)]
    BY <1>1, <1>6, <1>7
  <2>2. At(j) = At(k)
    BY <2>1, <1>1 DEF Once
  <2>3. QED
    BY <2>2, <1>1, <1>7
<1>9. ASSUME NEW d PROVE Waits(r, d) <=> Waits(pending, d) /\ d # pending[i]
  <2>1. ASSUME Waits(r, d) PROVE Waits(pending, d) /\ d # pending[i]
    <3>1. PICK j \in DOMAIN r : r[j] = d
      BY <2>1 DEF Waits
    <3>2. PICK k \in 1..n : k # i /\ pending[k] = d
      BY <3>1, <1>1, <1>6, <1>7
    <3>3. QED
      BY <3>2, <1>1 DEF Once, Waits
  <2>2. ASSUME Waits(pending, d), d # pending[i] PROVE Waits(r, d)
    <3>1. PICK k \in 1..n : pending[k] = d
      BY <2>2, <1>1 DEF Waits
    <3>2. k # i
      BY <3>1, <2>2
    <3>3. CASE k < i
      BY <3>1, <3>3, <1>1, <1>6, <1>7 DEF Waits
    <3>4. CASE k > i
      <4>1. k - 1 \in 1..(n - 1) /\ r[k - 1] = pending[k]
        BY <3>4, <1>1, <1>6
      <4>2. QED
        BY <4>1, <3>1, <1>7 DEF Waits
    <3>5. QED
      BY <3>2, <3>3, <3>4, <1>1
  <2>3. QED
    BY <2>1, <2>2
<1>10. i # 1 => r # <<>> /\ Head(r) = Head(pending)
  <2> SUFFICES ASSUME i # 1 PROVE r # <<>> /\ Head(r) = Head(pending)
    OBVIOUS
  <2>1. 1 \in 1..(n - 1) /\ 1 < i
    BY <1>1
  <2>2. r[1] = pending[1] /\ Len(r) # 0
    BY <2>1, <1>1, <1>6
  <2>3. r # <<>> /\ pending # <<>>
    BY <2>2, <1>1, EmptySeq
  <2>4. QED
    BY <2>2, <2>3
<1>11. QED
  BY <1>6, <1>8, <1>9, <1>10 DEF r

-----------------------------------------------------------------------------
(* The inductive invariant.                                                *)

\* A connection has one command under way at most, and where its handler
\* stands tells of which kind.
CommandsFit ==
    /\ OneEach(commands)
    /\ \A c \in Conns :
          /\ Asks(commands, "acquire", c) => pc[c] \in {"queued", "idle"}
          /\ Asks(commands, "observe", c) => pc[c] = "observing"
          /\ Asks(commands, "release", c) => pc[c] \in {"idle", "replying"}

\* A request is queued once, by a handler that waits or is gone, and after
\* everything the handler has sent was taken.
QueueFits ==
    /\ Once(pending)
    /\ \A c \in Conns : Waits(pending, c) =>
          /\ pc[c] \in {"queued", "idle"}
          /\ \A kind \in {"acquire", "observe", "release"} : ~Asks(commands, kind, c)

InFlight(l) == {c \in Unsettled : Budgeted(c) /\ Launch(c) = l}

\* InFlightAccounting, and that a launch without a budget has nothing in flight.
Recorded(b) == IF b = NoBudget THEN 0 ELSE b.in_flight
RecordsExact == \A l \in Launches : Recorded(budgets[l]) = Cardinality(InFlight(l))

\* Nothing is granted and no cooldown begins until the loop is done granting.
GrantingIsWarm == phase = "granting" => cooldown = 0

BarredForGood(b) == b # NoBudget /\ (b.accounting_blocked \/ b.consumed >= b.limit)
CondemnedIsBarred == \A l \in Launches : l \in condemned => BarredForGood(budgets[l])

\* A head that was passed over goes next: its launch is not the one served
\* last.  A background request that lost its age has lost its handler.
HeadGoesNext ==
    \/ passed = 0
    \/ /\ passed = 1 /\ pending # <<>>
       /\ IF Steady(Head(pending)) THEN Launch(Head(pending)) # last_launch
                                   ELSE is_closed(Head(pending))

Queues == CommandsFit /\ QueueFits

IInv ==
    /\ TypeOK
    /\ Queues
    /\ PermitAccounting
    /\ RecordsExact
    /\ GrantingIsWarm
    /\ CondemnedIsBarred
    /\ HeadGoesNext

-----------------------------------------------------------------------------
(* Lemmas about counting, the envelope and budgets.                        *)

Foregrounds(S) == {c \in S : is_foreground_inference(c)}

\* One more permit, and one more of its kind.
LEMMA CountAdds ==
    ASSUME NEW S \in SUBSET Conns, NEW c \in Conns, c \notin S
    PROVE  /\ Cardinality(S \cup {c}) = Cardinality(S) + 1
           /\ Cardinality(Foregrounds(S \cup {c})) =
                 IF is_foreground_inference(c) THEN Cardinality(Foregrounds(S)) + 1
                                               ELSE Cardinality(Foregrounds(S))
<1>1. IsFiniteSet(S) /\ IsFiniteSet(Foregrounds(S))
  <2>1. IsFiniteSet(S)
    BY SchedulerAssumption, FS_Subset
  <2>2. Foregrounds(S) \in SUBSET S
    BY DEF Foregrounds
  <2>3. QED
    BY <2>1, <2>2, FS_Subset
<1>2. Foregrounds(S \cup {c}) =
        IF is_foreground_inference(c) THEN Foregrounds(S) \cup {c} ELSE Foregrounds(S)
  BY DEF Foregrounds
<1>3. c \notin Foregrounds(S)
  BY DEF Foregrounds
<1>4. QED
  BY <1>1, <1>2, <1>3, FS_AddElement

\* One permit less, and one less of its kind.
LEMMA CountDrops ==
    ASSUME NEW S \in SUBSET Conns, NEW c \in S
    PROVE  /\ Cardinality(S) \in Nat \ {0}
           /\ Cardinality(S \ {c}) = Cardinality(S) - 1
           /\ Cardinality(Foregrounds(S)) \in Nat
           /\ is_foreground_inference(c) => Cardinality(Foregrounds(S)) # 0
           /\ Cardinality(Foregrounds(S \ {c})) =
                 IF is_foreground_inference(c) THEN Cardinality(Foregrounds(S)) - 1
                                               ELSE Cardinality(Foregrounds(S))
<1>1. IsFiniteSet(S) /\ IsFiniteSet(Foregrounds(S))
  <2>1. IsFiniteSet(S)
    BY SchedulerAssumption, FS_Subset
  <2>2. Foregrounds(S) \in SUBSET S
    BY DEF Foregrounds
  <2>3. QED
    BY <2>1, <2>2, FS_Subset
<1>2. Foregrounds(S \ {c}) =
        IF is_foreground_inference(c) THEN Foregrounds(S) \ {c} ELSE Foregrounds(S)
  BY DEF Foregrounds
<1>3. is_foreground_inference(c) => c \in Foregrounds(S)
  BY DEF Foregrounds
<1>4. /\ Cardinality(S) \in Nat \ {0}
      /\ Cardinality(S \ {c}) = Cardinality(S) - 1
  BY <1>1, FS_RemoveElement, FS_CardinalityType, FS_EmptySet
<1>5. /\ Cardinality(Foregrounds(S)) \in Nat
      /\ is_foreground_inference(c) => Cardinality(Foregrounds(S)) # 0
  BY <1>1, <1>3, FS_CardinalityType, FS_EmptySet
<1>6. is_foreground_inference(c) =>
        Cardinality(Foregrounds(S) \ {c}) = Cardinality(Foregrounds(S)) - 1
  BY <1>1, <1>3, FS_RemoveElement
<1>7. QED
  BY <1>2, <1>4, <1>5, <1>6

\* An observation moves the window and the cooldown within their ranges.
LEMMA EnvelopeRanges ==
    ASSUME NEW outcome, NEW foreground,
           NEW w \in 1..MAX_WINDOW, NEW t \in 0..NEVER
    PROVE  /\ Capacity!WindowsAfter(outcome, foreground, w) \subseteq 1..MAX_WINDOW
           /\ Capacity!CooldownsAfter(outcome, foreground, t) \subseteq 0..NEVER
<1> USE SchedulerAssumption DEF Capacity!CapacityParameters, Capacity!Larger, Capacity!Smaller
<1>1. /\ Capacity!AfterRateLimit(w) \in 1..MAX_WINDOW
      /\ Capacity!Decremented(w) \in 1..MAX_WINDOW
      /\ Capacity!Halved(w) \in 1..MAX_WINDOW
      /\ Capacity!Smaller(w + 1, MAX_WINDOW) \in 1..MAX_WINDOW
  BY DEF Capacity!AfterRateLimit, Capacity!Decremented, Capacity!Halved,
         Capacity!AfterSoftFailure
<1>2. Capacity!WindowsAfter(outcome, foreground, w) \subseteq 1..MAX_WINDOW
  BY <1>1 DEF Capacity!WindowsAfter
<1>3. \A a, b \in 0..NEVER : Capacity!Extended(a, b) \in 0..NEVER /\ Capacity!Larger(a, b) \in 0..NEVER
  BY DEF Capacity!Extended
<1>4. Hints \subseteq 0..NEVER /\ LocalDelays \subseteq 0..NEVER
  OBVIOUS
<1>5. Capacity!CooldownsAfter(outcome, foreground, t) \subseteq 0..NEVER
  BY <1>3, <1>4 DEF Capacity!CooldownsAfter
<1>6. QED
  BY <1>2, <1>5

\* Budgets without the bound on what is in flight, which follows from counting.
BudgetRecords ==
    [limit : Nat, consumed : Nat, in_flight : Nat, accounting_blocked : BOOLEAN]

LEMMA BudgetsAreRecords ==
    Budgets \subseteq BudgetRecords \cup {NoBudget} /\ NoBudget \notin BudgetRecords
<1>1. Cardinality(Conns) \in Nat
  BY SchedulerAssumption, FS_CardinalityType
<1>2. Budgets \subseteq BudgetRecords \cup {NoBudget}
  BY <1>1 DEF Budgets, BudgetRecords
<1>3. \A b \in BudgetRecords : b.limit # NoBudget.limit
  BY DEF BudgetRecords, NoBudget, NONE
<1>4. QED
  BY <1>2, <1>3

\* A grant changes the in-flight count of its launch and nothing else.
LEMMA ChargeFacts ==
    ASSUME TypeOK, NEW c \in Conns
    PROVE  /\ Charged(c) \in [Launches -> BudgetRecords \cup {NoBudget}]
           /\ \A l \in Launches :
                 IF Budgeted(c) /\ l = Launch(c)
                 THEN /\ Recorded(Charged(c)[l]) = Recorded(budgets[l]) + 1
                      /\ BarredForGood(budgets[l]) => BarredForGood(Charged(c)[l])
                 ELSE Charged(c)[l] = budgets[l]
<1> DEFINE l0 == Launch(c)
           b0 == EntryOf(l0, Request[c].budget)
<1>1. Request[c].budget \in Nat \cup {NONE} /\ l0 \in Launches
  BY SchedulerAssumption DEF Launch
<1>2. /\ budgets \in [Launches -> BudgetRecords \cup {NoBudget}]
      /\ NoBudget \notin BudgetRecords
  BY BudgetsAreRecords DEF TypeOK
<1>3. CASE ~Budgeted(c)
  BY <1>2, <1>3 DEF Charged
<1>4. CASE Budgeted(c)
  <2>1. /\ b0 \in BudgetRecords /\ b0.in_flight = Recorded(budgets[l0])
        /\ budgets[l0] # NoBudget => b0 = budgets[l0]
    <3>1. Request[c].budget \in Nat
      BY <1>1, <1>4 DEF Budgeted
    <3>2. BudgetState(Request[c].budget) \in BudgetRecords
      BY <3>1 DEF BudgetState, BudgetRecords
    <3>3. QED
      BY <1>1, <1>2, <3>2 DEF EntryOf, Recorded, BudgetState
  <2> DEFINE b1 == [b0 EXCEPT !.in_flight = @ + 1]
  <2>2. /\ b1 \in BudgetRecords /\ b1.in_flight = b0.in_flight + 1
        /\ b1.accounting_blocked = b0.accounting_blocked
        /\ b1.consumed = b0.consumed /\ b1.limit = b0.limit
    BY <2>1 DEF BudgetRecords
  <2>3. Charged(c) = [budgets EXCEPT ![l0] = b1]
    BY <1>4 DEF Charged
  <2>4. b1 # NoBudget
    BY <1>2, <2>2
  <2> HIDE DEF b0, b1, l0
  <2>5. Recorded(b1) = Recorded(budgets[l0]) + 1
    BY <2>1, <2>2, <2>4 DEF Recorded
  <2>6. BarredForGood(budgets[l0]) => BarredForGood(b1)
    BY <2>1, <2>2, <2>4 DEF BarredForGood
  <2>7. QED
    BY <1>1, <1>2, <1>4, <2>2, <2>3, <2>5, <2>6 DEF l0
<1>5. QED
  BY <1>3, <1>4

\* An observation takes one attempt out of its launch's in-flight count; what
\* bars the launch stays.
LEMMA SettleFacts ==
    ASSUME TypeOK, NEW c \in Conns,
           Budgeted(c) => Recorded(budgets[Launch(c)]) > 0
    PROVE  /\ Settled(c) \in [Launches -> BudgetRecords \cup {NoBudget}]
           /\ \A l \in Launches :
                 IF Budgeted(c) /\ l = Launch(c)
                 THEN /\ Recorded(Settled(c)[l]) = Recorded(budgets[l]) - 1
                      /\ BarredForGood(budgets[l]) => BarredForGood(Settled(c)[l])
                 ELSE Settled(c)[l] = budgets[l]
<1> DEFINE l0 == Launch(c)
           b0 == EntryOf(l0, Request[c].budget)
           verified == b0.limit = Request[c].budget /\ report[c].usage # NONE
<1>1. Request[c].budget \in Nat \cup {NONE} /\ l0 \in Launches
  BY SchedulerAssumption DEF Launch
<1>2. /\ budgets \in [Launches -> BudgetRecords \cup {NoBudget}]
      /\ NoBudget \notin BudgetRecords
  BY BudgetsAreRecords DEF TypeOK
<1>3. CASE ~Budgeted(c)
  BY <1>2, <1>3 DEF Settled
<1>4. CASE Budgeted(c)
  <2>1. /\ b0 = budgets[l0] /\ b0 \in BudgetRecords /\ b0.in_flight > 0
        /\ b0.in_flight = Recorded(budgets[l0])
    BY <1>1, <1>2, <1>4 DEF Recorded, EntryOf
  <2>2. report[c].usage \in Nat \cup {NONE}
    BY SchedulerAssumption DEF TypeOK, Abandoned
  <2> DEFINE b1 == [b0 EXCEPT !.in_flight = Lowered(@),
                              !.consumed = IF verified THEN @ + report[c].usage ELSE @,
                              !.accounting_blocked = @ \/ ~verified]
  <2>3. Settled(c) = [budgets EXCEPT ![l0] = b1]
    BY <1>4 DEF Settled
  <2>4. /\ b1 \in BudgetRecords /\ b1.in_flight = b0.in_flight - 1
        /\ b0.accounting_blocked => b1.accounting_blocked
        /\ b1.consumed >= b0.consumed /\ b1.limit = b0.limit
    <3> HIDE DEF verified, b0
    <3>1. verified \in BOOLEAN /\ (verified => report[c].usage \in Nat)
      BY <2>2 DEF verified
    <3>2. /\ b1.limit = b0.limit
          /\ b1.in_flight = Lowered(b0.in_flight)
          /\ b1.consumed = IF verified THEN b0.consumed + report[c].usage ELSE b0.consumed
          /\ b1.accounting_blocked = (b0.accounting_blocked \/ ~verified)
          /\ DOMAIN b1 = DOMAIN b0
      BY <2>1 DEF BudgetRecords
    <3>3. b0.consumed \in Nat /\ b0.in_flight \in Nat /\ b0.limit \in Nat
          /\ b0.accounting_blocked \in BOOLEAN
      BY <2>1 DEF BudgetRecords
    <3>4. Lowered(b0.in_flight) \in Nat /\ Lowered(b0.in_flight) = b0.in_flight - 1
      BY <3>3, <2>1 DEF Lowered
    <3>5. (IF verified THEN b0.consumed + report[c].usage ELSE b0.consumed) \in Nat
      BY <3>1, <3>3
    <3>6. (b0.accounting_blocked \/ ~verified) \in BOOLEAN
      OBVIOUS
    <3>7. b1 \in BudgetRecords
      BY <2>1, <3>4, <3>5, <3>6 DEF BudgetRecords
    <3>8. b1.consumed >= b0.consumed
      BY <3>1, <3>2, <3>3
    <3>9. b0.accounting_blocked => b1.accounting_blocked
      BY <3>2
    <3>10. QED
      BY <3>2, <3>4, <3>7, <3>8, <3>9
  <2>5. b1 # NoBudget
    BY <1>2, <2>4
  <2> HIDE DEF b0, b1, l0
  <2>6. Recorded(b1) = Recorded(budgets[l0]) - 1
    BY <2>1, <2>4, <2>5 DEF Recorded
  <2>7. BarredForGood(budgets[l0]) => BarredForGood(b1)
    <3>1. /\ b0.consumed \in Nat /\ b0.limit \in Nat
          /\ b1.consumed \in Nat /\ b1.limit \in Nat
      BY <2>1, <2>4 DEF BudgetRecords
    <3>2. QED
      BY <2>1, <2>4, <2>5, <3>1 DEF BarredForGood
  <2>8. QED
    BY <1>1, <1>2, <1>4, <2>3, <2>4, <2>6, <2>7 DEF l0
<1>5. QED
  BY <1>3, <1>4

-----------------------------------------------------------------------------
(* What a step does to the queues and to the sets that are counted.        *)

Kinds == {"acquire", "observe", "release"}
Labels == {"idle", "queued", "granted", "rejected", "leased", "observing", "observed",
           "replying", "releasing", "lost", "outlived"}

\* The step of a client or of a handler: where it leads and what it sends.
Moves(c, to) ==
    \/ /\ commands' = commands
       /\ \/ to = pc[c]
          \/ pc[c] \in {"queued", "rejected", "replying", "outlived"} /\ to = "idle"
          \/ pc[c] = "granted" /\ to \in {"lost", "leased"}
          \/ pc[c] = "observed" /\ to = "releasing"
    \/ /\ Send("acquire", c)
       /\ pc[c] = "idle" /\ to = "queued"
       /\ \A i \in DOMAIN commands : commands[i].conn # c
       /\ ~Waits(pending, c)
    \/ /\ Send("observe", c)
       /\ pc[c] \in {"granted", "leased"} /\ to = "observing"
    \/ /\ Send("release", c)
       /\ pc[c] \in {"observed", "releasing"} /\ to \in {"idle", "replying"}

ConnStep(c) ==
    Connect(c) \/ ClientLeaves(c) \/ ClientReports(c) \/ Handler(c) \/ OutlivedAttemptEnds(c) \/ Age(c)

\* Clients and handlers change nothing of the scheduler's but its commands.
LEMMA ConnStepMoves ==
    ASSUME TypeOK, NEW c \in Conns, ConnStep(c)
    PROVE  /\ UNCHANGED <<queue, permits, capacity, budgets, storage, condemned>>
           /\ \E to \in Labels : Goto(c, to) /\ Moves(c, to)
           /\ open' \in [Conns -> BOOLEAN]
           /\ report' \in [Conns -> Reports \cup {Abandoned}]
           /\ eligible' \in [Conns -> BOOLEAN]
           /\ \E a \in BOOLEAN : aged' = [aged EXCEPT ![c] = a]
<1>0. /\ pc \in [Conns -> Labels]
      /\ open \in [Conns -> BOOLEAN] /\ report \in [Conns -> Reports \cup {Abandoned}]
      /\ eligible \in [Conns -> BOOLEAN] /\ aged \in [Conns -> BOOLEAN]
      /\ \E a \in BOOLEAN : aged = [aged EXCEPT ![c] = a]
  BY DEF TypeOK, Labels
<1>1. CASE Connect(c)
  BY <1>0, <1>1 DEF Connect, Goto, Moves, Waits, Labels, queue, permits, capacity, storage, history
<1>2. CASE ClientLeaves(c)
  <2>1. Goto(c, pc[c]) /\ Moves(c, pc[c]) /\ pc[c] \in Labels
    BY <1>0, <1>2 DEF ClientLeaves, Goto, Moves
  <2>2. QED
    BY <1>0, <1>2, <2>1 DEF ClientLeaves, queue, permits, capacity, storage, history
<1>3. CASE Age(c)
  <2>1. Goto(c, pc[c]) /\ Moves(c, pc[c]) /\ pc[c] \in Labels
    BY <1>0, <1>3 DEF Age, Goto, Moves
  <2>2. QED
    BY <1>0, <1>3, <2>1 DEF Age, queue, permits, capacity, storage, history
<1>4. CASE ClientReports(c)
  BY <1>0, <1>4 DEF ClientReports, Moves, Labels, queue, permits, capacity, storage, history
<1>5. CASE Handler(c)
  <2>1. CASE HandlerDisconnected(c)
    BY <1>0, <2>1 DEF HandlerDisconnected, Ends, Moves, Labels, queue, permits, capacity,
                      storage, history
  <2>2. CASE DeliverGrant(c)
    BY <1>0, <2>2 DEF DeliverGrant, Moves, Labels, queue, permits, capacity, storage, history
  <2>3. CASE GrantWriteFails(c) \/ LeaseAbandoned(c)
    BY <1>0, <2>3 DEF GrantWriteFails, LeaseAbandoned, Cancel, Moves, Labels, queue, permits,
                      capacity, storage, history
  <2>4. CASE DeliverRejection(c)
    BY <1>0, <2>4 DEF DeliverRejection, Returns, Ends, Moves, Labels, queue, permits, capacity,
                      storage, history
  <2>5. CASE FinishAbandoned(c)
    BY <1>0, <2>5 DEF FinishAbandoned, Returns, Ends, Moves, Labels, queue, permits, capacity,
                      storage
  <2>6. CASE ReleaseRetryable(c)
    BY <1>0, <2>6 DEF ReleaseRetryable, Moves, Labels, queue, permits, capacity, storage, history
  <2>7. CASE ReplyRetry(c)
    BY <1>0, <2>7 DEF ReplyRetry, Returns, Ends, Moves, Labels, queue, permits, capacity, storage
  <2>8. CASE ReplyComplete(c)
    BY <1>0, <2>8 DEF ReplyComplete, Moves, Labels, queue, permits, capacity, storage
  <2>9. CASE ReleaseCompleted(c)
    BY <1>0, <2>9 DEF ReleaseCompleted, Returns, Ends, Moves, Labels, queue, permits, capacity,
                      storage, history
  <2>10. QED
    BY <1>5, <2>1, <2>2, <2>3, <2>4, <2>5, <2>6, <2>7, <2>8, <2>9 DEF Handler
<1>6. CASE OutlivedAttemptEnds(c)
  BY <1>0, <1>6 DEF OutlivedAttemptEnds, Moves, Labels, queue, permits, capacity, storage, history
<1>7. QED
  BY <1>1, <1>2, <1>3, <1>4, <1>5, <1>6 DEF ConnStep

\* A connection that sends has no command under way, so the queues stay fit.
LEMMA MoveKeepsQueues ==
    ASSUME TypeOK, Queues, NEW c \in Conns, NEW to \in Labels, Goto(c, to), Moves(c, to),
           pending' = pending
    PROVE  commands' \in Seq(Commands) /\ Queues'
<1> USE DEF Queues, CommandsFit, QueueFits
<1>0. /\ pc \in [Conns -> Labels] /\ commands \in Seq(Commands)
      /\ pc' = [pc EXCEPT ![c] = to]
  BY DEF TypeOK, Labels, Goto
<1>1. CASE commands' = commands /\ to = pc[c]
  BY <1>0, <1>1
<1>2. CASE /\ commands' = commands
           /\ \/ pc[c] \in {"queued", "rejected", "replying", "outlived"} /\ to = "idle"
              \/ pc[c] = "granted" /\ to \in {"lost", "leased"}
              \/ pc[c] = "observed" /\ to = "releasing"
  BY <1>0, <1>2
<1>3. ASSUME NEW kind \in Kinds, Send(kind, c),
             \A i \in DOMAIN commands : commands[i].conn # c,
             ~Waits(pending, c),
             /\ kind = "acquire" => to \in {"queued", "idle"}
             /\ kind = "observe" => to = "observing"
             /\ kind = "release" => to \in {"idle", "replying"}
      PROVE  commands' \in Seq(Commands) /\ Queues'
  <2>1. /\ commands' \in Seq(Commands)
        /\ OneEach(commands')
        /\ \A k, d : Asks(commands', k, d) <=> Asks(commands, k, d) \/ (k = kind /\ d = c)
    BY <1>0, <1>3, SendAsks, SendKeepsOneEach DEF Send, Kinds
  <2>2. \A k : ~Asks(commands, k, c)
    BY <1>3 DEF Asks
  <2>3. QED
    BY <1>0, <1>3, <2>1, <2>2 DEF Kinds
<1>4. pc[c] \in {"granted", "leased", "observed", "releasing"} =>
        (\A i \in DOMAIN commands : commands[i].conn # c) /\ ~Waits(pending, c)
  <2> SUFFICES ASSUME pc[c] \in {"granted", "leased", "observed", "releasing"},
                      NEW i \in DOMAIN commands, commands[i].conn = c
               PROVE  FALSE
    OBVIOUS
  <2>1. commands[i] \in Commands
    BY <1>0, ElementOfSeq, LenProperties
  <2>2. commands[i] = [kind |-> commands[i].kind, conn |-> c] /\ commands[i].kind \in Kinds
    BY <2>1 DEF Commands, Kinds
  <2>3. Asks(commands, commands[i].kind, c)
    BY <2>2 DEF Asks
  <2>4. QED
    BY <2>2, <2>3 DEF Kinds
<1>5. CASE Send("acquire", c) /\ pc[c] = "idle" /\ to = "queued"
           /\ (\A i \in DOMAIN commands : commands[i].conn # c) /\ ~Waits(pending, c)
  BY <1>3, <1>5 DEF Kinds
<1>6. CASE Send("observe", c) /\ pc[c] \in {"granted", "leased"} /\ to = "observing"
  BY <1>3, <1>4, <1>6 DEF Kinds
<1>7. CASE Send("release", c) /\ pc[c] \in {"observed", "releasing"} /\ to \in {"idle", "replying"}
  BY <1>3, <1>4, <1>7 DEF Kinds
<1>8. QED
  BY <1>1, <1>2, <1>5, <1>6, <1>7 DEF Moves

\* A permit passes from the handler to its release command, and an attempt
\* stays unsettled until the scheduler takes its observation.
LEMMA MoveKeepsCounts ==
    ASSUME TypeOK, Queues, NEW c \in Conns, NEW to \in Labels, Goto(c, to), Moves(c, to)
    PROVE  Charging' = Charging /\ Unsettled' = Unsettled
<1>0. /\ pc \in [Conns -> Labels] /\ commands \in Seq(Commands) /\ OneEach(commands)
      /\ pc' = [pc EXCEPT ![c] = to]
  BY DEF TypeOK, Labels, Goto, Queues, CommandsFit
<1>1. /\ Releasing = {d \in Conns : Asks(commands, "release", d)}
      /\ Releasing' = {d \in Conns : Asks(commands', "release", d)}
  BY DEF Releasing, Asks
<1>2. ASSUME NEW kind \in Kinds, Send(kind, c)
      PROVE  \A d : Asks(commands', "release", d) <=>
                      Asks(commands, "release", d) \/ (kind = "release" /\ d = c)
  BY <1>0, <1>2, SendAsks DEF Send, Kinds
<1>3. CASE commands' = commands /\ to = pc[c]
  BY <1>0, <1>1, <1>3 DEF Charging, Unsettled
<1>4. CASE /\ commands' = commands
           /\ \/ pc[c] \in {"queued", "rejected", "replying", "outlived"} /\ to = "idle"
              \/ pc[c] = "granted" /\ to \in {"lost", "leased"}
              \/ pc[c] = "observed" /\ to = "releasing"
  BY <1>0, <1>1, <1>4 DEF Charging, Unsettled
<1>5. CASE Send("acquire", c) /\ pc[c] = "idle" /\ to = "queued"
  BY <1>0, <1>1, <1>2, <1>5 DEF Charging, Unsettled, Kinds
<1>6. CASE Send("observe", c) /\ pc[c] \in {"granted", "leased"} /\ to = "observing"
  BY <1>0, <1>1, <1>2, <1>6 DEF Charging, Unsettled, Kinds
<1>7. CASE Send("release", c) /\ pc[c] \in {"observed", "releasing"} /\ to \in {"idle", "replying"}
  BY <1>0, <1>1, <1>2, <1>7 DEF Charging, Unsettled, Kinds
<1>8. QED
  BY <1>3, <1>4, <1>5, <1>6, <1>7 DEF Moves

\* Receiving takes the oldest command, the only one of its connection.
LEMMA ReceiveTakes ==
    ASSUME TypeOK, Queues, Receive
    PROVE  LET c == Head(commands).conn
           IN  /\ c \in Conns
               /\ commands' \in Seq(Commands) /\ OneEach(commands')
               /\ \A k, d : Asks(commands', k, d) <=> Asks(commands, k, d) /\ d # c
               /\ \A k \in Kinds : Asks(commands, k, c) <=> k = Head(commands).kind
               /\ \/ Asks(commands, "acquire", c) /\ ReceiveAcquire(c)
                  \/ Asks(commands, "observe", c) /\ ReceiveObserve(c)
                  \/ Asks(commands, "release", c) /\ ReceiveRelease(c)
<1>1. /\ commands \in Seq(Commands) /\ OneEach(commands) /\ commands # <<>>
      /\ commands' = Tail(commands)
  BY DEF TypeOK, Queues, CommandsFit, Receive
<1> DEFINE c == Head(commands).conn
           kind == Head(commands).kind
<1>2. /\ Head(commands) \in Commands
      /\ \A k \in Kinds : Asks(commands, k, c) <=> k = kind
      /\ commands' \in Seq(Commands) /\ OneEach(commands')
      /\ \A k, d : Asks(commands', k, d) <=> Asks(commands, k, d) /\ d # c
  BY <1>1, TailTakes DEF Kinds
<1>3. c \in Conns /\ kind \in Kinds
  BY <1>2 DEF Commands, Kinds
<1>4. \/ kind = "acquire" /\ ReceiveAcquire(c)
      \/ kind = "observe" /\ ReceiveObserve(c)
      \/ kind = "release" /\ ReceiveRelease(c)
  BY DEF Receive
<1>5. QED
  BY <1>2, <1>3, <1>4 DEF Kinds

\* Serving takes one request off the queue, whose handler waits if it is
\* answered.
LEMMA ServeTakes ==
    ASSUME TypeOK, Queues, NEW i \in DOMAIN pending, pending' = Without(i)
    PROVE  /\ pending[i] \in Conns
           /\ pending' \in Seq(Conns) /\ Once(pending')
           /\ \A d : Waits(pending', d) <=> Waits(pending, d) /\ d # pending[i]
           /\ \A kind \in Kinds : ~Asks(commands, kind, pending[i])
           /\ pc[pending[i]] \in {"queued", "idle"}
<1>1. pending \in Seq(Conns) /\ Once(pending)
  BY DEF TypeOK, Queues, QueueFits
<1>2. pending[i] \in Conns /\ Waits(pending, pending[i])
  BY <1>1, ElementOfSeq, LenProperties DEF Waits
<1>3. QED
  BY <1>1, <1>2, RequestTaken DEF Queues, QueueFits, Kinds

\* Steps of the loop and of time that serve nobody.
Quiet == \/ Timer \/ BeginSchedule \/ EndSchedule \/ SaveLater \/ SaveTruncates
         \/ SaveWrites \/ SaveFails \/ CooldownTick

LEMMA QuietSteps ==
    ASSUME Quiet
    PROVE  UNCHANGED <<handlers, commands, pending, last_launch, passed, permits, window,
                       budgets, crashes, history>>
BY DEF Quiet, Timer, BeginSchedule, EndSchedule, SaveLater, SaveTruncates, SaveWrites, SaveFails,
       CooldownTick, Capacity!Tick, queue, capacity, storage

\* The steps there are, as the lemmas below distinguish them.
LEMMA Steps ==
    ASSUME Next
    PROVE  \/ \E c \in Conns : ConnStep(c)
           \/ Receive
           \/ Retain
           \/ ServeNext
           \/ Quiet
           \/ Crash
BY DEF Next, ConnStep, Loop, Quiet

\* A new daemon has nothing in flight, and bars what the cache condemns.
LEMMA CrashBudgets ==
    ASSUME TypeOK, Crash
    PROVE  /\ budgets' \in [Launches -> BudgetRecords \cup {NoBudget}]
           /\ \A l \in Launches :
                 /\ Recorded(budgets'[l]) = 0
                 /\ l \in condemned' => BarredForGood(budgets'[l])
<1>1. CASE cache.torn
  <2>1. budgets' = [l \in Launches |-> NoBudget] /\ condemned' = {}
    BY <1>1 DEF Crash
  <2>2. QED
    BY <2>1 DEF Recorded
<1>2. CASE ~cache.torn
  <2>1. /\ cache.budgets \in [Launches -> BudgetRecords \cup {NoBudget}]
        /\ NoBudget \notin BudgetRecords
    <3>1. NoFile.torn
      BY DEF NoFile
    <3>2. cache # NoFile
      BY <1>2, <3>1
    <3>3. cache \in [torn : {FALSE}, window : 1..MAX_WINDOW, budgets : [Launches -> Budgets]]
      BY <3>2 DEF TypeOK
    <3>4. QED
      BY <3>3, BudgetsAreRecords
  <2>2. /\ budgets' = [l \in Launches |-> RestoredBudget(cache.budgets[l])]
        /\ condemned' = {l \in Launches :
              /\ cache.budgets[l] # NoBudget
              /\ \/ Barred(cache.budgets[l], cache.budgets[l].limit)
                 \/ cache.budgets[l].in_flight > 0}
    BY <1>2 DEF Crash
  <2>3. ASSUME NEW b \in BudgetRecords
        PROVE  /\ RestoredBudget(b) \in BudgetRecords
               /\ RestoredBudget(b).in_flight = 0
               /\ RestoredBudget(b).limit = b.limit
               /\ RestoredBudget(b).consumed = b.consumed
               /\ b.accounting_blocked \/ b.in_flight > 0 => RestoredBudget(b).accounting_blocked
    <3>1. b # NoBudget
      BY <2>1
    <3> DEFINE blocked == b.accounting_blocked \/ b.in_flight > 0
    <3>2. blocked \in BOOLEAN
      OBVIOUS
    <3>3. RestoredBudget(b) = [b EXCEPT !.in_flight = 0, !.accounting_blocked = blocked]
      BY <3>1 DEF RestoredBudget
    <3> HIDE DEF blocked
    <3>4. /\ RestoredBudget(b) \in BudgetRecords
          /\ RestoredBudget(b).in_flight = 0
          /\ RestoredBudget(b).limit = b.limit
          /\ RestoredBudget(b).consumed = b.consumed
          /\ RestoredBudget(b).accounting_blocked = blocked
      <4>1. /\ DOMAIN b = {"limit", "consumed", "in_flight", "accounting_blocked"}
            /\ b.limit \in Nat /\ b.consumed \in Nat
            /\ b = [limit |-> b.limit, consumed |-> b.consumed, in_flight |-> b.in_flight,
                    accounting_blocked |-> b.accounting_blocked]
        BY DEF BudgetRecords
      <4>2. RestoredBudget(b) = [limit |-> b.limit, consumed |-> b.consumed, in_flight |-> 0,
                                 accounting_blocked |-> blocked]
        BY <3>3, <4>1
      <4>3. QED
        BY <3>2, <4>1, <4>2 DEF BudgetRecords
    <3>5. QED
      BY <3>4 DEF blocked
  <2>4. ASSUME NEW l \in Launches, cache.budgets[l] = NoBudget
        PROVE  budgets'[l] = NoBudget /\ l \notin condemned'
    BY <2>2, <2>4 DEF RestoredBudget
  <2>5. ASSUME NEW l \in Launches, cache.budgets[l] # NoBudget
        PROVE  /\ budgets'[l] \in BudgetRecords
               /\ Recorded(budgets'[l]) = 0
               /\ l \in condemned' => BarredForGood(budgets'[l])
    <3>1. cache.budgets[l] \in BudgetRecords /\ budgets'[l] = RestoredBudget(cache.budgets[l])
      BY <2>1, <2>2, <2>5
    <3>2. /\ budgets'[l] \in BudgetRecords /\ budgets'[l] # NoBudget
          /\ budgets'[l].in_flight = 0
      BY <2>1, <2>3, <3>1
    <3>3. l \in condemned' => BarredForGood(budgets'[l])
      <4>1. SUFFICES ASSUME Barred(cache.budgets[l], cache.budgets[l].limit)
                            \/ cache.budgets[l].in_flight > 0
                     PROVE  BarredForGood(budgets'[l])
        BY <2>2
      <4>2. QED
        BY <2>3, <3>1, <3>2, <4>1 DEF Barred, BarredForGood
    <3>4. QED
      BY <3>2, <3>3 DEF Recorded
  <2>6. QED
    BY <2>2, <2>4, <2>5 DEF Recorded
<1>3. QED
  BY <1>1, <1>2

-----------------------------------------------------------------------------
(* Each part of the invariant is kept by every step.                       *)

\* The queues stay in step with the handlers.
LEMMA QueuesStep ==
    ASSUME IInv, Next
    PROVE  commands' \in Seq(Commands) /\ pending' \in Seq(Conns) /\ Queues'
<1>0. /\ TypeOK /\ Queues
      /\ pc \in [Conns -> Labels]
      /\ commands \in Seq(Commands) /\ pending \in Seq(Conns)
  BY DEF IInv, TypeOK, Labels
<1> USE DEF Queues, CommandsFit, QueueFits
<1>1. CASE \E c \in Conns : ConnStep(c)
  BY <1>0, <1>1, ConnStepMoves, MoveKeepsQueues DEF queue
<1>2. CASE Receive
  <2> DEFINE c == Head(commands).conn
  <2>1. /\ c \in Conns
        /\ commands' \in Seq(Commands) /\ OneEach(commands')
        /\ \A k, d : Asks(commands', k, d) <=> Asks(commands, k, d) /\ d # c
        /\ \/ Asks(commands, "acquire", c) /\ ReceiveAcquire(c)
           \/ Asks(commands, "observe", c) /\ ReceiveObserve(c)
           \/ Asks(commands, "release", c) /\ ReceiveRelease(c)
    BY <1>0, <1>2, ReceiveTakes
  <2> HIDE DEF c
  <2>2. CASE Asks(commands, "acquire", c) /\ ReceiveAcquire(c)
    <3>1. ~Waits(pending, c)
      BY <1>0, <2>1, <2>2 DEF Kinds
    <3>2. /\ pending' \in Seq(Conns) /\ Once(pending')
          /\ \A d : Waits(pending', d) <=> Waits(pending, d) \/ d = c
      BY <1>0, <2>1, <2>2, <3>1, RequestAppended DEF ReceiveAcquire
    <3>3. pc' = pc /\ pc[c] \in {"queued", "idle"}
      BY <1>0, <2>1, <2>2 DEF ReceiveAcquire
    <3>4. QED
      BY <1>0, <2>1, <3>2, <3>3
  <2>3. CASE Asks(commands, "observe", c) /\ ReceiveObserve(c)
    <3>1. pc[c] = "observing" /\ pc' = [pc EXCEPT ![c] = "observed"] /\ pending' = pending
      BY <1>0, <2>1, <2>3 DEF ReceiveObserve, Goto
    <3>2. QED
      BY <1>0, <2>1, <3>1
  <2>4. CASE Asks(commands, "release", c) /\ ReceiveRelease(c)
    <3>1. pc' = pc /\ pending' = pending
      BY <2>4 DEF ReceiveRelease
    <3>2. QED
      BY <1>0, <2>1, <3>1
  <2>5. QED
    BY <2>1, <2>2, <2>3, <2>4
<1>3. CASE Retain
  <2>1. PICK i \in DOMAIN pending : pending' = Without(i)
    BY <1>3 DEF Retain
  <2>2. pc' = pc /\ commands' = commands
    BY <1>3 DEF Retain, handlers
  <2>3. QED
    BY <1>0, <2>1, <2>2, ServeTakes
<1>4. CASE ServeNext
  <2>1. PICK i \in DOMAIN pending : pending' = Without(i) /\ (SkipClosed(i) \/ Reject(i) \/ Grant(i))
    BY <1>4 DEF ServeNext
  <2>2. commands' = commands
    BY <1>4 DEF ServeNext
  <2>3. /\ pending[i] \in Conns
        /\ pending' \in Seq(Conns) /\ Once(pending')
        /\ \A d : Waits(pending', d) <=> Waits(pending, d) /\ d # pending[i]
        /\ \A kind \in Kinds : ~Asks(commands, kind, pending[i])
    BY <1>0, <2>1, ServeTakes
  <2>4. \E to \in Labels : pc' = [pc EXCEPT ![pending[i]] = to]
    <3>1. CASE SkipClosed(i)
      <4>1. pc' = [pc EXCEPT ![pending[i]] = pc[pending[i]]] /\ pc[pending[i]] \in Labels
        BY <1>0, <2>3, <3>1 DEF SkipClosed
      <4>2. QED
        BY <4>1
    <3>2. CASE Reject(i)
      BY <3>2 DEF Reject, Goto, Labels
    <3>3. CASE Grant(i)
      BY <3>3 DEF Grant, Goto, Labels
    <3>4. QED
      BY <2>1, <3>1, <3>2, <3>3
  <2>5. QED
    BY <1>0, <2>2, <2>3, <2>4 DEF Kinds
<1>5. CASE Quiet
  BY <1>0, <1>5, QuietSteps DEF handlers
<1>6. CASE Crash
  <2>1. commands' = <<>> /\ pending' = <<>>
    BY <1>6 DEF Crash
  <2>2. QED
    BY <2>1 DEF OneEach, Once, Asks, Waits
<1>7. QED
  BY <1>1, <1>2, <1>3, <1>4, <1>5, <1>6, Steps

\* What is counted, if nothing moves a permit or settles an attempt.
LEMMA CountsKept ==
    ASSUME IInv, Charging' = Charging, Unsettled' = Unsettled, UNCHANGED <<permits, budgets>>
    PROVE  PermitAccounting' /\ RecordsExact'
<1>1. \A l : InFlight(l)' = InFlight(l)
  BY DEF InFlight
<1>2. QED
  BY <1>1 DEF IInv, PermitAccounting, RecordsExact, permits

\* The attempt an observation is about is among those its budget counts.
LEMMA ObserveFinds ==
    ASSUME IInv, NEW c \in Conns, pc[c] = "observing", Budgeted(c)
    PROVE  LET S == InFlight(Launch(c))
           IN  /\ c \in S
               /\ Cardinality(S \ {c}) = Cardinality(S) - 1
               /\ Recorded(budgets[Launch(c)]) > 0
<1> DEFINE S == InFlight(Launch(c))
<1>1. c \in S /\ S \in SUBSET Conns
  BY DEF InFlight, Unsettled
<1>2. IsFiniteSet(S) /\ Cardinality(S) \in Nat
  BY <1>1, SchedulerAssumption, FS_Subset, FS_CardinalityType
<1>3. Cardinality(S) > 0 /\ Cardinality(S \ {c}) = Cardinality(S) - 1
  BY <1>1, <1>2, FS_RemoveElement, FS_EmptySet
<1>4. Launch(c) \in Launches
  BY SchedulerAssumption DEF Launch
<1>5. QED
  BY <1>1, <1>3, <1>4 DEF IInv, RecordsExact

\* Permits and in-flight counts follow the handlers.
LEMMA CountsStep ==
    ASSUME IInv, Next
    PROVE  PermitAccounting' /\ RecordsExact'
<1>0. /\ TypeOK /\ Queues /\ PermitAccounting /\ RecordsExact
      /\ pc \in [Conns -> Labels]
      /\ budgets \in [Launches -> Budgets]
      /\ \A c \in Conns : Launch(c) \in Launches
  BY SchedulerAssumption DEF IInv, TypeOK, Labels, Launch
<1>00. /\ Releasing = {d \in Conns : Asks(commands, "release", d)}
       /\ Releasing' = {d \in Conns : Asks(commands', "release", d)}
  BY DEF Releasing, Asks
<1>000. /\ Charging \in SUBSET Conns
        /\ active = Cardinality(Charging) /\ active_fg = Cardinality(Foregrounds(Charging))
        /\ PermitAccounting' <=>
              /\ active' = Cardinality(Charging') /\ active_fg' = Cardinality(Foregrounds(Charging'))
  BY <1>0 DEF Charging, Releasing, PermitAccounting, Foregrounds
<1>1. CASE \E c \in Conns : ConnStep(c)
  BY <1>0, <1>1, ConnStepMoves, MoveKeepsCounts, CountsKept
<1>2. CASE Receive
  <2> DEFINE c == Head(commands).conn
  <2>1. /\ c \in Conns
        /\ \A k, d : Asks(commands', k, d) <=> Asks(commands, k, d) /\ d # c
        /\ \A k \in Kinds : Asks(commands, k, c) <=> k = Head(commands).kind
        /\ \/ Asks(commands, "acquire", c) /\ ReceiveAcquire(c)
           \/ Asks(commands, "observe", c) /\ ReceiveObserve(c)
           \/ Asks(commands, "release", c) /\ ReceiveRelease(c)
    BY <1>0, <1>2, ReceiveTakes
  <2> HIDE DEF c
  <2>2. CASE Asks(commands, "acquire", c) /\ ReceiveAcquire(c)
    <3>1. pc' = pc /\ UNCHANGED <<permits, budgets>> /\ ~Asks(commands, "release", c)
      BY <2>1, <2>2 DEF ReceiveAcquire, permits, Kinds
    <3>2. Charging' = Charging /\ Unsettled' = Unsettled
      BY <1>00, <2>1, <3>1 DEF Charging, Unsettled
    <3>3. QED
      BY <3>1, <3>2, CountsKept
  <2>3. CASE Asks(commands, "observe", c) /\ ReceiveObserve(c)
    <3>1. /\ pc[c] = "observing" /\ pc' = [pc EXCEPT ![c] = "observed"]
          /\ UNCHANGED permits /\ budgets' = Settled(c) /\ ~Asks(commands, "release", c)
      BY <1>0, <2>1, <2>3 DEF ReceiveObserve, Goto, permits, Kinds, Queues, CommandsFit
    <3>2. Charging' = Charging
      BY <1>0, <1>00, <2>1, <3>1 DEF Charging
    <3>3. PermitAccounting'
      BY <1>000, <3>1, <3>2 DEF permits
    <3>4. c \in Unsettled /\ Unsettled' = Unsettled \ {c}
      BY <1>0, <2>1, <3>1 DEF Unsettled
    <3>5. \A l \in Launches :
            InFlight(l)' = IF Budgeted(c) /\ l = Launch(c) THEN InFlight(l) \ {c} ELSE InFlight(l)
      BY <3>4 DEF InFlight
    <3>6. Budgeted(c) =>
            /\ Cardinality(InFlight(Launch(c)) \ {c}) = Cardinality(InFlight(Launch(c))) - 1
            /\ Recorded(budgets[Launch(c)]) > 0
      BY <2>1, <3>1, ObserveFinds
    <3>7. \A l \in Launches :
            IF Budgeted(c) /\ l = Launch(c)
            THEN Recorded(budgets'[l]) = Recorded(budgets[l]) - 1
            ELSE budgets'[l] = budgets[l]
      BY <1>0, <2>1, <3>1, <3>6, SettleFacts
    <3>8. RecordsExact'
      BY <1>0, <3>5, <3>6, <3>7 DEF RecordsExact
    <3>9. QED
      BY <3>3, <3>8
  <2>4. CASE Asks(commands, "release", c) /\ ReceiveRelease(c)
    <3>1. /\ pc[c] \in {"idle", "replying"} /\ pc' = pc /\ budgets' = budgets
          /\ active' = Lowered(active)
          /\ active_fg' = IF is_foreground_inference(c) THEN Lowered(active_fg) ELSE active_fg
      BY <1>0, <2>1, <2>4 DEF ReceiveRelease, Queues, CommandsFit
    <3>2. c \in Charging /\ Charging' = Charging \ {c} /\ Unsettled' = Unsettled
      BY <1>00, <2>1, <2>4, <3>1 DEF Charging, Unsettled
    <3>3. PermitAccounting'
      BY <1>000, <3>1, <3>2, CountDrops DEF Lowered
    <3>4. \A l : InFlight(l)' = InFlight(l)
      BY <3>2 DEF InFlight
    <3>5. QED
      BY <1>0, <3>1, <3>3, <3>4 DEF RecordsExact
  <2>5. QED
    BY <2>1, <2>2, <2>3, <2>4
<1>3. CASE Retain
  <2>1. UNCHANGED <<pc, commands, permits, budgets>>
    BY <1>3 DEF Retain, handlers
  <2>2. QED
    BY <2>1, CountsKept DEF Charging, Releasing, Unsettled
<1>4. CASE ServeNext
  <2>1. PICK i \in DOMAIN pending : pending' = Without(i) /\ (SkipClosed(i) \/ Reject(i) \/ Grant(i))
    BY <1>4 DEF ServeNext
  <2> DEFINE c == pending[i]
  <2>2. /\ commands' = commands /\ c \in Conns
        /\ ~Asks(commands, "release", c)
        /\ pc[c] \in {"queued", "idle"}
    BY <1>0, <1>4, <2>1, ServeTakes DEF ServeNext, Kinds
  <2>3. CASE SkipClosed(i)
    BY <2>2, <2>3, CountsKept DEF SkipClosed, Charging, Releasing, Unsettled
  <2>4. CASE Reject(i)
    <3>1. /\ pc' = [pc EXCEPT ![c] = "rejected"] /\ UNCHANGED <<permits, budgets>>
      BY <2>4 DEF Reject, Goto
    <3>2. Charging' = Charging /\ Unsettled' = Unsettled
      BY <1>0, <2>2, <3>1 DEF Charging, Releasing, Unsettled
    <3>3. QED
      BY <3>1, <3>2, CountsKept
  <2>5. CASE Grant(i)
    <3>1. /\ pc[c] = "queued" /\ pc' = [pc EXCEPT ![c] = "granted"]
          /\ active' = active + 1
          /\ active_fg' = IF is_foreground_inference(c) THEN active_fg + 1 ELSE active_fg
          /\ budgets' = Charged(c)
      BY <2>5 DEF Grant, Goto, is_closed
    <3> HIDE DEF c
    <3>2. c \notin Charging /\ Charging' = Charging \cup {c}
      BY <1>0, <1>00, <2>2, <3>1 DEF Charging
    <3>3. PermitAccounting'
      BY <1>000, <2>2, <3>1, <3>2, CountAdds
    <3>4. c \notin Unsettled /\ Unsettled' = Unsettled \cup {c}
      BY <1>0, <2>2, <3>1 DEF Unsettled
    <3>5. \A l \in Launches :
            InFlight(l)' = IF Budgeted(c) /\ l = Launch(c) THEN InFlight(l) \cup {c} ELSE InFlight(l)
      BY <2>2, <3>4 DEF InFlight
    <3>6. \A l : Cardinality(InFlight(l) \cup {c}) = Cardinality(InFlight(l)) + 1
      <4>1. \A l : InFlight(l) \in SUBSET Conns /\ c \notin InFlight(l)
        BY <3>4 DEF InFlight, Unsettled
      <4>2. QED
        BY <4>1, SchedulerAssumption, FS_Subset, FS_AddElement
    <3>7. \A l \in Launches :
            IF Budgeted(c) /\ l = Launch(c)
            THEN Recorded(budgets'[l]) = Recorded(budgets[l]) + 1
            ELSE budgets'[l] = budgets[l]
      BY <1>0, <2>2, <3>1, ChargeFacts
    <3>8. RecordsExact'
      BY <1>0, <3>5, <3>6, <3>7 DEF RecordsExact
    <3>9. QED
      BY <3>3, <3>8
  <2>6. QED
    BY <2>1, <2>3, <2>4, <2>5
<1>5. CASE Quiet
  <2>1. UNCHANGED <<pc, commands, permits, budgets>>
    BY <1>5, QuietSteps DEF handlers
  <2>2. QED
    BY <2>1, CountsKept DEF Charging, Releasing, Unsettled
<1>6. CASE Crash
  <2>1. /\ pc' \in [Conns -> {"idle", "outlived"}]
        /\ commands' = <<>> /\ active' = 0 /\ active_fg' = 0
    BY <1>6 DEF Crash
  <2>2. Charging' = {} /\ Unsettled' = {}
    BY <2>1 DEF Charging, Releasing, Unsettled
  <2>3. PermitAccounting'
    BY <2>1, <2>2, <1>000, FS_EmptySet DEF Foregrounds
  <2>4. \A l \in Launches : Recorded(budgets'[l]) = 0
    BY <1>0, <1>6, CrashBudgets
  <2>5. \A l : InFlight(l)' = {}
    BY <2>2 DEF InFlight
  <2>6. QED
    BY <2>3, <2>4, <2>5, FS_EmptySet DEF RecordsExact
<1>7. QED
  BY <1>1, <1>2, <1>3, <1>4, <1>5, <1>6, Steps

\* Permits counted once each are no more than there are connections.
LEMMA PermitBounds ==
    ASSUME NEW S \in SUBSET Conns
    PROVE  /\ Cardinality(S) \in 0..Cardinality(Conns)
           /\ Cardinality(Foregrounds(S)) \in 0..Cardinality(S)
<1>1. IsFiniteSet(S) /\ Cardinality(S) <= Cardinality(Conns)
  BY SchedulerAssumption, FS_Subset
<1>2. Foregrounds(S) \in SUBSET S
  BY DEF Foregrounds
<1>3. IsFiniteSet(Foregrounds(S)) /\ Cardinality(Foregrounds(S)) <= Cardinality(S)
  BY <1>1, <1>2, FS_Subset
<1>4. QED
  BY <1>1, <1>3, SchedulerAssumption, FS_CardinalityType

\* A count of attempts bounds what a budget has in flight.
LEMMA InFlightBound ==
    ASSUME NEW b \in BudgetRecords \cup {NoBudget}, NEW S \in SUBSET Conns,
           Recorded(b) = Cardinality(S)
    PROVE  b \in Budgets
<1>1. CASE b = NoBudget
  BY <1>1 DEF Budgets
<1>2. CASE b # NoBudget
  <2>1. b \in BudgetRecords /\ b.in_flight \in 0..Cardinality(Conns)
    BY <1>2, PermitBounds DEF Recorded
  <2>2. QED
    BY <2>1 DEF BudgetRecords, Budgets
<1>3. QED
  BY <1>1, <1>2

\* The types are kept.
LEMMA TypesStep ==
    ASSUME IInv, Next
    PROVE  TypeOK'
<1>0. /\ TypeOK /\ Queues
      /\ pc \in [Conns -> Labels]
      /\ open \in [Conns -> BOOLEAN]
      /\ report \in [Conns -> Reports \cup {Abandoned}]
      /\ eligible \in [Conns -> BOOLEAN] /\ aged \in [Conns -> BOOLEAN]
      /\ window \in 1..MAX_WINDOW /\ cooldown \in 0..NEVER
      /\ last_launch \in Launches \cup {NONE}
      /\ budgets \in [Launches -> Budgets]
      /\ budgets \in [Launches -> BudgetRecords \cup {NoBudget}]
  BY BudgetsAreRecords DEF IInv, TypeOK, Labels
<1>1. /\ pc' \in [Conns -> Labels]
      /\ open' \in [Conns -> BOOLEAN]
      /\ report' \in [Conns -> Reports \cup {Abandoned}]
      /\ eligible' \in [Conns -> BOOLEAN] /\ aged' \in [Conns -> BOOLEAN]
  <2>1. CASE \E c \in Conns : ConnStep(c)
    BY <1>0, <2>1, ConnStepMoves DEF Goto
  <2>2. CASE Receive
    <3>1. UNCHANGED <<open, report, eligible, aged>>
      BY <2>2 DEF Receive
    <3>2. pc' \in [Conns -> Labels]
      BY <1>0, <2>2, ReceiveTakes DEF ReceiveAcquire, ReceiveObserve, ReceiveRelease, Goto, Labels
    <3>3. QED
      BY <1>0, <3>1, <3>2
  <2>3. CASE Retain
    BY <1>0, <2>3 DEF Retain, handlers
  <2>4. CASE ServeNext
    <3>1. PICK i \in DOMAIN pending : SkipClosed(i) \/ Reject(i) \/ Grant(i)
      BY <2>4 DEF ServeNext
    <3>2. UNCHANGED <<open, report, aged>>
      BY <2>4 DEF ServeNext
    <3>3. CASE SkipClosed(i)
      BY <1>0, <3>2, <3>3 DEF SkipClosed
    <3>4. CASE Reject(i)
      BY <1>0, <3>2, <3>4 DEF Reject, Goto, Labels
    <3>5. CASE Grant(i)
      <4>1. pc' \in [Conns -> Labels]
        BY <1>0, <3>5 DEF Grant, Goto, Labels
      <4>2. \E e \in BOOLEAN : eligible' = [eligible EXCEPT ![pending[i]] = e]
        BY <3>5 DEF Grant
      <4>3. QED
        BY <1>0, <3>2, <4>1, <4>2
    <3>6. QED
      BY <3>1, <3>3, <3>4, <3>5
  <2>5. CASE Quiet
    BY <1>0, <2>5, QuietSteps DEF handlers
  <2>6. CASE Crash
    BY <2>6 DEF Crash, Labels
  <2>7. QED
    BY <2>1, <2>2, <2>3, <2>4, <2>5, <2>6, Steps
<1>2. budgets' \in [Launches -> BudgetRecords \cup {NoBudget}]
  <2>1. CASE \E c \in Conns : ConnStep(c)
    BY <1>0, <2>1, ConnStepMoves
  <2>2. CASE Receive
    <3> DEFINE c == Head(commands).conn
    <3>1. /\ c \in Conns
          /\ \/ ReceiveAcquire(c)
             \/ Asks(commands, "observe", c) /\ ReceiveObserve(c)
             \/ ReceiveRelease(c)
      BY <1>0, <2>2, ReceiveTakes
    <3> HIDE DEF c
    <3>2. CASE ReceiveAcquire(c) \/ ReceiveRelease(c)
      BY <1>0, <3>2 DEF ReceiveAcquire, ReceiveRelease
    <3>3. CASE Asks(commands, "observe", c) /\ ReceiveObserve(c)
      <4>1. pc[c] = "observing"
        BY <1>0, <3>1, <3>3 DEF Queues, CommandsFit
      <4>2. QED
        BY <1>0, <3>1, <3>3, <4>1, ObserveFinds, SettleFacts DEF ReceiveObserve
    <3>4. QED
      BY <3>1, <3>2, <3>3
  <2>3. CASE Retain
    BY <1>0, <2>3 DEF Retain
  <2>4. CASE ServeNext
    <3>1. PICK i \in DOMAIN pending : SkipClosed(i) \/ Reject(i) \/ Grant(i)
      BY <2>4 DEF ServeNext
    <3>2. pending[i] \in Conns
      BY <1>0, ElementOfSeq, LenProperties DEF TypeOK
    <3>3. QED
      BY <1>0, <3>1, <3>2, ChargeFacts DEF SkipClosed, Reject, Grant
  <2>5. CASE Quiet
    BY <1>0, <2>5, QuietSteps
  <2>6. CASE Crash
    BY <1>0, <2>6, CrashBudgets
  <2>7. QED
    BY <2>1, <2>2, <2>3, <2>4, <2>5, <2>6, Steps
<1>3. /\ active' \in 0..Cardinality(Conns) /\ active_fg' \in 0..active'
      /\ budgets' \in [Launches -> Budgets]
  <2>1. PermitAccounting' /\ RecordsExact'
    BY CountsStep
  <2>2. Charging' \in SUBSET Conns /\ \A l : InFlight(l)' \in SUBSET Conns
    BY DEF Charging, Releasing, InFlight, Unsettled
  <2>3. active' = Cardinality(Charging') /\ active_fg' = Cardinality(Foregrounds(Charging'))
    BY <2>1 DEF PermitAccounting, Foregrounds
  <2>4. active' \in 0..Cardinality(Conns) /\ active_fg' \in 0..active'
    BY <2>2, <2>3, PermitBounds
  <2>5. \A l \in Launches : budgets'[l] \in Budgets
    BY <1>2, <2>1, <2>2, InFlightBound DEF RecordsExact
  <2>6. QED
    BY <1>2, <2>4, <2>5
<1>4. commands' \in Seq(Commands) /\ pending' \in Seq(Conns)
  BY QueuesStep
<1>5. window' \in 1..MAX_WINDOW /\ cooldown' \in 0..NEVER
  <2>1. CASE \E c \in Conns : ConnStep(c)
    BY <1>0, <2>1, ConnStepMoves DEF capacity
  <2>2. CASE Receive
    <3>1. PICK c \in Conns : ReceiveAcquire(c) \/ ReceiveObserve(c) \/ ReceiveRelease(c)
      BY <1>0, <2>2, ReceiveTakes
    <3>2. CASE ReceiveAcquire(c) \/ ReceiveRelease(c)
      BY <1>0, <3>2 DEF ReceiveAcquire, ReceiveRelease, capacity
    <3>3. CASE ReceiveObserve(c)
      BY <1>0, <3>3, EnvelopeRanges DEF ReceiveObserve, Capacity!Observe, capacity
    <3>4. QED
      BY <3>1, <3>2, <3>3
  <2>3. CASE Retain \/ ServeNext
    BY <1>0, <2>3 DEF Retain, ServeNext, capacity
  <2>4. CASE Quiet
    <3>1. window' = window
      BY <2>4, QuietSteps
    <3>2. CASE CooldownTick
      BY <1>0, <3>1, <3>2, SchedulerAssumption
      DEF CooldownTick, Capacity!Tick, Capacity!CapacityParameters
    <3>3. CASE ~CooldownTick
      BY <1>0, <2>4, <3>1, <3>3 DEF Quiet, Timer, BeginSchedule, EndSchedule, SaveLater, SaveTruncates, SaveWrites,
                 SaveFails, capacity
    <3>4. QED
      BY <3>2, <3>3
  <2>5. CASE Crash
    <3>1. INITIAL_WINDOW \in 1..MAX_WINDOW /\ MAX_WINDOW \in Nat /\ NEVER \in Nat
      BY SchedulerAssumption DEF Capacity!CapacityParameters
    <3>2. CASE cache.torn
      BY <2>5, <3>1, <3>2 DEF Crash
    <3>3. CASE ~cache.torn
      <4>1. NoFile.torn
        BY DEF NoFile
      <4>2. cache.window \in 1..MAX_WINDOW
        BY <1>0, <3>3, <4>1 DEF TypeOK
      <4>3. /\ window' \in {cache.window, INITIAL_WINDOW} \cup INITIAL_WINDOW..cache.window
            /\ cooldown' = 0
        BY <2>5, <3>3 DEF Crash
      <4>4. QED
        BY <3>1, <4>2, <4>3
    <3>4. QED
      BY <3>2, <3>3
  <2>6. QED
    BY <2>1, <2>2, <2>3, <2>4, <2>5, Steps
<1>6. phase' \in {"select", "schedule", "granting", "save", "writing"} /\ dirty' \in BOOLEAN
  <2>1. CASE \E c \in Conns : ConnStep(c)
    BY <1>0, <2>1, ConnStepMoves DEF TypeOK, queue, storage
  <2>2. CASE Receive
    BY <1>0, <2>2 DEF TypeOK, Receive, ReceiveAcquire, ReceiveObserve, ReceiveRelease
  <2>3. CASE Retain \/ ServeNext \/ Crash
    BY <1>0, <2>3 DEF TypeOK, Retain, ServeNext, Crash, storage
  <2>4. CASE Quiet
    BY <1>0, <2>4 DEF TypeOK, Quiet, Timer, BeginSchedule, EndSchedule, SaveLater, SaveTruncates,
                      SaveWrites, SaveFails, CooldownTick, AfterSchedule, queue, storage
  <2>5. QED
    BY <2>1, <2>2, <2>3, <2>4, Steps
<1>7. /\ cache' = NoFile \/ cache' \in [torn : {FALSE}, window : 1..MAX_WINDOW,
                                        budgets : [Launches -> Budgets]]
      /\ crashes' \in 0..MaxCrashes
  <2>1. CASE \E c \in Conns : ConnStep(c)
    BY <1>0, <2>1, ConnStepMoves DEF TypeOK, storage
  <2>2. CASE Receive \/ Retain \/ ServeNext
    BY <1>0, <2>2 DEF TypeOK, Receive, Retain, ServeNext, storage
  <2>3. CASE SaveWrites
    BY <1>0, <2>3 DEF TypeOK, SaveWrites, Snapshot
  <2>4. CASE Quiet /\ ~SaveWrites
    BY <1>0, <2>4 DEF TypeOK, Quiet, Timer, BeginSchedule, EndSchedule, SaveLater, SaveTruncates,
                      SaveFails, CooldownTick, storage
  <2>5. CASE Crash
    <3>1. cache' = cache /\ crashes' = crashes + 1 /\ crashes < MaxCrashes
      BY <2>5 DEF Crash
    <3>2. crashes' \in 0..MaxCrashes
      BY <1>0, <3>1, SchedulerAssumption DEF TypeOK
    <3>3. QED
      BY <1>0, <3>1, <3>2 DEF TypeOK
  <2>6. QED
    BY <2>1, <2>2, <2>3, <2>4, <2>5, Steps
<1>8. last_launch' \in Launches \cup {NONE}
  <2>1. CASE \E c \in Conns : ConnStep(c)
    BY <1>0, <2>1, ConnStepMoves DEF queue
  <2>2. CASE Receive \/ Retain \/ Crash
    BY <1>0, <2>2 DEF Receive, Retain, Crash
  <2>3. CASE ServeNext
    <3>1. PICK i \in DOMAIN pending : SkipClosed(i) \/ Reject(i) \/ Grant(i)
      BY <2>3 DEF ServeNext
    <3>2. pending[i] \in Conns
      BY <1>0, ElementOfSeq, LenProperties DEF TypeOK
    <3>3. QED
      BY <1>0, <3>1, <3>2, SchedulerAssumption DEF SkipClosed, Reject, Grant, Launch
  <2>4. CASE Quiet
    BY <1>0, <2>4, QuietSteps
  <2>5. QED
    BY <2>1, <2>2, <2>3, <2>4, Steps
<1>9. QED
  BY <1>1, <1>3, <1>4, <1>5, <1>6, <1>7, <1>8 DEF TypeOK, Labels

\* Grants go on only while no cooldown runs.
LEMMA WarmStep ==
    ASSUME IInv, Next
    PROVE  GrantingIsWarm'
<1> USE DEF IInv, GrantingIsWarm
<1>1. CASE \E c \in Conns : ConnStep(c)
  BY <1>1, ConnStepMoves DEF queue, capacity
<1>2. CASE Receive
  BY <1>2 DEF Receive
<1>3. CASE Retain \/ ServeNext
  BY <1>3 DEF Retain, ServeNext, capacity
<1>4. CASE BeginSchedule
  <2>1. cooldown' = cooldown /\ phase' = IF cooldown > 0 THEN AfterSchedule ELSE "granting"
    BY <1>4 DEF BeginSchedule, capacity
  <2>2. cooldown \in 0..NEVER
    BY DEF TypeOK
  <2>3. QED
    BY <2>1, <2>2, SchedulerAssumption DEF AfterSchedule, Capacity!CapacityParameters
<1>5. CASE CooldownTick
  BY <1>5, SchedulerAssumption DEF CooldownTick, Capacity!Tick, queue, Capacity!CapacityParameters
<1>6. CASE Timer \/ EndSchedule \/ SaveLater \/ SaveTruncates \/ SaveWrites \/ SaveFails
  BY <1>6 DEF Timer, EndSchedule, SaveLater, SaveTruncates, SaveWrites, SaveFails, AfterSchedule
<1>7. CASE Crash
  BY <1>7 DEF Crash
<1>8. QED
  BY <1>1, <1>2, <1>3, <1>4, <1>5, <1>6, <1>7, Steps DEF Quiet

\* What bars a launch is never forgotten by the daemon that found it barred.
LEMMA CondemnedStep ==
    ASSUME IInv, Next
    PROVE  CondemnedIsBarred'
<1>0. TypeOK /\ Queues /\ CondemnedIsBarred
  BY DEF IInv
<1>1. CASE \E c \in Conns : ConnStep(c)
  BY <1>0, <1>1, ConnStepMoves DEF CondemnedIsBarred
<1>2. CASE Receive
  <2> DEFINE c == Head(commands).conn
  <2>1. /\ c \in Conns
        /\ \/ ReceiveAcquire(c)
           \/ Asks(commands, "observe", c) /\ ReceiveObserve(c)
           \/ ReceiveRelease(c)
    BY <1>0, <1>2, ReceiveTakes
  <2>2. condemned' = condemned
    BY <1>2 DEF Receive, history
  <2> HIDE DEF c
  <2>3. CASE ReceiveAcquire(c) \/ ReceiveRelease(c)
    BY <1>0, <2>2, <2>3 DEF ReceiveAcquire, ReceiveRelease, CondemnedIsBarred
  <2>4. CASE Asks(commands, "observe", c) /\ ReceiveObserve(c)
    <3>1. budgets' = Settled(c) /\ pc[c] = "observing"
      BY <1>0, <2>1, <2>4 DEF ReceiveObserve, Queues, CommandsFit
    <3>2. \A l \in Launches : BarredForGood(budgets[l]) => BarredForGood(budgets'[l])
      BY <1>0, <2>1, <3>1, ObserveFinds, SettleFacts
    <3>3. QED
      BY <1>0, <2>2, <3>2 DEF CondemnedIsBarred
  <2>5. QED
    BY <2>1, <2>3, <2>4
<1>3. CASE Retain
  BY <1>0, <1>3 DEF Retain, history, CondemnedIsBarred
<1>4. CASE ServeNext
  <2>1. PICK i \in DOMAIN pending : SkipClosed(i) \/ Reject(i) \/ Grant(i)
    BY <1>4 DEF ServeNext
  <2>2. pending[i] \in Conns /\ condemned' = condemned
    BY <1>0, <1>4, ElementOfSeq, LenProperties DEF TypeOK, ServeNext, history
  <2>3. \A l \in Launches : BarredForGood(budgets[l]) => BarredForGood(budgets'[l])
    BY <1>0, <2>1, <2>2, ChargeFacts DEF SkipClosed, Reject, Grant
  <2>4. QED
    BY <1>0, <2>2, <2>3 DEF CondemnedIsBarred
<1>5. CASE Quiet
  BY <1>0, <1>5, QuietSteps DEF history, CondemnedIsBarred
<1>6. CASE Crash
  BY <1>0, <1>6, CrashBudgets DEF CondemnedIsBarred
<1>7. QED
  BY <1>1, <1>2, <1>3, <1>4, <1>5, <1>6, Steps

\* A request that is ready and first in the queue is passed over only for one
\* of another launch, when its own was served last.
LEMMA PassingOver ==
    ASSUME TypeOK, Queues, pending # <<>>, Steady(Head(pending)),
           NEW i \in DOMAIN pending, take_fair(i), i # 1
    PROVE  /\ Launch(Head(pending)) = last_launch
           /\ Launch(pending[i]) # last_launch
<1>1. /\ 1 \in DOMAIN pending /\ pending[1] = Head(pending)
      /\ i \in Nat /\ i > 1
  <2>1. pending \in Seq(Conns) /\ Len(pending) \in Nat \ {0}
    BY EmptySeq DEF TypeOK
  <2>2. QED
    BY <2>1, LenProperties
<1>2. 1 \in Ready
  BY <1>1 DEF Ready, Steady
<1> DEFINE preferred == {j \in Ready : Launch(pending[j]) # last_launch}
<1>3. Oldest(i, IF preferred # {} THEN preferred ELSE Ready)
  BY DEF take_fair
<1>4. preferred # {} /\ i \in preferred /\ 1 \notin preferred
  BY <1>1, <1>2, <1>3 DEF Oldest
<1>5. QED
  BY <1>1, <1>2, <1>4

\* Of a queued request's handler, only one that waits can move; it keeps its
\* age or is gone.
LEMMA WaitingMoves ==
    ASSUME TypeOK, NEW c \in Conns, ConnStep(c), Waits(pending, c), pc[c] \in {"queued", "idle"}
    PROVE  /\ pc[c] = "queued"
           /\ aged[c] => aged'[c] \/ pc'[c] # "queued"
<1>0. pc \in [Conns -> Labels] /\ aged \in [Conns -> BOOLEAN]
  BY DEF TypeOK, Labels
<1>1. CASE Connect(c) \/ ClientReports(c) \/ OutlivedAttemptEnds(c)
  BY <1>1 DEF Connect, Waits, ClientReports, OutlivedAttemptEnds
<1>2. CASE ClientLeaves(c) \/ Age(c)
  BY <1>0, <1>2 DEF ClientLeaves, Age
<1>3. CASE Handler(c)
  <2>1. HandlerDisconnected(c)
    BY <1>3 DEF Handler, DeliverGrant, GrantWriteFails, LeaseAbandoned, DeliverRejection,
                FinishAbandoned, ReleaseRetryable, ReplyRetry, ReplyComplete, ReleaseCompleted
  <2>2. QED
    BY <1>0, <2>1 DEF HandlerDisconnected, Ends, Goto
<1>4. QED
  BY <1>1, <1>2, <1>3 DEF ConnStep

\* The head of the queue keeps its turn.
LEMMA HeadStep ==
    ASSUME IInv, Next
    PROVE  HeadGoesNext'
<1>0. /\ TypeOK /\ Queues /\ HeadGoesNext
      /\ pc \in [Conns -> Labels] /\ aged \in [Conns -> BOOLEAN]
      /\ pending \in Seq(Conns) /\ Once(pending)
  BY DEF IInv, TypeOK, Labels, Queues, QueueFits
<1>00. pending # <<>> =>
         /\ Head(pending) \in Conns /\ Waits(pending, Head(pending))
         /\ 1 \in DOMAIN pending /\ Head(pending) = pending[1]
  <2> SUFFICES ASSUME pending # <<>>
               PROVE  /\ Head(pending) \in Conns /\ Waits(pending, Head(pending))
                      /\ 1 \in DOMAIN pending /\ Head(pending) = pending[1]
    OBVIOUS
  <2>1. /\ Len(pending) \in Nat \ {0} /\ DOMAIN pending = 1..Len(pending)
        /\ Head(pending) \in Conns
    BY <1>0, EmptySeq, LenProperties, HeadTailProperties
  <2>2. 1 \in DOMAIN pending /\ Head(pending) = pending[1]
    BY <2>1
  <2>3. QED
    BY <2>1, <2>2 DEF Waits
<1>1. CASE \E c \in Conns : ConnStep(c)
  <2>1. PICK c \in Conns : ConnStep(c)
    BY <1>1
  <2>2. /\ UNCHANGED <<pending, passed, last_launch>>
        /\ \E to \in Labels : pc' = [pc EXCEPT ![c] = to]
        /\ \E a \in BOOLEAN : aged' = [aged EXCEPT ![c] = a]
    BY <1>0, <2>1, ConnStepMoves DEF queue, Goto
  <2>3. CASE pending # <<>> /\ c = Head(pending)
    <3>1. /\ pc[c] = "queued"
          /\ aged[c] => aged'[c] \/ pc'[c] # "queued"
      BY <1>0, <1>00, <2>1, <2>3, WaitingMoves DEF Queues, QueueFits
    <3>2. QED
      BY <1>0, <2>2, <2>3, <3>1 DEF HeadGoesNext, Steady, is_closed
  <2>4. CASE pending = <<>> \/ c # Head(pending)
    BY <1>0, <1>00, <2>2, <2>4 DEF HeadGoesNext, Steady, is_closed
  <2>5. QED
    BY <2>3, <2>4
<1>2. CASE Receive
  <2> DEFINE c == Head(commands).conn
  <2>1. /\ c \in Conns
        /\ \/ Asks(commands, "acquire", c) /\ ReceiveAcquire(c)
           \/ Asks(commands, "observe", c) /\ ReceiveObserve(c)
           \/ Asks(commands, "release", c) /\ ReceiveRelease(c)
    BY <1>0, <1>2, ReceiveTakes
  <2>2. UNCHANGED <<passed, last_launch, aged>>
    BY <1>2 DEF Receive
  <2> HIDE DEF c
  <2>3. CASE Asks(commands, "acquire", c) /\ ReceiveAcquire(c)
    <3>1. ~Waits(pending, c) /\ pending' = Append(pending, c) /\ pc' = pc
      BY <1>0, <2>1, <2>3 DEF Queues, QueueFits, ReceiveAcquire
    <3>2. pending # <<>> => pending' # <<>> /\ Head(pending') = Head(pending)
      BY <1>0, <2>1, <3>1, RequestAppended
    <3>3. QED
      BY <1>0, <2>2, <3>1, <3>2 DEF HeadGoesNext, Steady, is_closed
  <2>4. CASE Asks(commands, "observe", c) /\ ReceiveObserve(c)
    <3>1. pc[c] = "observing" /\ pc' = [pc EXCEPT ![c] = "observed"] /\ pending' = pending
      BY <1>0, <2>1, <2>4 DEF Queues, CommandsFit, ReceiveObserve, Goto
    <3>2. pending # <<>> => pc[Head(pending)] \in {"queued", "idle"}
      BY <1>0, <1>00 DEF Queues, QueueFits
    <3>3. QED
      BY <1>0, <1>00, <2>2, <3>1, <3>2 DEF HeadGoesNext, Steady, is_closed
  <2>5. CASE ReceiveRelease(c)
    BY <1>0, <2>2, <2>5 DEF ReceiveRelease, HeadGoesNext, Steady, is_closed
  <2>6. QED
    BY <2>1, <2>3, <2>4, <2>5
<1>3. CASE Retain
  <2>1. PICK i \in DOMAIN pending : pending' = Without(i) /\ passed' = IF i = 1 THEN 0 ELSE passed
    BY <1>3 DEF Retain
  <2>2. UNCHANGED <<pc, aged, last_launch>>
    BY <1>3 DEF Retain, handlers
  <2>3. CASE i = 1
    BY <2>1, <2>3 DEF HeadGoesNext
  <2>4. CASE i # 1
    <3>1. pending' # <<>> /\ Head(pending') = Head(pending) /\ passed' = passed
      BY <1>0, <2>1, <2>4, RequestTaken
    <3>2. QED
      BY <1>0, <2>2, <3>1 DEF HeadGoesNext, Steady, is_closed
  <2>5. QED
    BY <2>3, <2>4
<1>4. CASE ServeNext
  <2>1. PICK i \in DOMAIN pending :
           take_fair(i) /\ pending' = Without(i) /\ (SkipClosed(i) \/ Reject(i) \/ Grant(i))
    BY <1>4 DEF ServeNext
  <2>2. aged' = aged /\ pending # <<>> /\ pending[i] \in Conns
    BY <1>0, <1>4, <2>1, ServeTakes DEF ServeNext, CanGrant
  <2>3. CASE i = 1
    BY <2>1, <2>3 DEF SkipClosed, Reject, Grant, HeadGoesNext
  <2>4. CASE i # 1
    <3> DEFINE h == Head(pending)
    <3>1. pending' # <<>> /\ Head(pending') = h
      BY <1>0, <2>1, <2>4, RequestTaken
    <3>2. h \in Conns /\ h # pending[i] /\ h = pending[1]
      BY <1>0, <1>00, <2>1, <2>2, <2>4 DEF Once
    <3> HIDE DEF h
    <3>3. pc'[h] = pc[h]
      BY <1>0, <2>1, <2>2, <3>2 DEF SkipClosed, Reject, Grant, Goto
    <3>4. CASE SkipClosed(i) \/ Reject(i)
      <4>1. passed' = passed /\ last_launch' = last_launch
        BY <2>4, <3>4 DEF SkipClosed, Reject
      <4>2. QED
        BY <1>0, <2>2, <3>1, <3>2, <3>3, <4>1 DEF HeadGoesNext, Steady, is_closed, h
    <3>5. CASE Grant(i) /\ Steady(h)
      <4>1. Launch(h) = last_launch /\ Launch(pending[i]) # last_launch
        BY <1>0, <2>1, <2>2, <2>4, <3>5, PassingOver DEF h
      <4>2. passed = 0
        BY <1>0, <3>5, <4>1 DEF HeadGoesNext, h
      <4>3. i > 1
        BY <1>0, <2>4, LenProperties
      <4>4. passed' = 1 /\ last_launch' = Launch(pending[i])
        BY <2>4, <3>5, <4>2, <4>3 DEF Grant, Capacity!Smaller, h
      <4>5. QED
        BY <2>2, <3>1, <3>5, <4>1, <4>4 DEF HeadGoesNext, Steady
    <3>6. CASE Grant(i) /\ ~Steady(h)
      <4>1. passed' = passed
        BY <2>4, <3>6 DEF Grant, h
      <4>2. passed = 0 \/ is_closed(h)
        BY <1>0, <3>6 DEF HeadGoesNext, h
      <4>3. QED
        BY <1>0, <2>2, <3>1, <3>3, <3>6, <4>1, <4>2 DEF HeadGoesNext, Steady, is_closed
    <3>7. QED
      BY <2>1, <3>4, <3>5, <3>6
  <2>5. QED
    BY <2>3, <2>4
<1>5. CASE Quiet
  BY <1>0, <1>5, QuietSteps DEF handlers, HeadGoesNext, Steady, is_closed
<1>6. CASE Crash
  BY <1>6 DEF Crash, HeadGoesNext
<1>7. QED
  BY <1>1, <1>2, <1>3, <1>4, <1>5, <1>6, Steps

-----------------------------------------------------------------------------
\* Nothing is asked, granted or known at first.
LEMMA InitInv == Init => IInv
<1> SUFFICES ASSUME Init PROVE IInv
  OBVIOUS
<1>1. Charging = {} /\ Unsettled = {}
  BY DEF Init, Charging, Releasing, Unsettled
<1>2. PermitAccounting /\ RecordsExact
  BY <1>1, FS_EmptySet DEF Init, PermitAccounting, RecordsExact, Recorded, InFlight
<1>3. Queues
  BY DEF Init, Queues, CommandsFit, QueueFits, OneEach, Once, Asks, Waits
<1>4. GrantingIsWarm /\ CondemnedIsBarred /\ HeadGoesNext
  BY DEF Init, GrantingIsWarm, CondemnedIsBarred, HeadGoesNext
<1>5. TypeOK
  <2>1. Cardinality(Conns) \in Nat
    BY SchedulerAssumption, FS_CardinalityType
  <2>2. <<>> \in Seq(Commands) /\ <<>> \in Seq(Conns)
    BY EmptySeq
  <2>3. NoBudget \in Budgets
    BY DEF Budgets
  <2>4. /\ INITIAL_WINDOW \in 1..MAX_WINDOW /\ 0 \in 0..NEVER
    BY SchedulerAssumption DEF Capacity!CapacityParameters
  <2>5. 0 \in 0..MaxCrashes
    BY SchedulerAssumption
  <2>6. /\ pc \in [Conns -> Labels] /\ open \in [Conns -> BOOLEAN]
        /\ report \in [Conns -> Reports \cup {Abandoned}]
        /\ eligible \in [Conns -> BOOLEAN] /\ aged \in [Conns -> BOOLEAN]
        /\ commands \in Seq(Commands) /\ pending \in Seq(Conns)
        /\ phase \in {"select", "schedule", "granting", "save", "writing"}
    BY <2>2 DEF Init, Labels
  <2>7. /\ active \in 0..Cardinality(Conns) /\ active_fg \in 0..active
        /\ window \in 1..MAX_WINDOW /\ cooldown \in 0..NEVER
        /\ last_launch \in Launches \cup {NONE}
    BY <2>1, <2>4 DEF Init
  <2>8. /\ budgets \in [Launches -> Budgets] /\ dirty \in BOOLEAN
        /\ cache = NoFile /\ crashes \in 0..MaxCrashes
    BY <2>3, <2>5 DEF Init
  <2>9. QED
    BY <2>6, <2>7, <2>8 DEF TypeOK, Labels
<1>6. QED
  BY <1>2, <1>3, <1>4, <1>5 DEF IInv

\* A step that changes nothing keeps everything.
LEMMA StutterInv ==
    ASSUME IInv, UNCHANGED vars
    PROVE  IInv'
<1> USE DEF vars, handlers, queue, permits, capacity, storage, history
<1>1. TypeOK'
  BY DEF IInv, TypeOK
<1>2. Queues'
  BY DEF IInv, Queues, CommandsFit, QueueFits
<1>3. PermitAccounting' /\ RecordsExact'
  BY CountsKept DEF Charging, Releasing, Unsettled
<1>4. GrantingIsWarm' /\ CondemnedIsBarred' /\ HeadGoesNext'
  BY DEF IInv, GrantingIsWarm, CondemnedIsBarred, HeadGoesNext, Steady, is_closed
<1>5. QED
  BY <1>1, <1>2, <1>3, <1>4 DEF IInv

\* The invariant holds in every reachable state.
LEMMA Invariance == Spec => []IInv
<1>1. IInv /\ [Next]_vars => IInv'
  <2> SUFFICES ASSUME IInv, [Next]_vars PROVE IInv'
    OBVIOUS
  <2>1. CASE Next
    BY <2>1, TypesStep, QueuesStep, CountsStep, WarmStep, CondemnedStep, HeadStep DEF IInv
  <2>2. CASE UNCHANGED vars
    BY <2>2, StutterInv
  <2>3. QED
    BY <2>1, <2>2
<1>2. QED
  BY <1>1, InitInv, PTL DEF Spec

\* A permit goes to a queued handler by Grant, and by nothing else.
LEMMA GrantingServes ==
    ASSUME IInv, Next, NEW c \in Conns, Granting(c)
    PROVE  CanGrant /\ \E i \in DOMAIN pending : pending[i] = c /\ Grant(i)
<1>0. TypeOK /\ Queues /\ pc \in [Conns -> Labels] /\ pc[c] = "queued" /\ pc'[c] = "granted"
  BY DEF IInv, TypeOK, Labels, Granting
<1>1. CASE \E d \in Conns : ConnStep(d)
  <2>1. PICK d \in Conns, to \in Labels : pc' = [pc EXCEPT ![d] = to] /\ Moves(d, to)
    BY <1>0, <1>1, ConnStepMoves DEF Goto
  <2>2. d = c /\ to = "granted"
    BY <1>0, <2>1
  <2>3. QED
    BY <1>0, <2>1, <2>2 DEF Moves
<1>2. CASE Receive
  <2>1. \E d \in Conns : pc' = pc \/ pc' = [pc EXCEPT ![d] = "observed"]
    BY <1>0, <1>2, ReceiveTakes DEF ReceiveAcquire, ReceiveObserve, ReceiveRelease, Goto
  <2>2. QED
    BY <1>0, <2>1
<1>3. CASE Retain \/ Quiet \/ Crash
  BY <1>0, <1>3, QuietSteps DEF Retain, Crash, handlers
<1>4. CASE ServeNext
  <2>1. PICK i \in DOMAIN pending : SkipClosed(i) \/ Reject(i) \/ Grant(i)
    BY <1>4 DEF ServeNext
  <2>2. Grant(i) /\ pending[i] = c
    BY <1>0, <2>1 DEF SkipClosed, Reject, Grant, Goto
  <2>3. QED
    BY <1>4, <2>2 DEF ServeNext
<1>5. QED
  BY <1>1, <1>2, <1>3, <1>4, Steps

-----------------------------------------------------------------------------
\* The types, and the bounds of what is counted, for any number of connections.
THEOREM TypeCorrect == Spec => []TypeOK
BY Invariance, PTL DEF IInv

\* The scheduler's counts never drift from the handlers, whichever way each of
\* them leaves the exchange (schedule, handle_command, observe_until_release,
\* settle_grant_write_failure).
THEOREM PermitsAccountedFor == Spec => []PermitAccounting
BY Invariance, PTL DEF IInv

\* What a budget has in flight is what nothing has been observed of (schedule,
\* observe, restored_scope).
THEOREM InFlightAccountedFor == Spec => []InFlightAccounting
<1>1. IInv => InFlightAccounting
  <2> SUFFICES ASSUME IInv, NEW l \in Launches, budgets[l] # NoBudget
               PROVE  budgets[l].in_flight =
                        Cardinality({c \in Unsettled : Budgeted(c) /\ Launch(c) = l})
    BY DEF InFlightAccounting
  <2>1. QED
    BY DEF IInv, RecordsExact, Recorded, InFlight
<1>2. QED
  BY <1>1, Invariance, PTL

\* The oldest steady request is passed over at most once (take_fair).
THEOREM HeadIsNotStarved == Spec => []HeadPassedOverOnce
<1>1. IInv => HeadPassedOverOnce
  BY DEF IInv, HeadGoesNext, HeadPassedOverOnce
<1>2. QED
  BY <1>1, Invariance, PTL

\* Attempts of the running daemon hold permits of its count.
LEMMA SendingIsCounted ==
    ASSUME IInv
    PROVE  /\ IsFiniteSet(Sending)
           /\ Cardinality(Sending) \in Nat
           /\ Cardinality(Sending) <= active
<1>1. Sending \in SUBSET Charging /\ Charging \in SUBSET Conns
  BY DEF Sending, Charging, Releasing
<1>2. IsFiniteSet(Charging)
  BY <1>1, SchedulerAssumption, FS_Subset
<1>3. IsFiniteSet(Sending) /\ Cardinality(Sending) <= Cardinality(Charging)
  BY <1>1, <1>2, FS_Subset
<1>4. active = Cardinality(Charging)
  BY DEF IInv, PermitAccounting
<1>5. QED
  BY <1>3, <1>4, FS_CardinalityType

\* All attempts under way are at most those of either kind.
LEMMA TogetherAtMost ==
    ASSUME NEW S, IsFiniteSet(S), NEW T, IsFiniteSet(T)
    PROVE  /\ Cardinality(S \cup T) \in Nat
           /\ Cardinality(S \cup T) <= Cardinality(S) + Cardinality(T)
<1>1. /\ IsFiniteSet(S \cup T)
      /\ Cardinality(S \cup T) = Cardinality(S) + Cardinality(T) - Cardinality(S \cap T)
  BY FS_Union
<1>2. IsFiniteSet(S \cap T)
  BY FS_Intersection
<1>3. Cardinality(S) \in Nat /\ Cardinality(T) \in Nat
  BY FS_CardinalityType
<1>4. Cardinality(S \cap T) \in Nat /\ Cardinality(S \cup T) \in Nat
  BY <1>1, <1>2, FS_CardinalityType
<1>5. QED
  BY <1>1, <1>3, <1>4

\* Admission: a daemon never has more attempts of its own granting under way
\* than the window allows, and grants none during the cooldown (schedule).
THEOREM AdmittedWithinWindow == Spec => AdmissionWithinWindow
<1>1. IInv /\ [Next]_vars =>
        [\A c \in Conns : Granting(c) => Cardinality(Sending) < window /\ cooldown = 0]_vars
  <2> SUFFICES ASSUME IInv, Next, NEW c \in Conns, Granting(c)
               PROVE  Cardinality(Sending) < window /\ cooldown = 0
    OBVIOUS
  <2>1. phase = "granting" /\ active < window
    BY GrantingServes DEF CanGrant
  <2>2. cooldown = 0
    BY <2>1 DEF IInv, GrantingIsWarm
  <2>3. active \in Nat /\ window \in Nat
    BY SchedulerAssumption, FS_CardinalityType DEF IInv, TypeOK
  <2>4. QED
    BY <2>1, <2>2, <2>3, SendingIsCounted
<1>2. QED
  BY <1>1, Invariance, PTL DEF Spec, AdmissionWithinWindow

-----------------------------------------------------------------------------
(* Attempts that outlive their daemon.                                     *)

\* A daemon has at most a full window of its own, and leaves no more behind.
FewOutlive ==
    /\ active <= MAX_WINDOW
    /\ Cardinality(Outliving) <= MAX_WINDOW * crashes

\* Only the death of a daemon makes an attempt outlive it.
LEMMA OutlivingShrinks ==
    ASSUME IInv, Next, ~Crash
    PROVE  Outliving' \in SUBSET Outliving /\ crashes' = crashes
<1>0. TypeOK /\ Queues /\ pc \in [Conns -> Labels]
  BY DEF IInv, TypeOK, Labels
<1>1. CASE \E c \in Conns : ConnStep(c)
  <2>1. PICK c \in Conns, to \in Labels : pc' = [pc EXCEPT ![c] = to] /\ Moves(c, to)
    BY <1>0, <1>1, ConnStepMoves DEF Goto
  <2>2. to = "outlived" => pc[c] = "outlived"
    BY <2>1 DEF Moves
  <2>3. crashes' = crashes
    BY <1>0, <1>1, ConnStepMoves DEF storage
  <2>4. QED
    BY <1>0, <2>1, <2>2, <2>3 DEF Outliving
<1>2. CASE Receive
  <2>1. \E d \in Conns : pc' = pc \/ pc' = [pc EXCEPT ![d] = "observed"]
    BY <1>0, <1>2, ReceiveTakes DEF ReceiveAcquire, ReceiveObserve, ReceiveRelease, Goto
  <2>2. QED
    BY <1>0, <1>2, <2>1 DEF Outliving, Receive
<1>3. CASE Retain \/ Quiet
  <2>1. pc' = pc /\ crashes' = crashes
    BY <1>3, QuietSteps DEF Retain, handlers, storage
  <2>2. QED
    BY <2>1 DEF Outliving
<1>4. CASE ServeNext
  <2>1. PICK i \in DOMAIN pending : SkipClosed(i) \/ Reject(i) \/ Grant(i)
    BY <1>4 DEF ServeNext
  <2>2. \/ pc' = pc
        \/ \E to \in {"granted", "rejected"} : pc' = [pc EXCEPT ![pending[i]] = to]
    BY <2>1 DEF SkipClosed, Reject, Grant, Goto
  <2>3. crashes' = crashes
    BY <1>4 DEF ServeNext, storage
  <2>4. QED
    BY <1>0, <2>2, <2>3 DEF Outliving
<1>5. QED
  BY <1>1, <1>2, <1>3, <1>4, Steps

\* A permit is added only below the window.
LEMMA ActiveWithinWindow ==
    ASSUME IInv, Next, active <= MAX_WINDOW
    PROVE  active' <= MAX_WINDOW
<1>0. /\ TypeOK /\ Queues
      /\ active \in Nat /\ window \in Nat /\ MAX_WINDOW \in Nat /\ window <= MAX_WINDOW
  <2>1. TypeOK /\ Queues /\ Cardinality(Conns) \in Nat /\ MAX_WINDOW \in Nat
    BY SchedulerAssumption, FS_CardinalityType DEF IInv, Capacity!CapacityParameters
  <2>2. active \in 0..Cardinality(Conns) /\ window \in 1..MAX_WINDOW
    BY <2>1 DEF TypeOK
  <2>3. QED
    BY <2>1, <2>2
<1>1. CASE \E c \in Conns : ConnStep(c)
  BY <1>0, <1>1, ConnStepMoves DEF permits
<1>2. CASE Receive
  <2>1. active' = active \/ active' = Lowered(active)
    BY <1>0, <1>2, ReceiveTakes DEF ReceiveAcquire, ReceiveObserve, ReceiveRelease
  <2>2. QED
    BY <1>0, <2>1 DEF Lowered
<1>3. CASE Retain \/ Quiet
  BY <1>3, QuietSteps DEF Retain, permits
<1>4. CASE ServeNext
  <2>1. active < window /\ (active' = active \/ active' = active + 1)
    BY <1>4 DEF ServeNext, CanGrant, SkipClosed, Reject, Grant, permits
  <2>2. QED
    BY <1>0, <2>1
<1>5. CASE Crash
  BY <1>0, <1>5 DEF Crash
<1>6. QED
  BY <1>1, <1>2, <1>3, <1>4, <1>5, Steps

LEMMA FewOutliveStep ==
    ASSUME IInv, FewOutlive, [Next]_vars
    PROVE  FewOutlive'
<1>0. /\ Outliving \in SUBSET Conns /\ IsFiniteSet(Outliving)
      /\ MAX_WINDOW \in Nat /\ crashes \in Nat /\ active \in Nat
      /\ Cardinality(Outliving) \in Nat
  <2>1. Outliving \in SUBSET Conns
    BY DEF Outliving
  <2>2. QED
    BY <2>1, SchedulerAssumption, FS_Subset, FS_CardinalityType
       DEF IInv, TypeOK, Capacity!CapacityParameters
<1>1. CASE Next /\ ~Crash
  <2>1. Cardinality(Outliving') <= Cardinality(Outliving) /\ Cardinality(Outliving') \in Nat
    BY <1>0, <1>1, OutlivingShrinks, FS_Subset, FS_CardinalityType
  <2>2. crashes' = crashes /\ active' <= MAX_WINDOW
    BY <1>1, OutlivingShrinks, ActiveWithinWindow DEF FewOutlive
  <2>3. MAX_WINDOW * crashes \in Nat
    BY <1>0
  <2>4. QED
    BY <1>0, <2>1, <2>2, <2>3 DEF FewOutlive
<1>2. CASE Crash
  <2>1. Outliving' = Sending \cup Outliving /\ crashes' = crashes + 1 /\ active' = 0
    BY <1>2 DEF Crash, Outliving, Sending
  <2>2. /\ Cardinality(Sending \cup Outliving) <= Cardinality(Sending) + Cardinality(Outliving)
        /\ Cardinality(Sending \cup Outliving) \in Nat
    BY <1>0, SendingIsCounted, TogetherAtMost
  <2>3. MAX_WINDOW * (crashes + 1) = MAX_WINDOW * crashes + MAX_WINDOW /\ MAX_WINDOW * crashes \in Nat
    BY <1>0
  <2>4. QED
    BY <1>0, <2>1, <2>2, <2>3, SendingIsCounted DEF FewOutlive
<1>3. CASE UNCHANGED vars
  <2>1. UNCHANGED <<pc, active, crashes>>
    BY <1>3 DEF vars, handlers, permits, storage
  <2>2. QED
    BY <2>1 DEF FewOutlive, Outliving
<1>4. QED
  BY <1>1, <1>2, <1>3

\* The running daemon's attempts fit a full window, and those that outlived
\* their daemons a window for each of these (schedule, ScopeState).
THEOREM AttemptsBoundedByWindows == Spec => []AttemptsWithinWindows
<1>1. Init => FewOutlive
  <2> SUFFICES ASSUME Init PROVE FewOutlive
    OBVIOUS
  <2>1. Outliving = {} /\ active = 0 /\ crashes = 0 /\ MAX_WINDOW \in Nat
    BY SchedulerAssumption DEF Init, Outliving, Capacity!CapacityParameters
  <2>2. QED
    BY <2>1, FS_EmptySet DEF FewOutlive
<1>2. IInv /\ FewOutlive /\ [Next]_vars => FewOutlive'
  BY FewOutliveStep
<1>3. IInv /\ FewOutlive => AttemptsWithinWindows
  <2> SUFFICES ASSUME IInv, FewOutlive PROVE Cardinality(Sending) <= MAX_WINDOW
    BY DEF FewOutlive, AttemptsWithinWindows
  <2>1. Cardinality(Sending) \in Nat /\ Cardinality(Sending) <= active
    BY SendingIsCounted
  <2>2. active \in Nat
    BY DEF IInv, TypeOK
  <2>3. MAX_WINDOW \in Nat
    BY SchedulerAssumption DEF Capacity!CapacityParameters
  <2>4. QED
    BY <2>1, <2>2, <2>3 DEF FewOutlive
<1>4. QED
  BY <1>1, <1>2, <1>3, Invariance, PTL DEF Spec

\* A launch the cache condemned gets no attempt from the daemon that loaded it
\* (restored_scope, budget_rejection).
THEOREM CondemnedNotAdmitted == Spec => NoAdmissionOnceCondemned
<1>1. IInv /\ [Next]_vars =>
        [\A c \in Conns : Granting(c) /\ Budgeted(c) => Launch(c) \notin condemned]_vars
  <2> SUFFICES ASSUME IInv, Next, NEW c \in Conns, Granting(c), Budgeted(c),
                      Launch(c) \in condemned
               PROVE  FALSE
    OBVIOUS
  <2>1. PICK i \in DOMAIN pending : pending[i] = c /\ Grant(i)
    BY GrantingServes
  <2>2. ~budget_rejection(c)
    BY <2>1 DEF Grant
  <2>3. Launch(c) \in Launches
    BY SchedulerAssumption DEF Launch
  <2>4. BarredForGood(budgets[Launch(c)])
    BY <2>3 DEF IInv, CondemnedIsBarred
  <2>5. QED
    BY <2>2, <2>4 DEF budget_rejection, Barred, BarredForGood
<1>2. QED
  BY <1>1, Invariance, PTL DEF Spec, NoAdmissionOnceCondemned

-----------------------------------------------------------------------------
(* Where permits are lost.                                                 *)

ClientsStay ==
    \A c \in Conns : pc[c] # "lost" /\ (pc[c] \notin {"idle", "outlived"} => open[c])

\* The step of a connection whose client does not leave.
LEMMA StayingMoves ==
    ASSUME ClientsLeave = FALSE, TypeOK, ClientsStay, NEW c \in Conns, ConnStep(c)
    PROVE  \/ UNCHANGED <<pc, open>>
           \/ Goto(c, "idle") /\ open' = open
           \/ \E to \in Labels \ {"lost"} :
                  /\ Goto(c, to)
                  /\ open' = [open EXCEPT ![c] = (to # "idle")]
<1>0. /\ pc \in [Conns -> Labels] /\ open \in [Conns -> BOOLEAN]
      /\ pc[c] \notin {"idle", "outlived"} => open[c] /\ open = [open EXCEPT ![c] = TRUE]
  BY DEF TypeOK, Labels, ClientsStay
<1>1. CASE Connect(c)
  <2>1. Goto(c, "queued") /\ open' = [open EXCEPT ![c] = ("queued" # "idle")]
    BY <1>1 DEF Connect
  <2>2. QED
    BY <2>1 DEF Labels
<1>2. CASE ClientLeaves(c) \/ Age(c)
  BY <1>2 DEF ClientLeaves, Age
<1>3. CASE ClientReports(c)
  <2>1. Goto(c, "observing") /\ open' = [open EXCEPT ![c] = ("observing" # "idle")]
    BY <1>0, <1>3 DEF ClientReports
  <2>2. QED
    BY <2>1 DEF Labels
<1>4. CASE HandlerDisconnected(c) \/ GrantWriteFails(c) \/ LeaseAbandoned(c) \/ FinishAbandoned(c)
  BY <1>0, <1>4 DEF HandlerDisconnected, GrantWriteFails, LeaseAbandoned, FinishAbandoned
<1>5. CASE DeliverRejection(c) \/ ReplyRetry(c) \/ ReleaseCompleted(c)
  BY <1>5 DEF DeliverRejection, ReplyRetry, ReleaseCompleted, Returns, Ends, Goto, Labels
<1>6. CASE DeliverGrant(c) \/ ReleaseRetryable(c) \/ ReplyComplete(c)
  BY <1>0, <1>6 DEF DeliverGrant, ReleaseRetryable, ReplyComplete, Goto, Labels
<1>7. CASE OutlivedAttemptEnds(c)
  BY <1>7 DEF OutlivedAttemptEnds
<1>8. QED
  BY <1>1, <1>2, <1>3, <1>4, <1>5, <1>6, <1>7 DEF ConnStep, Handler

LEMMA ClientsStayStep ==
    ASSUME ClientsLeave = FALSE, IInv, ClientsStay, [Next]_vars
    PROVE  ClientsStay'
<1>0. /\ TypeOK /\ Queues /\ pc \in [Conns -> Labels] /\ open \in [Conns -> BOOLEAN]
  BY DEF IInv, TypeOK, Labels
<1>1. CASE \E c \in Conns : ConnStep(c)
  <2>1. PICK c \in Conns : ConnStep(c)
    BY <1>1
  <2>2. CASE UNCHANGED <<pc, open>>
    BY <2>2 DEF ClientsStay
  <2>3. CASE \E to \in Labels \ {"lost"} : Goto(c, to) /\ open' = [open EXCEPT ![c] = (to # "idle")]
    BY <1>0, <2>3 DEF ClientsStay, Goto
  <2>4. CASE Goto(c, "idle") /\ open' = open
    BY <1>0, <2>4 DEF ClientsStay, Goto
  <2>5. QED
    BY <1>0, <2>1, <2>2, <2>3, <2>4, StayingMoves
<1>2. CASE Receive
  <2>1. PICK c \in Conns : /\ ReceiveAcquire(c) \/ ReceiveObserve(c) \/ ReceiveRelease(c)
                           /\ Asks(commands, "observe", c) \/ pc' = pc
    BY <1>0, <1>2, ReceiveTakes DEF ReceiveAcquire, ReceiveRelease
  <2>2. Asks(commands, "observe", c) => pc[c] = "observing"
    BY <1>0, <2>1 DEF Queues, CommandsFit
  <2>3. open' = open
    BY <1>2 DEF Receive
  <2>4. pc' = pc \/ (pc[c] = "observing" /\ pc' = [pc EXCEPT ![c] = "observed"])
    BY <2>1, <2>2 DEF ReceiveAcquire, ReceiveObserve, ReceiveRelease, Goto
  <2>5. QED
    BY <1>0, <2>3, <2>4 DEF ClientsStay
<1>3. CASE ServeNext
  <2>1. open' = open
    BY <1>3 DEF ServeNext
  <2>2. PICK i \in DOMAIN pending : SkipClosed(i) \/ Reject(i) \/ Grant(i)
    BY <1>3 DEF ServeNext
  <2>3. \/ pc' = pc
        \/ /\ pc[pending[i]] = "queued"
           /\ \E to \in {"granted", "rejected"} : pc' = [pc EXCEPT ![pending[i]] = to]
    BY <2>2 DEF SkipClosed, Reject, Grant, Goto, is_closed
  <2>4. QED
    BY <1>0, <2>1, <2>3 DEF ClientsStay
<1>4. CASE Retain \/ Quiet \/ UNCHANGED vars
  <2>1. UNCHANGED <<pc, open>>
    BY <1>4, QuietSteps DEF Retain, handlers, vars
  <2>2. QED
    BY <2>1 DEF ClientsStay
<1>5. CASE Crash
  BY <1>5 DEF Crash, ClientsStay
<1>6. QED
  BY <1>1, <1>2, <1>3, <1>4, <1>5, Steps

\* As long as no client leaves, every permit is given back once all handlers
\* have returned, daemons that die included: the handler that returned through
\* its read arm is the only one that loses a permit (handle_transport).
THEOREM PermitsReturnedToClientsThatStay ==
    ASSUME ClientsLeave = FALSE
    PROVE  Spec => []PermitsReturned
<1>1. Init => ClientsStay
  BY DEF Init, ClientsStay
<1>2. IInv /\ ClientsStay /\ [Next]_vars => ClientsStay'
  BY ClientsStayStep
<1>3. IInv /\ ClientsStay => PermitsReturned
  <2> SUFFICES ASSUME IInv, ClientsStay, commands = <<>>,
                      \A c \in Conns : pc[c] \in {"idle", "lost", "outlived"}
               PROVE  active = 0
    BY DEF PermitsReturned
  <2>1. Charging = {}
    BY DEF Charging, Releasing, ClientsStay
  <2>2. active = Cardinality(Charging)
    BY DEF IInv, PermitAccounting
  <2>3. QED
    BY <2>1, <2>2, FS_EmptySet
<1>4. QED
  BY <1>1, <1>2, <1>3, Invariance, PTL DEF Spec

=============================================================================
