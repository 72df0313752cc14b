----------------------------- MODULE BudgetProofs -----------------------------
(***************************************************************************)
(* While no daemon dies, token budgets are honoured, for any number of     *)
(* connections and launches, whatever their clients report and whenever    *)
(* they leave.                                                             *)
(***************************************************************************)
EXTENDS SchedulerProofs

\* What the LaunchPlanValidator guarantees: no budget is zero.
BudgetsArePositive == \A c \in Conns : Request[c].budget # 0

-----------------------------------------------------------------------------
(* Between the scheduler's count and the client's knowledge of it lie the  *)
(* attempts that were observed and not yet answered.  What they used is    *)
(* summed up as the cardinality of a set with one element per token.       *)

Unanswered == {c \in Conns : pc[c] \in {"observed", "replying"}}

Tokens(l) ==
    {t \in Conns \X Nat :
        /\ t[1] \in Unanswered /\ Budgeted(t[1]) /\ Launch(t[1]) = l
        /\ t[2] < report[t[1]].usage}

Blocked(b) == b # NoBudget /\ b.accounting_blocked

\* Nothing clients know is missing from the budget, unless it is blocked, and an
\* attempt nothing verifies blocks it before anyone is told.
SpentIsCounted(l) ==
    /\ IsFiniteSet(Tokens(l))
    /\ l \in unverified => Blocked(budgets[l])
    /\ budgets[l] = NoBudget => spent[l] = 0
    /\ budgets[l] # NoBudget /\ ~budgets[l].accounting_blocked =>
          spent[l] + Cardinality(Tokens(l)) <= budgets[l].consumed

ObservedIsCounted ==
    \A c \in Unanswered : Budgeted(c) =>
        /\ budgets[Launch(c)] # NoBudget
        /\ report[c].usage = NONE => budgets[Launch(c)].accounting_blocked

BudgetInv ==
    /\ spent \in [Launches -> Nat]
    /\ ObservedIsCounted
    /\ \A l \in Launches : SpentIsCounted(l)

-----------------------------------------------------------------------------
(* Sums as cardinalities.                                                  *)

Own(c, u) == {c} \X (0..(u - 1))

LEMMA OwnCounts ==
    ASSUME NEW c, NEW u \in Nat
    PROVE  IsFiniteSet(Own(c, u)) /\ Cardinality(Own(c, u)) = u
<1>1. IsFiniteSet({c}) /\ Cardinality({c}) = 1
  BY FS_Singleton
<1>2. IsFiniteSet(0..(u - 1)) /\ Cardinality(0..(u - 1)) = u
  <2>1. /\ IsFiniteSet(0..(u - 1))
        /\ Cardinality(0..(u - 1)) = IF 0 > u - 1 THEN 0 ELSE (u - 1) - 0 + 1
    BY FS_Interval
  <2>2. QED
    BY <2>1
<1> DEFINE I == 0..(u - 1)
<1>3. Own(c, u) = {c} \X I
  BY DEF Own
<1> HIDE DEF I
<1>4. /\ IsFiniteSet({c} \X I)
      /\ Cardinality({c} \X I) = Cardinality({c}) * Cardinality(I)
  BY <1>1, <1>2, FS_Product DEF I
<1>5. Cardinality({c} \X I) = u
  BY <1>1, <1>2, <1>4 DEF I
<1>6. QED
  BY <1>3, <1>4, <1>5

LEMMA OwnAdded ==
    ASSUME NEW S, IsFiniteSet(S), NEW c, NEW u \in Nat, S \cap Own(c, u) = {}
    PROVE  /\ IsFiniteSet(S \cup Own(c, u))
           /\ Cardinality(S \cup Own(c, u)) = Cardinality(S) + u
<1>1. /\ IsFiniteSet(S \cup Own(c, u))
      /\ Cardinality(S \cup Own(c, u)) =
            Cardinality(S) + Cardinality(Own(c, u)) - Cardinality(S \cap Own(c, u))
  BY OwnCounts, FS_Union
<1>2. Cardinality(S \cap Own(c, u)) = 0 /\ Cardinality(S) \in Nat
  BY FS_EmptySet, FS_CardinalityType
<1>3. QED
  BY <1>1, <1>2, OwnCounts

LEMMA OwnRemoved ==
    ASSUME NEW S, IsFiniteSet(S), NEW c, NEW u \in Nat, Own(c, u) \subseteq S
    PROVE  /\ IsFiniteSet(S \ Own(c, u))
           /\ Cardinality(S \ Own(c, u)) = Cardinality(S) - u
<1>1. S \cap Own(c, u) = Own(c, u)
  OBVIOUS
<1>2. /\ IsFiniteSet(S \ Own(c, u))
      /\ Cardinality(S \ Own(c, u)) = Cardinality(S) - Cardinality(S \cap Own(c, u))
  BY FS_Difference
<1>3. QED
  BY <1>1, <1>2, OwnCounts

\* What is known of requests and reports.
LEMMA RequestFacts ==
    ASSUME TypeOK, NEW c \in Conns
    PROVE  /\ Launch(c) \in Launches
           /\ report[c].usage \in Nat \cup {NONE}
           /\ Request[c].budget \in Nat \cup {NONE}
           /\ Budgeted(c) => Request[c].budget \in Nat
BY SchedulerAssumption DEF TypeOK, Abandoned, Launch, Budgeted

-----------------------------------------------------------------------------
(* Each kind of step keeps the invariant.                                  *)

\* A step that answers nobody, observes nothing and grants nothing.
LEMMA NothingSettled ==
    ASSUME TypeOK, BudgetInv, UNCHANGED <<budgets, spent, unverified>>,
           Unanswered' = Unanswered, \A c \in Unanswered : report'[c] = report[c]
    PROVE  BudgetInv'
<1>1. \A l : Tokens(l)' = Tokens(l)
  BY DEF Tokens
<1>2. \A l \in Launches : SpentIsCounted(l)'
  BY <1>1 DEF BudgetInv, SpentIsCounted
<1>3. ObservedIsCounted'
  BY DEF BudgetInv, ObservedIsCounted
<1>4. QED
  BY <1>2, <1>3 DEF BudgetInv

\* A client learns that its attempt is counted.
LEMMA AnswerKeeps ==
    ASSUME TypeOK, BudgetInv, NEW c \in Unanswered, Acknowledge(c), budgets' = budgets,
           Unanswered' = Unanswered \ {c}, \A d \in Conns \ {c} : report'[d] = report[d]
    PROVE  BudgetInv'
<1> DEFINE l0 == Launch(c)
           u == report[c].usage
<1>1. c \in Conns /\ l0 \in Launches /\ u \in Nat \cup {NONE}
  BY RequestFacts DEF Unanswered
<1>2. ObservedIsCounted'
  BY DEF BudgetInv, ObservedIsCounted, Unanswered
<1>3. \A l : Tokens(l)' = {t \in Tokens(l) : t[1] # c}
  BY DEF Tokens, Unanswered
<1>4. \A l : ~(Budgeted(c) /\ l = l0 /\ u \in Nat) => Tokens(l)' = Tokens(l)
  <2> SUFFICES ASSUME NEW l, ~(Budgeted(c) /\ l = l0 /\ u \in Nat), NEW t \in Tokens(l), t[1] = c
               PROVE  FALSE
    BY <1>3
  <2>1. Budgeted(c) /\ l = l0 /\ t[2] \in Nat /\ t[2] < u
    BY DEF Tokens
  <2>2. QED
    BY <1>1, <2>1 DEF NONE
<1>5. CASE ~Budgeted(c)
  <2>1. spent' = spent /\ unverified' = unverified
    BY <1>5 DEF Acknowledge
  <2>2. \A l \in Launches : SpentIsCounted(l)'
    BY <1>4, <1>5, <2>1 DEF BudgetInv, SpentIsCounted
  <2>3. QED
    BY <1>2, <2>1, <2>2 DEF BudgetInv
<1>6. CASE Budgeted(c) /\ u = NONE
  <2>1. spent' = spent /\ unverified' = unverified \cup {l0}
    BY <1>6 DEF Acknowledge
  <2>2. Blocked(budgets[l0])
    BY <1>6 DEF BudgetInv, ObservedIsCounted, Blocked
  <2>3. \A l : Tokens(l)' = Tokens(l)
    BY <1>4, <1>6 DEF NONE
  <2>4. \A l \in Launches : SpentIsCounted(l)'
    BY <2>1, <2>2, <2>3 DEF BudgetInv, SpentIsCounted
  <2>5. QED
    BY <1>2, <2>1, <2>4 DEF BudgetInv
<1>7. CASE Budgeted(c) /\ u \in Nat
  <2>1. spent' = [spent EXCEPT ![l0] = @ + u] /\ unverified' = unverified
    BY <1>7 DEF Acknowledge, NONE
  <2>2. spent' \in [Launches -> Nat] /\ spent'[l0] = spent[l0] + u
        /\ \A l \in Launches \ {l0} : spent'[l] = spent[l]
    BY <1>1, <1>7, <2>1 DEF BudgetInv
  <2>3. Own(c, u) \subseteq Tokens(l0) /\ Tokens(l0)' = Tokens(l0) \ Own(c, u)
    <3>1. \A t \in Tokens(l0) : t[1] = c <=> t \in Own(c, u)
      BY <1>7 DEF Tokens, Own
    <3>2. Own(c, u) \subseteq Tokens(l0)
      BY <1>1, <1>7 DEF Tokens, Own
    <3>3. QED
      BY <1>3, <3>1, <3>2
  <2>4. /\ IsFiniteSet(Tokens(l0)')
        /\ Cardinality(Tokens(l0)') = Cardinality(Tokens(l0)) - u
        /\ Cardinality(Tokens(l0)) \in Nat
    <3> DEFINE T == Tokens(l0)
    <3>1. IsFiniteSet(T)
      BY <1>1 DEF BudgetInv, SpentIsCounted
    <3>2. Own(c, u) \subseteq T /\ Tokens(l0)' = T \ Own(c, u)
      BY <2>3
    <3> HIDE DEF T
    <3>3. IsFiniteSet(T \ Own(c, u)) /\ Cardinality(T \ Own(c, u)) = Cardinality(T) - u
      BY <1>7, <3>1, <3>2, OwnRemoved
    <3>4. Cardinality(T) \in Nat
      BY <3>1, FS_CardinalityType
    <3>5. QED
      BY <3>2, <3>3, <3>4 DEF T
  <2>5. SpentIsCounted(l0)'
    <3>1. budgets[l0] # NoBudget
      BY <1>7 DEF BudgetInv, ObservedIsCounted
    <3>2. spent'[l0] + Cardinality(Tokens(l0)') = spent[l0] + Cardinality(Tokens(l0))
      BY <1>1, <1>7, <2>2, <2>4 DEF BudgetInv
    <3>3. QED
      BY <1>1, <2>1, <2>4, <3>1, <3>2 DEF BudgetInv, SpentIsCounted
  <2>6. \A l \in Launches \ {l0} : SpentIsCounted(l)'
    BY <1>4, <2>1, <2>2 DEF BudgetInv, SpentIsCounted
  <2>7. QED
    BY <1>2, <2>2, <2>5, <2>6 DEF BudgetInv
<1>8. QED
  BY <1>1, <1>5, <1>6, <1>7

\* What an observation makes of its launch's budget.
LEMMA SettleCounts ==
    ASSUME IInv, NEW c \in Conns, pc[c] = "observing"
    PROVE  /\ \A l \in Launches : ~(Budgeted(c) /\ l = Launch(c)) => Settled(c)[l] = budgets[l]
           /\ Budgeted(c) =>
                 LET b == budgets[Launch(c)]
                     b1 == Settled(c)[Launch(c)]
                 IN  /\ b # NoBudget /\ b1 # NoBudget
                     /\ b.consumed \in Nat
                     /\ b.accounting_blocked \/ report[c].usage = NONE => b1.accounting_blocked
                     /\ ~b1.accounting_blocked =>
                           /\ ~b.accounting_blocked
                           /\ report[c].usage \in Nat
                           /\ b1.consumed = b.consumed + report[c].usage
<1> DEFINE l0 == Launch(c)
           b0 == budgets[l0]
           usage == report[c].usage
           verified == b0.limit = Request[c].budget /\ usage # NONE
           b1 == [b0 EXCEPT !.in_flight = Lowered(@),
                            !.consumed = IF verified THEN @ + usage ELSE @,
                            !.accounting_blocked = @ \/ ~verified]
<1>1. TypeOK /\ l0 \in Launches /\ usage \in Nat \cup {NONE}
  BY RequestFacts DEF IInv
<1>2. /\ budgets \in [Launches -> BudgetRecords \cup {NoBudget}]
      /\ NoBudget \notin BudgetRecords
  BY <1>1, BudgetsAreRecords DEF TypeOK
<1>3. CASE ~Budgeted(c)
  BY <1>3 DEF Settled
<1>4. CASE Budgeted(c)
  <2>1. Recorded(b0) > 0
    BY <1>4, ObserveFinds
  <2>2. b0 # NoBudget /\ b0 \in BudgetRecords
    BY <1>1, <1>2, <2>1 DEF Recorded
  <2>3. EntryOf(l0, Request[c].budget) = b0
    BY <2>2 DEF EntryOf
  <2>4. Settled(c) = [budgets EXCEPT ![l0] = b1]
    BY <1>4, <2>3 DEF Settled
  <2>5. /\ Settled(c)[l0] = b1
        /\ \A l \in Launches \ {l0} : Settled(c)[l] = budgets[l]
    <3> HIDE DEF b1, l0
    <3>1. QED
      BY <1>1, <1>2, <2>4
  <2>6. /\ b0.consumed \in Nat /\ b0.accounting_blocked \in BOOLEAN
        /\ b1.consumed = IF verified THEN b0.consumed + usage ELSE b0.consumed
        /\ b1.accounting_blocked = (b0.accounting_blocked \/ ~verified)
    <3> HIDE DEF verified, b0, usage
    <3>1. QED
      BY <2>2 DEF BudgetRecords
  <2>7. b1 # NoBudget
    <3>1. "consumed" \in DOMAIN b1
      BY <2>2 DEF BudgetRecords
    <3>2. "consumed" \notin DOMAIN NoBudget
      BY DEF NoBudget
    <3>3. QED
      BY <3>1, <3>2
  <2> HIDE DEF b1, b0, l0
  <2>8. b0.accounting_blocked \/ usage = NONE => b1.accounting_blocked
    BY <2>6
  <2>9. ~b1.accounting_blocked =>
            ~b0.accounting_blocked /\ usage \in Nat /\ b1.consumed = b0.consumed + usage
    BY <1>1, <2>6
  <2>10. QED
    BY <1>4, <2>2, <2>5, <2>6, <2>7, <2>8, <2>9 DEF b0, l0
<1>5. QED
  BY <1>3, <1>4

\* An observation is counted before its client is answered.
LEMMA ObserveKeeps ==
    ASSUME IInv, BudgetInv, NEW c \in Conns, pc[c] = "observing",
           pc' = [pc EXCEPT ![c] = "observed"], budgets' = Settled(c),
           UNCHANGED <<report, spent, unverified>>
    PROVE  BudgetInv'
<1> DEFINE l0 == Launch(c)
           u == report[c].usage
<1>1. TypeOK /\ l0 \in Launches /\ u \in Nat \cup {NONE}
  BY RequestFacts DEF IInv
<1>2. c \notin Unanswered /\ Unanswered' = Unanswered \cup {c}
  BY <1>1 DEF Unanswered, TypeOK
<1>3. \A l \in Launches : ~(Budgeted(c) /\ l = l0) => budgets'[l] = budgets[l]
  BY SettleCounts
<1>4. ASSUME Budgeted(c)
      PROVE  /\ budgets[l0] # NoBudget /\ budgets'[l0] # NoBudget
             /\ budgets[l0].consumed \in Nat
             /\ budgets[l0].accounting_blocked \/ u = NONE => budgets'[l0].accounting_blocked
             /\ ~budgets'[l0].accounting_blocked =>
                   /\ ~budgets[l0].accounting_blocked
                   /\ u \in Nat
                   /\ budgets'[l0].consumed = budgets[l0].consumed + u
  BY <1>4, SettleCounts
<1>5. ObservedIsCounted'
  <2> SUFFICES ASSUME NEW d \in Unanswered \cup {c}, Budgeted(d)
               PROVE  /\ budgets'[Launch(d)] # NoBudget
                      /\ report[d].usage = NONE => budgets'[Launch(d)].accounting_blocked
    BY <1>2 DEF ObservedIsCounted
  <2>1. CASE d = c
    BY <1>4, <2>1
  <2>2. CASE d \in Unanswered
    <3>1. /\ budgets[Launch(d)] # NoBudget
          /\ report[d].usage = NONE => budgets[Launch(d)].accounting_blocked
      BY <2>2 DEF BudgetInv, ObservedIsCounted
    <3>2. Launch(d) \in Launches
      BY <1>1, <2>2, RequestFacts DEF Unanswered
    <3>3. QED
      BY <1>3, <1>4, <3>1, <3>2
  <2>3. QED
    BY <2>1, <2>2
<1>6. \A l : ~(Budgeted(c) /\ l = l0 /\ u \in Nat) => Tokens(l)' = Tokens(l)
  <2> SUFFICES ASSUME NEW l, ~(Budgeted(c) /\ l = l0 /\ u \in Nat)
               PROVE  Tokens(l)' = Tokens(l)
    OBVIOUS
  <2>1. \A n \in Nat : ~(Budgeted(c) /\ l = l0 /\ n < u)
    BY <1>1 DEF NONE
  <2>2. QED
    BY <1>2, <2>1 DEF Tokens
<1>7. \A l \in Launches : ~(Budgeted(c) /\ l = l0) => SpentIsCounted(l)'
  BY <1>3, <1>6 DEF BudgetInv, SpentIsCounted
<1>8. ASSUME Budgeted(c) PROVE SpentIsCounted(l0)'
  <2>1. l0 \in unverified' => Blocked(budgets'[l0])
    BY <1>1, <1>4, <1>8 DEF BudgetInv, SpentIsCounted, Blocked
  <2>2. CASE u = NONE
    <3>1. Tokens(l0)' = Tokens(l0)
      BY <1>6, <2>2 DEF NONE
    <3>2. QED
      BY <1>1, <1>4, <1>8, <2>1, <2>2, <3>1 DEF BudgetInv, SpentIsCounted
  <2>3. CASE u \in Nat
    <3> DEFINE T == Tokens(l0)
    <3>1. IsFiniteSet(T) /\ spent'[l0] = spent[l0] /\ spent[l0] \in Nat
      BY <1>1 DEF BudgetInv, SpentIsCounted
    <3>2. Tokens(l0)' = T \cup Own(c, u) /\ T \cap Own(c, u) = {}
      <4>1. T \cap Own(c, u) = {}
        BY <1>2 DEF Tokens, Own
      <4>2. \A t \in Conns \X Nat : t \in Own(c, u) <=> t[1] = c /\ t[2] < u
        BY <2>3 DEF Own
      <4>3. Own(c, u) \subseteq Conns \X Nat
        BY DEF Own
      <4>4. Tokens(l0)' = {t \in Conns \X Nat : t \in T \/ (t[1] = c /\ t[2] < u)}
        BY <1>2, <1>8 DEF Tokens
      <4>5. T \subseteq Conns \X Nat
        BY DEF Tokens
      <4>6. QED
        BY <4>1, <4>2, <4>3, <4>4, <4>5
    <3>3. (budgets[l0] # NoBudget /\ ~budgets[l0].accounting_blocked) =>
            spent[l0] + Cardinality(T) <= budgets[l0].consumed
      BY <1>1 DEF BudgetInv, SpentIsCounted
    <3> HIDE DEF T
    <3>4. /\ IsFiniteSet(T \cup Own(c, u))
          /\ Cardinality(T \cup Own(c, u)) = Cardinality(T) + u
          /\ Cardinality(T) \in Nat
      BY <2>3, <3>1, <3>2, OwnAdded, FS_CardinalityType
    <3>5. ~budgets'[l0].accounting_blocked =>
            spent'[l0] + Cardinality(Tokens(l0)') <= budgets'[l0].consumed
      BY <1>4, <1>8, <2>3, <3>1, <3>2, <3>3, <3>4
    <3>6. IsFiniteSet(Tokens(l0)')
      BY <3>2, <3>4
    <3>7. QED
      BY <1>4, <1>8, <2>1, <3>5, <3>6 DEF SpentIsCounted
  <2>4. QED
    BY <1>1, <2>2, <2>3
<1>9. QED
  BY <1>5, <1>7, <1>8 DEF BudgetInv

\* A grant charges its launch with an attempt, not with tokens.
LEMMA GrantKeeps ==
    ASSUME TypeOK, BudgetInv, NEW c \in Conns, pc[c] = "queued",
           pc' = [pc EXCEPT ![c] = "granted"], budgets' = Charged(c),
           UNCHANGED <<report, spent, unverified>>
    PROVE  BudgetInv'
<1> DEFINE l0 == Launch(c)
           b0 == EntryOf(l0, Request[c].budget)
           b1 == [b0 EXCEPT !.in_flight = @ + 1]
<1>1. l0 \in Launches /\ Unanswered' = Unanswered
  BY RequestFacts DEF Unanswered, TypeOK
<1>2. \A l : Tokens(l)' = Tokens(l)
  BY <1>1 DEF Tokens
<1>3. /\ budgets \in [Launches -> BudgetRecords \cup {NoBudget}]
      /\ NoBudget \notin BudgetRecords
  BY BudgetsAreRecords DEF TypeOK
<1>4. CASE ~Budgeted(c)
  <2>1. budgets' = budgets
    BY <1>4 DEF Charged
  <2>2. QED
    BY <1>1, <2>1, NothingSettled
<1>5. CASE Budgeted(c)
  <2>1. /\ b0 \in BudgetRecords
        /\ budgets[l0] # NoBudget => b0 = budgets[l0]
        /\ budgets[l0] = NoBudget => b0.consumed = 0
    <3>1. BudgetState(Request[c].budget) \in BudgetRecords
      BY <1>5, RequestFacts DEF BudgetState, BudgetRecords
    <3>2. QED
      BY <1>1, <1>3, <3>1 DEF EntryOf, BudgetState
  <2>2. /\ b1 \in BudgetRecords /\ b1.consumed = b0.consumed
        /\ b1.accounting_blocked = b0.accounting_blocked
    BY <2>1 DEF BudgetRecords
  <2>3. /\ budgets' = [budgets EXCEPT ![l0] = b1]
        /\ b1 # NoBudget
    BY <1>3, <1>5, <2>2 DEF Charged
  <2> HIDE DEF b0, b1, l0
  <2>4. budgets'[l0] = b1 /\ \A l \in Launches \ {l0} : budgets'[l] = budgets[l]
    BY <1>1, <1>3, <2>3
  <2>5. ObservedIsCounted'
    <3> SUFFICES ASSUME NEW d \in Unanswered, Budgeted(d)
                 PROVE  /\ budgets'[Launch(d)] # NoBudget
                        /\ report[d].usage = NONE => budgets'[Launch(d)].accounting_blocked
      BY <1>1 DEF ObservedIsCounted
    <3>1. /\ budgets[Launch(d)] # NoBudget
          /\ report[d].usage = NONE => budgets[Launch(d)].accounting_blocked
      BY DEF BudgetInv, ObservedIsCounted
    <3>2. Launch(d) \in Launches
      BY RequestFacts DEF Unanswered
    <3>3. QED
      BY <2>1, <2>2, <2>3, <2>4, <3>1, <3>2
  <2>6. \A l \in Launches \ {l0} : SpentIsCounted(l)'
    BY <1>2, <2>4 DEF BudgetInv, SpentIsCounted
  <2>7. SpentIsCounted(l0)'
    <3>1. CASE budgets[l0] # NoBudget
      BY <1>1, <1>2, <2>1, <2>2, <2>3, <2>4, <3>1 DEF BudgetInv, SpentIsCounted, Blocked
    <3>2. CASE budgets[l0] = NoBudget
      <4>1. Tokens(l0) = {}
        BY <3>2 DEF Tokens, BudgetInv, ObservedIsCounted
      <4>2. spent[l0] = 0 /\ l0 \notin unverified
        BY <1>1, <3>2 DEF BudgetInv, SpentIsCounted, Blocked
      <4>3. IsFiniteSet(Tokens(l0)') /\ Cardinality(Tokens(l0)') = 0
        BY <1>2, <4>1, FS_EmptySet
      <4>4. QED
        BY <2>1, <2>2, <2>3, <2>4, <3>2, <4>2, <4>3 DEF SpentIsCounted
    <3>3. QED
      BY <3>1, <3>2
  <2>8. QED
    BY <2>5, <2>6, <2>7 DEF BudgetInv
<1>6. QED
  BY <1>4, <1>5

\* Clients and handlers: three of their steps answer a client.
LEMMA ConnStepKeeps ==
    ASSUME TypeOK, BudgetInv, NEW c \in Conns, ConnStep(c)
    PROVE  BudgetInv'
<1>1. pc \in [Conns -> Labels] /\ report \in [Conns -> Reports \cup {Abandoned}]
  BY DEF TypeOK, Labels
<1>2. budgets' = budgets
  BY ConnStepMoves
<1>3. CASE FinishAbandoned(c) \/ ReplyRetry(c) \/ ReplyComplete(c)
  <2>1. c \in Unanswered /\ Acknowledge(c)
    BY <1>3 DEF FinishAbandoned, ReplyRetry, ReplyComplete, Unanswered
  <2>2. Unanswered' = Unanswered \ {c} /\ \A d \in Conns \ {c} : report'[d] = report[d]
    BY <1>1, <1>3 DEF FinishAbandoned, ReplyRetry, ReplyComplete, Returns, Ends, Goto, Unanswered
  <2>3. QED
    BY <1>2, <2>1, <2>2, AnswerKeeps
<1>4. CASE ReleaseRetryable(c)
  <2>1. Unanswered' = Unanswered /\ UNCHANGED <<report, spent, unverified>>
    BY <1>1, <1>4 DEF ReleaseRetryable, Goto, Unanswered, history
  <2>2. QED
    BY <1>2, <2>1, NothingSettled
<1>5. CASE \/ Connect(c) \/ ClientLeaves(c) \/ ClientReports(c) \/ Age(c)
           \/ HandlerDisconnected(c) \/ DeliverGrant(c) \/ GrantWriteFails(c)
           \/ LeaseAbandoned(c) \/ DeliverRejection(c) \/ ReleaseCompleted(c)
           \/ OutlivedAttemptEnds(c)
  <2>1. /\ UNCHANGED <<spent, unverified>>
        /\ pc' = pc \/ (c \notin Unanswered /\ c \notin Unanswered' /\
                         \A d \in Conns \ {c} : pc'[d] = pc[d])
        /\ report' = report \/ (c \notin Unanswered /\ \A d \in Conns \ {c} : report'[d] = report[d])
    <3>1. CASE \/ Connect(c) \/ ClientLeaves(c) \/ Age(c) \/ DeliverGrant(c)
               \/ OutlivedAttemptEnds(c)
      BY <1>1, <3>1 DEF Connect, ClientLeaves, Age, DeliverGrant, OutlivedAttemptEnds, Goto, Unanswered, history
    <3>2. CASE ClientReports(c)
      BY <1>1, <3>2 DEF ClientReports, Goto, Unanswered, history
    <3>3. CASE HandlerDisconnected(c) \/ DeliverRejection(c) \/ ReleaseCompleted(c)
      BY <1>1, <3>3 DEF HandlerDisconnected, DeliverRejection, ReleaseCompleted, Returns, Ends,
                        Goto, Unanswered, history
    <3>4. CASE GrantWriteFails(c) \/ LeaseAbandoned(c)
      BY <1>1, <3>4 DEF GrantWriteFails, LeaseAbandoned, Cancel, Goto, Unanswered, history
    <3>5. QED
      BY <1>5, <3>1, <3>2, <3>3, <3>4
  <2>2. Unanswered' = Unanswered /\ \A d \in Unanswered : report'[d] = report[d]
    BY <2>1 DEF Unanswered
  <2>3. QED
    BY <1>2, <2>1, <2>2, NothingSettled
<1>6. QED
  BY <1>3, <1>4, <1>5 DEF ConnStep, Handler

\* Every step keeps the invariant while no daemon dies.
LEMMA BudgetStep ==
    ASSUME MaxCrashes = 0, IInv, BudgetInv, Next
    PROVE  BudgetInv'
<1>0. TypeOK /\ Queues /\ pc \in [Conns -> Labels]
  BY DEF IInv, TypeOK, Labels
<1>1. CASE \E c \in Conns : ConnStep(c)
  BY <1>0, <1>1, ConnStepKeeps
<1>2. CASE Receive
  <2> DEFINE c == Head(commands).conn
  <2>1. /\ c \in Conns
        /\ \/ ReceiveAcquire(c)
           \/ Asks(commands, "observe", c) /\ ReceiveObserve(c)
           \/ ReceiveRelease(c)
    BY <1>0, <1>2, ReceiveTakes
  <2>2. UNCHANGED <<report, spent, unverified>>
    BY <1>2 DEF Receive, history
  <2> HIDE DEF c
  <2>3. CASE ReceiveAcquire(c) \/ ReceiveRelease(c)
    <3>1. pc' = pc /\ budgets' = budgets
      BY <2>3 DEF ReceiveAcquire, ReceiveRelease
    <3>2. QED
      BY <1>0, <2>2, <3>1, NothingSettled DEF Unanswered
  <2>4. CASE Asks(commands, "observe", c) /\ ReceiveObserve(c)
    <3>1. pc[c] = "observing" /\ pc' = [pc EXCEPT ![c] = "observed"] /\ budgets' = Settled(c)
      BY <1>0, <2>1, <2>4 DEF ReceiveObserve, Goto, Queues, CommandsFit
    <3>2. QED
      BY <2>1, <2>2, <3>1, ObserveKeeps
  <2>5. QED
    BY <2>1, <2>3, <2>4
<1>3. CASE Retain \/ Quiet
  <2>1. UNCHANGED <<pc, report, budgets, spent, unverified>>
    BY <1>3, QuietSteps DEF Retain, handlers, history
  <2>2. QED
    BY <1>0, <2>1, NothingSettled DEF Unanswered
<1>4. CASE ServeNext
  <2>1. PICK i \in DOMAIN pending : SkipClosed(i) \/ Reject(i) \/ Grant(i)
    BY <1>4 DEF ServeNext
  <2> DEFINE c == pending[i]
  <2>2. c \in Conns /\ UNCHANGED <<report, spent, unverified>>
    BY <1>0, <1>4, ElementOfSeq, LenProperties DEF TypeOK, ServeNext, history
  <2>3. CASE SkipClosed(i)
    BY <1>0, <2>2, <2>3, NothingSettled DEF SkipClosed, Unanswered
  <2>4. CASE Reject(i)
    <3>1. pc[c] = "queued" /\ pc' = [pc EXCEPT ![c] = "rejected"] /\ budgets' = budgets
      BY <2>4 DEF Reject, Goto, is_closed
    <3>2. Unanswered' = Unanswered
      BY <1>0, <2>2, <3>1 DEF Unanswered
    <3>3. QED
      BY <1>0, <2>2, <3>1, <3>2, NothingSettled
  <2>5. CASE Grant(i)
    <3>1. pc[c] = "queued" /\ pc' = [pc EXCEPT ![c] = "granted"] /\ budgets' = Charged(c)
      BY <2>5 DEF Grant, Goto, is_closed
    <3> HIDE DEF c
    <3>2. QED
      BY <1>0, <2>2, <3>1, GrantKeeps
  <2>6. QED
    BY <2>1, <2>3, <2>4, <2>5
<1>5. ~Crash
  BY <1>0 DEF Crash, TypeOK
<1>6. QED
  BY <1>1, <1>2, <1>3, <1>4, <1>5, Steps

LEMMA BudgetInit == Init => BudgetInv
<1> SUFFICES ASSUME Init PROVE BudgetInv
  OBVIOUS
<1>1. Unanswered = {}
  BY DEF Init, Unanswered
<1>2. \A l : Tokens(l) = {}
  BY <1>1 DEF Tokens
<1>3. spent = [l \in Launches |-> 0] /\ unverified = {} /\ budgets = [l \in Launches |-> NoBudget]
  BY DEF Init
<1>4. QED
  BY <1>1, <1>2, <1>3, FS_EmptySet DEF BudgetInv, ObservedIsCounted, SpentIsCounted

LEMMA BudgetInvariance ==
    ASSUME MaxCrashes = 0
    PROVE  Spec => []BudgetInv
<1>1. IInv /\ BudgetInv /\ [Next]_vars => BudgetInv'
  <2> SUFFICES ASSUME IInv, BudgetInv, [Next]_vars PROVE BudgetInv'
    OBVIOUS
  <2>1. CASE Next
    BY <2>1, BudgetStep
  <2>2. CASE UNCHANGED vars
    <3>1. UNCHANGED <<pc, report, budgets, spent, unverified>>
      BY <2>2 DEF vars, handlers, history
    <3>2. QED
      BY <3>1, NothingSettled DEF Unanswered, IInv
  <2>3. QED
    BY <2>1, <2>2
<1>2. QED
  BY <1>1, BudgetInit, Invariance, PTL DEF Spec

-----------------------------------------------------------------------------
\* While no daemon dies, no attempt is admitted once the tokens its clients know
\* to be counted reach the launch's limit, or once one of its responses could
\* not be verified: whoever leaves, retries or overtakes (budget_rejection,
\* observe).  A death breaks it, as budget_restart shows.
THEOREM BudgetHonoured ==
    ASSUME MaxCrashes = 0, BudgetsArePositive
    PROVE  Spec => AdmissionHonoursBudget
<1>1. IInv /\ BudgetInv /\ [Next]_vars =>
        [\A c \in Conns : Granting(c) /\ Budgeted(c) =>
            spent[Launch(c)] < Request[c].budget /\ Launch(c) \notin unverified]_vars
  <2> SUFFICES ASSUME IInv, BudgetInv, Next, NEW c \in Conns, Granting(c), Budgeted(c)
               PROVE  spent[Launch(c)] < Request[c].budget /\ Launch(c) \notin unverified
    OBVIOUS
  <2> DEFINE l == Launch(c)
             b == budgets[l]
  <2>1. PICK i \in DOMAIN pending : pending[i] = c /\ Grant(i)
    BY GrantingServes
  <2>2. ~budget_rejection(c)
    BY <2>1 DEF Grant
  <2>3. TypeOK /\ l \in Launches /\ Request[c].budget \in Nat /\ spent[l] \in Nat
    BY RequestFacts DEF IInv, BudgetInv
  <2>4. SpentIsCounted(l)
    BY <2>3 DEF BudgetInv
  <2>5. CASE b = NoBudget
    <3>1. spent[l] = 0 /\ l \notin unverified
      BY <2>4, <2>5 DEF SpentIsCounted, Blocked
    <3>2. QED
      BY <2>3, <3>1 DEF BudgetsArePositive
  <2>6. CASE b # NoBudget
    <3>1. ~b.accounting_blocked /\ ~(b.consumed >= Request[c].budget)
      BY <2>2, <2>6 DEF budget_rejection, Barred
    <3>2. b.consumed \in Nat
      <4>1. budgets \in [Launches -> BudgetRecords \cup {NoBudget}]
        BY <2>3, BudgetsAreRecords DEF TypeOK
      <4>2. b \in BudgetRecords
        BY <2>3, <2>6, <4>1
      <4>3. QED
        BY <4>2 DEF BudgetRecords
    <3>3. spent[l] + Cardinality(Tokens(l)) <= b.consumed /\ Cardinality(Tokens(l)) \in Nat
      BY <2>4, <2>6, <3>1, FS_CardinalityType DEF SpentIsCounted
    <3>4. l \notin unverified
      BY <2>4, <3>1 DEF SpentIsCounted, Blocked
    <3> HIDE DEF l, b
    <3>5. spent[l] < Request[c].budget
      BY <2>3, <3>1, <3>2, <3>3
    <3>6. QED
      BY <3>4, <3>5 DEF l
  <2>7. QED
    BY <2>5, <2>6
<1>2. QED
  BY <1>1, Invariance, BudgetInvariance, PTL DEF Spec, AdmissionHonoursBudget

=============================================================================
