------------------------ MODULE CapacityWindowProofs ------------------------
(***************************************************************************)
(* The invariants of CapacityWindow for every value of its constants, and  *)
(* that the policy implements CapacityEnvelope.                            *)
(***************************************************************************)
EXTENDS CapacityWindow, TLAPS

(* The relations the invariants rest on, stated of any record of the       *)
(* policy's slow state, so that they hold of the saved copy as well.       *)

Coupled(w, level, h, c, l) ==
    /\ level > 0 <=> h # NONE
    /\ c # NONE => h # NONE
    /\ c # NONE <=> l # NONE
    /\ c # NONE => w <= c /\ c = estimated_ceiling(l)
    /\ w < INITIAL_WINDOW => c # NONE

CacheCoupled ==
    IsCached => Coupled(cache.window, cache.penalty_level, cache.hold,
                        cache.ceiling, cache.limited_at)

PolicyCoupled == Coupled(window, penalty_level, hold, ceiling, limited_at)

IInv == TypeOK /\ PolicyCoupled /\ CacheCoupled

USE DEF Envelope!CapacityParameters

-----------------------------------------------------------------------------
(* Lemmas about the window and hold arithmetic.                            *)

\* Every hold apply_growth_penalty sets is positive and within the cap.
LEMMA HoldForRange ==
    ASSUME NEW level \in 1..MaxPenalty
    PROVE  HoldFor(level) \in 1..MAX_GROWTH_HOLD
<1> USE WindowAssumption DEF MaxPenalty, HoldFor, Smaller
<1>1. CASE level = 1
  BY <1>1
<1>2. CASE level = 2
  BY <1>2
<1>3. CASE level = 3
  BY <1>3
<1>4. CASE level = 4
  BY <1>4
<1>5. QED
  BY <1>1, <1>2, <1>3, <1>4

\* A shrinking step stays between one permit and the window it started from,
\* and a soft one never leaves fewer than the initial window had it as many.
LEMMA ShrinkRange ==
    ASSUME NEW w \in 1..MAX_WINDOW
    PROVE  /\ Envelope!AfterRateLimit(w) \in 1..w
           /\ Envelope!Decremented(w) \in 1..w
           /\ Envelope!Halved(w) \in 1..w
           /\ w >= INITIAL_WINDOW => Envelope!Decremented(w) >= INITIAL_WINDOW
           /\ w >= INITIAL_WINDOW => Envelope!Halved(w) >= INITIAL_WINDOW
           /\ w < INITIAL_WINDOW => Envelope!Decremented(w) = w
           /\ w < INITIAL_WINDOW => Envelope!Halved(w) = w
BY WindowAssumption
DEF Envelope!AfterRateLimit, Envelope!Decremented, Envelope!Halved,
    Envelope!AfterSoftFailure, Envelope!Larger, Envelope!Smaller

\* The estimate a rate limit leaves admits the window it shrinks to, and
\* estimates keep the order of the windows they are made from.
LEMMA EstimateRange ==
    ASSUME NEW w \in 1..MAX_WINDOW
    PROVE  /\ estimated_ceiling(w) \in 1..w
           /\ Envelope!AfterRateLimit(w) <= estimated_ceiling(w)
           /\ \A v \in 1..MAX_WINDOW : v <= w => estimated_ceiling(v) <= estimated_ceiling(w)
BY WindowAssumption
DEF estimated_ceiling, Larger, Smaller, Envelope!AfterRateLimit, Envelope!Larger

\* A fraction of a learned surplus is no more than the surplus.
LEMMA FractionRange ==
    ASSUME NEW x \in Nat, NEW r \in Nat, NEW t \in Nat \ {0}, r <= t
    PROVE  (x * r) \div t \in 0..x
<1> DEFINE q == (x * r) \div t
<1>1. x * r <= x * t /\ x * r \in Nat /\ x * t \in Nat
  BY SMT
<1>2. q \in Nat /\ q * t <= x * r
  BY <1>1, SMT
<1>3. q <= x
  <2>1. SUFFICES ASSUME q >= x + 1 PROVE FALSE
    BY <1>2
  <2>2. q * t >= (x + 1) * t
    BY <2>1, <1>2, SMT
  <2>3. QED
    BY <2>2, <1>1, <1>2, SMT
<1>4. QED
  BY <1>2, <1>3

\* What a restart restores once the hold is over is never less than a cold
\* scope's window and never more than the maximum.
LEMMA FadedRange ==
    ASSUME NEW w \in 1..MAX_WINDOW, NEW a \in (0 - MaxHold)..CACHE_TTL
    PROVE  Faded(w, a) \in INITIAL_WINDOW..MAX_WINDOW
<1> DEFINE learned == Clamp(INITIAL_WINDOW, w, MAX_WINDOW)
           remaining == CACHE_TTL - Larger(a, 0)
<1>1. learned \in INITIAL_WINDOW..MAX_WINDOW
  BY WindowAssumption DEF Clamp, Larger, Smaller
<1>2. remaining \in 0..CACHE_TTL
  BY WindowAssumption DEF Larger
<1>3. ((learned - INITIAL_WINDOW) * remaining) \div CACHE_TTL \in 0..(learned - INITIAL_WINDOW)
  <2>1. learned - INITIAL_WINDOW \in Nat /\ remaining \in Nat /\ remaining <= CACHE_TTL
    BY <1>1, <1>2, WindowAssumption
  <2>2. CACHE_TTL \in Nat \ {0}
    BY WindowAssumption
  <2>3. QED
    BY <2>1, <2>2, FractionRange
<1>4. Faded(w, a) = INITIAL_WINDOW + ((learned - INITIAL_WINDOW) * remaining) \div CACHE_TTL
  BY DEF Faded
<1> HIDE DEF learned, remaining
<1>5. QED
  BY <1>1, <1>3, <1>4, WindowAssumption

-----------------------------------------------------------------------------
(* The inductive invariant.                                                *)

\* A cold scope satisfies the invariant.
LEMMA InitInv == Init => IInv
BY WindowAssumption
DEF Init, IInv, TypeOK, PolicyCoupled, CacheCoupled, Coupled, IsCached, NoCache,
    NONE, Times, MaxPenalty, BREAKER_FAILURES, growth_successes, Larger

\* A penalty leaves a positive hold that does not end before the old one.
LEMMA PenaltyRange ==
    ASSUME TypeOK, apply_growth_penalty
    PROVE  /\ penalty_level' \in 1..MaxPenalty
           /\ healthy_since_penalty' = 0
           /\ hold' \in 1..MaxHold
<1>1. Smaller(penalty_level + 1, MaxPenalty) \in 1..MaxPenalty
  BY DEF TypeOK, MaxPenalty, Smaller
<1>2. HoldFor(Smaller(penalty_level + 1, MaxPenalty)) \in 1..MAX_GROWTH_HOLD
  BY <1>1, HoldForRange
<1>3. QED
  BY <1>1, <1>2, WindowAssumption DEF apply_growth_penalty, TypeOK, Times, Larger

\* extend_cooldown stays within the representable delays.
LEMMA CooldownRange ==
    ASSUME TypeOK, NEW delay \in 0..NEVER
    PROVE  extend_cooldown(delay) \in 0..NEVER
BY WindowAssumption DEF TypeOK, extend_cooldown, Envelope!Extended, Envelope!Larger

\* A success leaves the window, grows it below the ceiling in force, or grows
\* it and clears penalty, hold and ceiling together.
LEMMA SuccessInv ==
    ASSUME IInv, NEW foreground \in BOOLEAN, NEW eligible \in BOOLEAN,
           NEW headers_in_time \in BOOLEAN, Dirtied,
           Success(foreground, eligible, headers_in_time)
    PROVE  IInv'
<1> USE WindowAssumption
<1>1. TypeOK'
  BY DEF IInv, TypeOK, Success, Dirtied, Counted, growth_successes, Larger, Smaller,
         NONE, Times, MaxPenalty, BREAKER_FAILURES, IsCached, NoCache
<1>2. CacheCoupled'
  BY DEF IInv, CacheCoupled, Coupled, Success, IsCached
<1>3. PolicyCoupled'
  <2>1. \/ /\ window' = window
           /\ UNCHANGED <<penalty_level, hold, ceiling, limited_at>>
        \/ /\ window' = window + 1
           /\ ceiling # NONE /\ ~CeilingReached
           /\ UNCHANGED <<penalty_level, hold, ceiling, limited_at>>
        \/ /\ window' = window + 1
           /\ penalty_level' = 0 /\ hold' = NONE
           /\ ceiling' = NONE /\ limited_at' = NONE
    BY DEF Success
  <2>2. CASE window' = window /\ UNCHANGED <<penalty_level, hold, ceiling, limited_at>>
    BY <2>2 DEF IInv, PolicyCoupled, Coupled
  <2>3. CASE /\ window' = window + 1
             /\ ceiling # NONE /\ ~CeilingReached
             /\ UNCHANGED <<penalty_level, hold, ceiling, limited_at>>
    <3>1. window + 1 <= ceiling
      BY <2>3 DEF IInv, TypeOK, CeilingReached, NONE
    <3>2. QED
      BY <2>3, <3>1 DEF IInv, PolicyCoupled, Coupled
  <2>4. CASE /\ window' = window + 1
             /\ penalty_level' = 0 /\ hold' = NONE
             /\ ceiling' = NONE /\ limited_at' = NONE
    <3>1. ~(window + 1 < INITIAL_WINDOW)
      BY DEF IInv, TypeOK
    <3>2. QED
      BY <2>4, <3>1 DEF PolicyCoupled, Coupled
  <2>5. QED
    BY <2>1, <2>2, <2>3, <2>4
<1>4. QED
  BY <1>1, <1>2, <1>3 DEF IInv

\* observe_rate_limit sets ceiling, hold and limited_at together.
LEMMA RateLimitedInv ==
    ASSUME IInv, NEW delay \in Hints \cup LocalDelays, Dirtied, RateLimited(delay)
    PROVE  IInv'
<1> USE WindowAssumption
<1>1. /\ penalty_level' \in 1..MaxPenalty
      /\ healthy_since_penalty' = 0
      /\ hold' \in 1..MaxHold
  BY PenaltyRange DEF IInv, RateLimited
<1>2. cooldown' \in 0..NEVER
  BY CooldownRange DEF IInv, RateLimited
<1>3. window \in 1..MAX_WINDOW
  BY DEF IInv, TypeOK
<1>4. /\ window' \in 1..window
      /\ estimated_ceiling(window) \in 1..window
      /\ window' <= estimated_ceiling(window)
  BY <1>3, ShrinkRange, EstimateRange DEF RateLimited
<1>5. /\ ceiling' \in 1..MAX_WINDOW
      /\ limited_at' \in 1..MAX_WINDOW
  BY <1>3, <1>4 DEF IInv, TypeOK, RateLimited, Smaller, NONE
<1>6. TypeOK'
  BY <1>1, <1>2, <1>3, <1>4, <1>5
  DEF IInv, TypeOK, RateLimited, Dirtied, growth_successes, Larger, NONE, Times,
      IsCached, NoCache
<1>7. CacheCoupled'
  BY DEF IInv, CacheCoupled, Coupled, RateLimited, IsCached
<1>8. window' <= ceiling' /\ ceiling' = estimated_ceiling(limited_at')
  <2>1. CASE ceiling = NONE
    BY <2>1, <1>4 DEF IInv, PolicyCoupled, Coupled, RateLimited
  <2>2. CASE ceiling # NONE
    <3>1. /\ limited_at \in 1..MAX_WINDOW
          /\ window <= ceiling
          /\ ceiling = estimated_ceiling(limited_at)
      BY <2>2 DEF IInv, TypeOK, PolicyCoupled, Coupled
    <3>2. /\ window <= limited_at => estimated_ceiling(window) <= estimated_ceiling(limited_at)
          /\ limited_at <= window => estimated_ceiling(limited_at) <= estimated_ceiling(window)
      BY <1>3, <3>1, EstimateRange
    <3>3. estimated_ceiling(limited_at) \in 1..limited_at
      BY <3>1, EstimateRange
    <3>4. /\ ceiling' = Smaller(ceiling, estimated_ceiling(window))
          /\ limited_at' = Smaller(limited_at, window)
      BY <2>2, <3>1 DEF RateLimited, NONE
    <3>5. QED
      BY <1>3, <1>4, <3>1, <3>2, <3>3, <3>4 DEF Smaller
  <2>3. QED
    BY <2>1, <2>2
<1>9. PolicyCoupled'
  BY <1>1, <1>5, <1>8 DEF PolicyCoupled, Coupled, NONE, MaxPenalty
<1>10. QED
  BY <1>6, <1>7, <1>9 DEF IInv

\* What the three kinds of soft failure have in common.
LEMMA SoftFailureInv ==
    ASSUME IInv, Dirtied,
           window' \in {Envelope!Decremented(window), Envelope!Halved(window)},
           apply_growth_penalty \/ NoPenalty,
           successful_round' = 0,
           transient_failures' \in 0..BREAKER_FAILURES,
           cooldown' \in 0..NEVER,
           age' = 0,
           UNCHANGED <<ceiling, since_growth, cache, limited_at>>
    PROVE  IInv'
<1> USE WindowAssumption
<1>1. window \in 1..MAX_WINDOW
  BY DEF IInv, TypeOK
<1>2. /\ window' \in 1..window
      /\ window >= INITIAL_WINDOW => window' >= INITIAL_WINDOW
      /\ window < INITIAL_WINDOW => window' = window
  BY <1>1, ShrinkRange
<1>3. /\ penalty_level' \in 0..MaxPenalty
      /\ healthy_since_penalty' \in 0..growth_successes(MAX_WINDOW)
      /\ hold' \in Times
      /\ penalty_level' > 0 <=> hold' # NONE
      /\ hold # NONE => hold' # NONE
  <2>1. CASE apply_growth_penalty
    BY <2>1, PenaltyRange DEF IInv, MaxPenalty, Times, NONE, growth_successes, Larger
  <2>2. CASE NoPenalty
    BY <2>2 DEF NoPenalty, IInv, TypeOK, PolicyCoupled, Coupled
  <2>3. QED
    BY <2>1, <2>2
<1>4. TypeOK'
  BY <1>1, <1>2, <1>3
  DEF IInv, TypeOK, Dirtied, growth_successes, Larger, NONE, Times, IsCached, NoCache
<1>5. CacheCoupled'
  BY DEF IInv, CacheCoupled, Coupled, IsCached
<1>6. PolicyCoupled'
  BY <1>1, <1>2, <1>3 DEF IInv, TypeOK, PolicyCoupled, Coupled, NONE, Times
<1>7. QED
  BY <1>4, <1>5, <1>6 DEF IInv

\* Transport errors, timeouts and server errors are soft failures.
LEMMA TransientInv ==
    ASSUME IInv, Dirtied, NEW block_growth \in BOOLEAN, NEW delay \in LocalDelays,
           NEW hint \in Hints \cup {NONE},
           NEW next \in {Envelope!Decremented(window), Envelope!Halved(window)},
           TransientFailure(next, block_growth, delay, hint)
    PROVE  IInv'
<1> USE WindowAssumption
<1>1. cooldown' \in 0..NEVER
  BY CooldownRange
  DEF IInv, TypeOK, TransientFailure, Envelope!Extended, Envelope!Larger, NONE
<1>2. transient_failures' \in 0..BREAKER_FAILURES
  BY DEF IInv, TypeOK, TransientFailure, Smaller, BREAKER_FAILURES
<1>3. apply_growth_penalty \/ NoPenalty
  BY DEF TransientFailure
<1>4. QED
  BY <1>1, <1>2, <1>3, SoftFailureInv DEF TransientFailure

\* observe_invalid_response keeps the invariant, whether the window shrank or not.
LEMMA InvalidResponseInv ==
    ASSUME IInv, Dirtied, NEW delay \in LocalDelays, InvalidResponse(delay)
    PROVE  IInv'
<1>1. cooldown' \in 0..NEVER
  BY CooldownRange, WindowAssumption DEF IInv, InvalidResponse
<1>2. apply_growth_penalty \/ NoPenalty
  BY DEF InvalidResponse
<1>3. transient_failures' \in 0..BREAKER_FAILURES
  BY DEF InvalidResponse, IInv, TypeOK
<1>4. QED
  BY <1>1, <1>2, <1>3, SoftFailureInv DEF InvalidResponse

\* Time moves a saved hold and age within their ranges; it neither makes nor
\* ends a hold.
LEMMA SavedTimeInv ==
    ASSUME IInv,
           NEW h \in Times, NEW a \in (0 - MaxHold)..CACHE_TTL,
           IsCached => h = NONE <=> cache.hold = NONE,
           cache' = IF IsCached THEN [cache EXCEPT !.hold = h, !.age = a] ELSE cache
    PROVE  /\ IsCached' => cache' \in
                [window : 1..MAX_WINDOW, age : (0 - MaxHold)..CACHE_TTL,
                 healthy_since_penalty : 0..growth_successes(MAX_WINDOW),
                 penalty_level : 0..MaxPenalty, hold : Times,
                 ceiling : {NONE} \cup 1..MAX_WINDOW,
                 limited_at : {NONE} \cup 1..MAX_WINDOW]
           /\ CacheCoupled'
<1>1. CASE ~IsCached
  BY <1>1 DEF IsCached, CacheCoupled
<1>2. CASE IsCached
  <2>1. cache' = [window |-> cache.window, age |-> a,
                  healthy_since_penalty |-> cache.healthy_since_penalty,
                  penalty_level |-> cache.penalty_level, hold |-> h,
                  ceiling |-> cache.ceiling, limited_at |-> cache.limited_at]
    BY <1>2 DEF IInv, TypeOK
  <2>2. cache' \in
          [window : 1..MAX_WINDOW, age : (0 - MaxHold)..CACHE_TTL,
           healthy_since_penalty : 0..growth_successes(MAX_WINDOW),
           penalty_level : 0..MaxPenalty, hold : Times,
           ceiling : {NONE} \cup 1..MAX_WINDOW,
           limited_at : {NONE} \cup 1..MAX_WINDOW]
    BY <1>2, <2>1 DEF IInv, TypeOK
  <2>3. CacheCoupled'
    BY <1>2, <2>1 DEF IInv, CacheCoupled, Coupled
  <2>4. QED
    BY <2>2, <2>3
<1>3. QED
  BY <1>1, <1>2

\* A deadline that counts down does not become None.
LEMMA TickInv == ASSUME IInv, Tick PROVE IInv'
<1> USE WindowAssumption
<1> DEFINE h == CountDown(cache.hold)
           a == Smaller(cache.age + 1, CACHE_TTL)
<1>1. IsCached => /\ h \in Times /\ (h = NONE <=> cache.hold = NONE)
                  /\ a \in (0 - MaxHold)..CACHE_TTL
  BY DEF IInv, TypeOK, CountDown, Smaller, Times, NONE
<1>2. /\ IsCached' => cache' \in
           [window : 1..MAX_WINDOW, age : (0 - MaxHold)..CACHE_TTL,
            healthy_since_penalty : 0..growth_successes(MAX_WINDOW),
            penalty_level : 0..MaxPenalty, hold : Times,
            ceiling : {NONE} \cup 1..MAX_WINDOW,
            limited_at : {NONE} \cup 1..MAX_WINDOW]
      /\ CacheCoupled'
  <2>1. CASE IsCached
    <3>1. cache' = [cache EXCEPT !.hold = h, !.age = a]
      BY <2>1 DEF Tick
    <3> HIDE DEF h, a
    <3>2. QED
      BY <1>1, <2>1, <3>1, SavedTimeInv
  <2>2. CASE ~IsCached
    BY <2>2 DEF Tick, IsCached, CacheCoupled
  <2>3. QED
    BY <2>1, <2>2
<1>3. TypeOK'
  BY <1>2 DEF IInv, TypeOK, Tick, CountDown, Smaller, Times, NONE
<1>4. PolicyCoupled'
  BY DEF IInv, TypeOK, PolicyCoupled, Coupled, Tick, CountDown, Times, NONE
<1>5. QED
  BY <1>2, <1>3, <1>4 DEF IInv

\* A wall-clock step moves deadlines and does not create or drop one.
LEMMA ClockStepInv == ASSUME IInv, NEW d \in ClockSteps, ClockStep(d) PROVE IInv'
<1> USE WindowAssumption
<1>1. d \in Int
  OBVIOUS
<1>2. \A t \in Times : \A m \in Moved(t, d) : m \in Times /\ (m = NONE <=> t = NONE)
  BY <1>1 DEF Moved, Times, NONE, Clamp, Larger, Smaller
<1>3. \A t \in (0 - MaxHold)..CACHE_TTL :
         Clamp(0 - MaxHold, t + d, CACHE_TTL) \in (0 - MaxHold)..CACHE_TTL
  BY <1>1 DEF Clamp, Larger, Smaller
<1>4. /\ IsCached' => cache' \in
           [window : 1..MAX_WINDOW, age : (0 - MaxHold)..CACHE_TTL,
            healthy_since_penalty : 0..growth_successes(MAX_WINDOW),
            penalty_level : 0..MaxPenalty, hold : Times,
            ceiling : {NONE} \cup 1..MAX_WINDOW,
            limited_at : {NONE} \cup 1..MAX_WINDOW]
      /\ CacheCoupled'
  <2>1. CASE IsCached
    <3> DEFINE a == Clamp(0 - MaxHold, cache.age + d, CACHE_TTL)
    <3>1. PICK h \in Moved(cache.hold, d) :
             cache' = [cache EXCEPT !.hold = h, !.age = a]
      BY <2>1 DEF ClockStep
    <3>2. cache.hold \in Times /\ cache.age \in (0 - MaxHold)..CACHE_TTL
      BY <2>1 DEF IInv, TypeOK
    <3>3. h \in Times /\ (h = NONE <=> cache.hold = NONE)
      BY <1>2, <3>2
    <3>4. a \in (0 - MaxHold)..CACHE_TTL
      BY <1>3, <3>2
    <3> HIDE DEF a
    <3>5. QED
      BY <2>1, <3>1, <3>3, <3>4, SavedTimeInv
  <2>2. CASE ~IsCached
    BY <2>2 DEF ClockStep, IsCached, CacheCoupled
  <2>3. QED
    BY <2>1, <2>2
<1>5. hold' \in Times /\ (hold' = NONE <=> hold = NONE)
  BY <1>2 DEF IInv, TypeOK, ClockStep
<1>6. age' \in (0 - MaxHold)..CACHE_TTL
  BY <1>3 DEF IInv, TypeOK, ClockStep
<1>7. TypeOK'
  BY <1>4, <1>5, <1>6 DEF IInv, TypeOK, ClockStep
<1>8. PolicyCoupled'
  BY <1>5 DEF IInv, PolicyCoupled, Coupled, ClockStep
<1>9. QED
  BY <1>4, <1>7, <1>8 DEF IInv

\* save_cache writes a copy that is coupled like the original.
LEMMA SaveInv == ASSUME IInv, save_cache PROVE IInv'
<1>1. TypeOK'
  BY WindowAssumption DEF IInv, TypeOK, save_cache, policy, IsCached, NoCache
<1>2. PolicyCoupled'
  BY DEF IInv, PolicyCoupled, Coupled, save_cache, policy
<1>3. CacheCoupled'
  BY DEF IInv, PolicyCoupled, CacheCoupled, Coupled, save_cache, policy, IsCached
<1>4. QED
  BY <1>1, <1>2, <1>3 DEF IInv

\* restored_scope keeps hold, level and ceiling together or drops all of them.
LEMMA RestartInv == ASSUME IInv, Restart PROVE IInv'
<1> USE WindowAssumption
<1>1. CASE RestartCold
  BY <1>1
  DEF RestartCold, Defaulted, IInv, TypeOK, PolicyCoupled, CacheCoupled, Coupled,
      IsCached, NoCache, NONE, Times, MaxPenalty, BREAKER_FAILURES, growth_successes, Larger
<1>2. CASE restored_scope
  <2>1. /\ cache.window \in 1..MAX_WINDOW
        /\ cache.age \in (0 - MaxHold)..CACHE_TTL
    BY <1>2 DEF restored_scope, IInv, TypeOK
  <2>2. Faded(cache.window, cache.age) \in INITIAL_WINDOW..MAX_WINDOW
    BY <2>1, FadedRange
  <2>3. Clamp(1, cache.window, MAX_WINDOW) = cache.window
    BY <2>1 DEF Clamp, Larger, Smaller
  <2>4. CacheCoupled'
    BY <1>2 DEF IInv, CacheCoupled, Coupled, restored_scope, IsCached
  <2>5. CASE cache.hold > 0
    <3>1. /\ window' = cache.window /\ penalty_level' = cache.penalty_level
          /\ hold' = cache.hold /\ ceiling' = cache.ceiling
          /\ limited_at' = cache.limited_at /\ age' = cache.age
          /\ healthy_since_penalty' = cache.healthy_since_penalty
          /\ Defaulted /\ UNCHANGED cache
      BY <1>2, <2>3, <2>5 DEF restored_scope
    <3>2. TypeOK'
      BY <1>2, <3>1
      DEF restored_scope, Defaulted, IInv, TypeOK, BREAKER_FAILURES, growth_successes,
          Larger, IsCached
    <3>3. PolicyCoupled'
      BY <1>2, <3>1 DEF restored_scope, IInv, PolicyCoupled, CacheCoupled, Coupled
    <3>4. QED
      BY <2>4, <3>2, <3>3 DEF IInv
  <2>6. CASE ~(cache.hold > 0)
    <3>1. /\ window' = Faded(cache.window, cache.age) /\ penalty_level' = 0
          /\ hold' = NONE /\ ceiling' = NONE
          /\ limited_at' = NONE /\ age' = cache.age
          /\ healthy_since_penalty' = 0
          /\ Defaulted /\ UNCHANGED cache
      BY <1>2, <2>6 DEF restored_scope
    <3>2. window' \in INITIAL_WINDOW..MAX_WINDOW
      BY <2>2, <3>1
    <3>3. TypeOK'
      BY <1>2, <2>1, <3>1, <3>2
      DEF restored_scope, Defaulted, IInv, TypeOK, BREAKER_FAILURES, growth_successes,
          Larger, IsCached, NONE, Times, MaxPenalty
    <3>4. PolicyCoupled'
      BY <3>1, <3>2 DEF PolicyCoupled, Coupled
    <3>5. QED
      BY <2>4, <3>3, <3>4 DEF IInv
  <2>7. QED
    BY <2>5, <2>6
<1>3. QED
  BY <1>1, <1>2 DEF Restart

\* Every step of the policy keeps the invariant.
LEMMA StepInv == IInv /\ [Next]_vars => IInv'
<1> SUFFICES ASSUME IInv, [Next]_vars PROVE IInv'
  OBVIOUS
<1>1. CASE ObserveSuccess
  BY <1>1, SuccessInv DEF ObserveSuccess
<1>2. CASE ObserveRateLimited
  BY <1>2, RateLimitedInv DEF ObserveRateLimited
<1>3. CASE ObserveTransport
  BY <1>3, TransientInv DEF ObserveTransport, Transport
<1>4. CASE ObserveTimeout
  BY <1>4, TransientInv DEF ObserveTimeout, Timeout
<1>5. CASE ObserveServerError
  BY <1>5, TransientInv DEF ObserveServerError, ServerError
<1>6. CASE ObserveInvalidResponse
  BY <1>6, InvalidResponseInv DEF ObserveInvalidResponse
<1>7. CASE Tick
  BY <1>7, TickInv
<1>8. CASE \E d \in ClockSteps : ClockStep(d)
  BY <1>8, ClockStepInv
<1>9. CASE save_cache
  BY <1>9, SaveInv
<1>10. CASE Restart
  BY <1>10, RestartInv
<1>11. CASE UNCHANGED vars
  BY <1>11
  DEF vars, policy, IInv, TypeOK, PolicyCoupled, CacheCoupled, Coupled, IsCached
<1>12. QED
  BY <1>1, <1>2, <1>3, <1>4, <1>5, <1>6, <1>7, <1>8, <1>9, <1>10, <1>11 DEF Next

\* The invariant holds in every reachable state.
LEMMA Invariance == Spec => []IInv
BY InitInv, StepInv, PTL DEF Spec

-----------------------------------------------------------------------------
(* The properties of the runs.                                             *)

\* Every variable of the policy and of its saved copy keeps its range.
THEOREM TypeCorrect == Spec => []TypeOK
<1>1. IInv => TypeOK
  BY DEF IInv
<1>2. QED
  BY <1>1, Invariance, PTL

\* The window never exceeds the ceiling in force (rate_limit_ceiling), over
\* every order of outcomes, clock steps and restarts.
THEOREM CeilingIsRespected == Spec => []CeilingRespected
<1>1. IInv => CeilingRespected
  BY DEF IInv, PolicyCoupled, Coupled, CeilingRespected
<1>2. QED
  BY <1>1, Invariance, PTL

\* No penalty level and no ceiling outlives the deadline that ends it
\* (apply_growth_penalty, observe_success, restored_scope).
THEOREM PenaltiesEnd == Spec => []PenaltyHasAnEnd
<1>1. IInv => PenaltyHasAnEnd
  BY DEF IInv, PolicyCoupled, Coupled, PenaltyHasAnEnd
<1>2. QED
  BY <1>1, Invariance, PTL

\* Only a rate limit, and as long as its ceiling stands, leaves a scope with
\* fewer permits than a cold one (observe_transient_failure, restored_scope).
THEOREM BelowInitialOnlyAfterRateLimit == Spec => []BelowInitialOnlyWhenLimited
<1>1. IInv => BelowInitialOnlyWhenLimited
  BY DEF IInv, PolicyCoupled, Coupled, BelowInitialOnlyWhenLimited
<1>2. QED
  BY <1>1, Invariance, PTL

\* While growth is held, no size the provider refused is tried again
\* (rate_limit_ceiling in observe_success).
THEOREM RefusedSizeNotRetried == Spec => []NoRepeatedProbe
<1>1. IInv => NoRepeatedProbe
  <2>1. SUFFICES ASSUME IInv, limited_at # NONE
                 PROVE  window < limited_at \/ window <= INITIAL_WINDOW
    BY DEF NoRepeatedProbe
  <2>2. limited_at \in 1..MAX_WINDOW /\ window \in 1..MAX_WINDOW
    BY <2>1 DEF IInv, TypeOK
  <2>3. window <= estimated_ceiling(limited_at)
    BY <2>1 DEF IInv, PolicyCoupled, Coupled
  <2>4. QED
    BY <2>2, <2>3, WindowAssumption DEF estimated_ceiling, Larger, Smaller
<1>2. QED
  BY <1>1, Invariance, PTL

\* Every step of the policy is one the scheduler may rely on: a step of
\* CapacityEnvelope or one that leaves window and cooldown alone.
LEMMA EnvelopeStep == IInv /\ [Next]_vars /\ IInv' => [Envelope!Next]_Envelope!vars
<1> SUFFICES ASSUME IInv, [Next]_vars, IInv' PROVE [Envelope!Next]_Envelope!vars
  OBVIOUS
<1> USE WindowAssumption DEF Envelope!Next, Envelope!vars, Envelope!Observe, Envelope!Outcomes
<1>0. window \in 1..MAX_WINDOW /\ cooldown \in 0..NEVER
  BY DEF IInv, TypeOK
<1>1. CASE ObserveSuccess
  <2>1. window' \in {window, window + 1} /\ UNCHANGED cooldown
    BY <1>1 DEF ObserveSuccess, Success
  <2>2. window' <= MAX_WINDOW
    BY DEF IInv, TypeOK
  <2>3. window' \in Envelope!WindowsAfter("Success", TRUE, window)
    BY <1>0, <2>1, <2>2 DEF Envelope!WindowsAfter, Envelope!Smaller
  <2>4. cooldown' \in Envelope!CooldownsAfter("Success", TRUE, cooldown)
    BY <2>1 DEF Envelope!CooldownsAfter
  <2>5. QED
    BY <2>3, <2>4
<1>2. CASE ObserveRateLimited
  <2>1. window' \in Envelope!WindowsAfter("RateLimited", TRUE, window)
    BY <1>2 DEF ObserveRateLimited, RateLimited, Envelope!WindowsAfter
  <2>2. cooldown' \in Envelope!CooldownsAfter("RateLimited", TRUE, cooldown)
    BY <1>2 DEF ObserveRateLimited, RateLimited, extend_cooldown, Envelope!CooldownsAfter
  <2>3. QED
    BY <2>1, <2>2
<1>3. CASE ObserveTransport
  <2>1. window' \in Envelope!WindowsAfter("Transport", TRUE, window)
    BY <1>3 DEF ObserveTransport, Transport, TransientFailure, Envelope!WindowsAfter
  <2>2. cooldown' \in Envelope!CooldownsAfter("Transport", TRUE, cooldown)
    BY <1>3 DEF ObserveTransport, Transport, TransientFailure, extend_cooldown,
                Envelope!CooldownsAfter
  <2>3. QED
    BY <2>1, <2>2
<1>4. CASE ObserveTimeout
  <2>1. window' \in Envelope!WindowsAfter("Timeout", TRUE, window)
    BY <1>4 DEF ObserveTimeout, Timeout, TransientFailure, Envelope!WindowsAfter
  <2>2. cooldown' \in Envelope!CooldownsAfter("Timeout", TRUE, cooldown)
    BY <1>4 DEF ObserveTimeout, Timeout, TransientFailure, extend_cooldown,
                Envelope!CooldownsAfter
  <2>3. QED
    BY <2>1, <2>2
<1>5. CASE ObserveServerError
  <2>1. window' \in Envelope!WindowsAfter("ServerError", TRUE, window)
    BY <1>5 DEF ObserveServerError, ServerError, TransientFailure, Envelope!WindowsAfter
  <2>2. PICK delay \in LocalDelays, hint \in Hints \cup {NONE} : ServerError(delay, hint)
    BY <1>5 DEF ObserveServerError
  <2>3. hint # NONE =>
          Envelope!Extended(extend_cooldown(delay), hint)
            = Envelope!Extended(cooldown, Envelope!Larger(delay, hint))
    BY <1>0, <2>2 DEF extend_cooldown, Envelope!Extended, Envelope!Larger, NONE
  <2>4. cooldown' \in Envelope!CooldownsAfter("ServerError", TRUE, cooldown)
    BY <2>2, <2>3 DEF ServerError, TransientFailure, extend_cooldown, Envelope!CooldownsAfter
  <2>5. QED
    BY <2>1, <2>4
<1>6. CASE ObserveInvalidResponse
  <2>1. window' \in Envelope!WindowsAfter("InvalidResponse", TRUE, window)
    BY <1>6 DEF ObserveInvalidResponse, InvalidResponse, Envelope!WindowsAfter
  <2>2. cooldown' \in Envelope!CooldownsAfter("InvalidResponse", TRUE, cooldown)
    BY <1>6 DEF ObserveInvalidResponse, InvalidResponse, extend_cooldown,
                Envelope!CooldownsAfter
  <2>3. QED
    BY <2>1, <2>2
<1>7. CASE Tick
  BY <1>0, <1>7 DEF Tick, CountDown, Envelope!Tick
<1>8. CASE \E d \in ClockSteps : ClockStep(d)
  BY <1>8 DEF ClockStep
<1>9. CASE save_cache
  BY <1>9 DEF save_cache, policy
<1>10. CASE Restart
  <2>1. cooldown' = 0
    BY <1>10 DEF Restart, RestartCold, restored_scope, Defaulted
  <2>2. window' \in 1..MAX_WINDOW
    BY DEF IInv, TypeOK
  <2>3. QED
    BY <2>1, <2>2 DEF Envelope!Restart
<1>11. CASE UNCHANGED vars
  BY <1>11 DEF vars, policy
<1>12. QED
  BY <1>1, <1>2, <1>3, <1>4, <1>5, <1>6, <1>7, <1>8, <1>9, <1>10, <1>11 DEF Next

\* The policy implements what the scheduler assumes of it.
THEOREM EnvelopeIsImplemented == Spec => ImplementsEnvelope
<1>1. Init => Envelope!Init
  BY DEF Init, Envelope!Init
<1>2. QED
  BY <1>1, EnvelopeStep, Invariance, PTL DEF Spec, ImplementsEnvelope, Envelope!Spec

=============================================================================
