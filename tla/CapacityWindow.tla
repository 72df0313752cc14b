--------------------------- MODULE CapacityWindow ---------------------------
(***************************************************************************)
(* The adaptive concurrency window of one coordination scope: how observed *)
(* provider attempts shrink it, hold its growth back, estimate a ceiling   *)
(* for it and let it grow again, and what of that a daemon restart keeps.  *)
(*                                                                         *)
(* Time is relative: a deadline is the number of ticks left until it, so   *)
(* an expired one is 0.  The growth hold and the age of the last update    *)
(* follow the wall clock, which may step; the cooldown and the growth      *)
(* interval follow the monotonic clock, which does not.                    *)
(*                                                                         *)
(* Source: crates/nan-harness-coordinator/src/scheduler/state.rs and       *)
(* scheduler/cache.rs.                                                     *)
(***************************************************************************)
EXTENDS Integers

CONSTANTS
    INITIAL_WINDOW, SOFT_FAILURE_WINDOW_FLOOR, MAX_WINDOW, NEVER,
    Hints, LocalDelays,
    MIN_GROWTH_INTERVAL,  \* ticks between two growth steps
    BASE_GROWTH_HOLD,     \* ticks growth is held after the first penalty
    MAX_GROWTH_HOLD,      \* and at most
    CACHE_TTL,            \* ticks after which a cached window says nothing
    ClockSteps,           \* ticks the wall clock may jump by at once
    MaxUnsaved,           \* bound: attempts observed since the cache was written
    MaxHold               \* bound: ticks a clock set back may stretch a time to

NONE == -1     \* Option::None of a deadline or a ceiling
MaxPenalty == 4
BREAKER_FAILURES == 3

VARIABLES
    window,                 \* permits that may be out at once
    successful_round,       \* healthy saturated successes in a row
    healthy_since_penalty,  \* healthy successes since the last penalty
    penalty_level,          \* penalties since capacity was last restored
    hold,                   \* ticks growth is still held, or NONE
    ceiling,                \* estimate of the provider's limit, or NONE
    transient_failures,     \* transient failures in a row, to BREAKER_FAILURES
    cooldown,               \* ticks until the scope may grant again
    since_growth,           \* ticks since the window grew, to MIN_GROWTH_INTERVAL
    age,                    \* wall-clock ticks since the last update, to CACHE_TTL
    cache,                  \* the scope in capacity.json, or NoCache
    unsaved,                \* attempts observed since it was written; dirty
    limited_at              \* history: smallest window a rate limit was seen
                            \* at since capacity was last restored, or NONE

policy == <<window, successful_round, healthy_since_penalty, penalty_level,
            hold, ceiling, transient_failures, cooldown, since_growth, age>>
vars == <<policy, cache, unsaved, limited_at>>

Envelope == INSTANCE CapacityEnvelope WITH window <- window, cooldown <- cooldown

\* The initial window is 2.  A larger one would let a scope whose hold lapsed
\* climb back from one permit with fewer than a cold scope has.
ASSUME WindowAssumption ==
    /\ Envelope!CapacityParameters
    /\ INITIAL_WINDOW \in 1..2
    /\ MIN_GROWTH_INTERVAL \in Nat
    /\ BASE_GROWTH_HOLD \in Nat \ {0}
    /\ MAX_GROWTH_HOLD \in Nat \ {0}
    /\ CACHE_TTL \in Nat \ {0}
    /\ ClockSteps \subseteq Int
    /\ MaxUnsaved \in Nat
    /\ MaxHold \in Nat
    /\ MAX_GROWTH_HOLD <= MaxHold

Larger(a, b) == IF a >= b THEN a ELSE b
Smaller(a, b) == IF a <= b THEN a ELSE b
Clamp(low, x, high) == Larger(low, Smaller(x, high))

\* No scope of this name in the file: it is missing, torn or of another schema.
NoCache == [window |-> 0]
IsCached == cache # NoCache

-----------------------------------------------------------------------------
(* Growth holds.                                                           *)

growth_successes(w) == Larger(2 * w, 4)

\* Mutant of HoldFor: the cap is forgotten.
HoldForUncapped(level) == BASE_GROWTH_HOLD * <<1, 2, 4, 8>>[level]

\* BASE_GROWTH_HOLD doubled with each level beyond the first, up to the cap.
HoldFor(level) ==
    Smaller(BASE_GROWTH_HOLD * <<1, 2, 4, 8>>[level], MAX_GROWTH_HOLD)

\* Mutant of HoldExpired: only an absent deadline counts as over.
HoldNeverExpires == hold = NONE

HoldExpired == hold <= 0

\* Mutant of CeilingReached: one permit too many is let through.
CeilingExceeded == ceiling # NONE /\ window > ceiling

CeilingReached == ceiling # NONE /\ window >= ceiling

\* Mutant of apply_growth_penalty: the level rises and no deadline is set.
penalty_without_deadline ==
    /\ healthy_since_penalty' = 0
    /\ penalty_level' = Smaller(penalty_level + 1, MaxPenalty)
    /\ UNCHANGED hold

\* apply_growth_penalty: the deadline is moved out, never back.
apply_growth_penalty ==
    /\ healthy_since_penalty' = 0
    /\ penalty_level' = Smaller(penalty_level + 1, MaxPenalty)
    /\ hold' = Larger(hold, HoldFor(Smaller(penalty_level + 1, MaxPenalty)))

NoPenalty == UNCHANGED <<healthy_since_penalty, penalty_level, hold>>

\* Mutant of extend_cooldown: the last delay wins, not the longest.
replace_cooldown(delay) == delay

\* The cooldown after one more delay: the later of the two deadlines.
extend_cooldown(delay) == Envelope!Extended(cooldown, delay)

-----------------------------------------------------------------------------
(* observe, by outcome.                                                    *)

\* Counters of consecutive successes saturate where no comparison can tell
\* more of them apart.
Counted(n) == Smaller(n + 1, growth_successes(MAX_WINDOW))

\* observe_success: one attempt, its headers in time or not, granted while the
\* window was saturated or not.
Success(foreground, eligible, headers_in_time) ==
    LET healthy == foreground /\ headers_in_time
        since_penalty == IF healthy /\ penalty_level > 0
                         THEN Counted(healthy_since_penalty)
                         ELSE healthy_since_penalty
        round == IF eligible /\ healthy /\ (HoldExpired \/ ~CeilingReached)
                 THEN Counted(successful_round)
                 ELSE 0
        required == growth_successes(window)
        recovered == penalty_level = 0 \/ since_penalty >= required
        grows == /\ since_growth = MIN_GROWTH_INTERVAL
                 /\ HoldExpired \/ recovered
                 /\ HoldExpired \/ ~CeilingReached
                 /\ round >= required
                 /\ window < MAX_WINDOW
        clears == grows /\ (HoldExpired \/ ceiling = NONE)
    IN  /\ window' = IF grows THEN window + 1 ELSE window
        /\ successful_round' = IF grows THEN 0 ELSE round
        /\ healthy_since_penalty' = IF grows THEN 0 ELSE since_penalty
        /\ penalty_level' = IF clears THEN 0 ELSE penalty_level
        /\ hold' = IF clears THEN NONE ELSE hold
        /\ ceiling' = IF clears THEN NONE ELSE ceiling
        /\ since_growth' = IF grows THEN 0 ELSE since_growth
        /\ transient_failures' = 0
        /\ age' = 0
        /\ limited_at' = IF clears THEN NONE ELSE limited_at
        /\ UNCHANGED <<cooldown, cache>>

\* The provider's limit is taken to lie one below the window it refused, but
\* not below the initial one.
estimated_ceiling(w) == Larger(w - 1, Smaller(INITIAL_WINDOW, w))

\* observe_rate_limit of a foreground inference attempt.
RateLimited(delay) ==
    /\ ceiling' = IF ceiling = NONE THEN estimated_ceiling(window)
                  ELSE Smaller(ceiling, estimated_ceiling(window))
    /\ window' = Envelope!AfterRateLimit(window)
    /\ successful_round' = 0
    /\ apply_growth_penalty
    /\ cooldown' = extend_cooldown(delay)
    /\ age' = 0
    /\ limited_at' = IF limited_at = NONE THEN window ELSE Smaller(limited_at, window)
    /\ UNCHANGED <<transient_failures, since_growth, cache>>

\* observe_transient_failure of a foreground inference attempt.  Its breaker
\* extends the cooldown from the third failure in a row on; a server error
\* extends it by the provider's hint as well.
TransientFailure(next, block_growth, delay, hint) ==
    LET failures == Smaller(transient_failures + 1, BREAKER_FAILURES)
        breaker == IF failures = BREAKER_FAILURES
                   THEN extend_cooldown(delay) ELSE cooldown
    IN  /\ transient_failures' = failures
        /\ successful_round' = 0
        /\ window' = next
        /\ IF block_growth THEN apply_growth_penalty ELSE NoPenalty
        /\ cooldown' = IF hint = NONE THEN breaker ELSE Envelope!Extended(breaker, hint)
        /\ age' = 0
        /\ UNCHANGED <<ceiling, since_growth, cache, limited_at>>

Transport(delay) ==
    TransientFailure(Envelope!Decremented(window), FALSE, delay, NONE)
Timeout(delay) ==
    TransientFailure(Envelope!Halved(window), TRUE, delay, NONE)
ServerError(delay, hint) ==
    TransientFailure(Envelope!Halved(window), TRUE, delay, hint)

\* observe_invalid_response of a foreground inference attempt: growth is held
\* only when the window really shrank.
InvalidResponse(delay) ==
    /\ window' = Envelope!Decremented(window)
    /\ IF window' < window THEN apply_growth_penalty ELSE NoPenalty
    /\ successful_round' = 0
    /\ cooldown' = extend_cooldown(delay)
    /\ age' = 0
    /\ UNCHANGED <<ceiling, transient_failures, since_growth, cache, limited_at>>

-----------------------------------------------------------------------------
(* Time.                                                                   *)

CountDown(t) == IF t > 0 THEN t - 1 ELSE t

\* Where a wall-clock deadline may be after the clock moved by d ticks.  How
\* long ago an expired one passed is not kept, so a clock set back may revive
\* it for up to as long as it was set back.
Moved(t, d) ==
    CASE t = NONE -> {NONE}
      [] t = 0 /\ d < 0 -> 0..Smaller(0 - d, MaxHold)
      [] OTHER -> {Clamp(0, t - d, MaxHold)}

Tick ==
    /\ hold' = CountDown(hold)
    /\ cooldown' = IF cooldown = NEVER THEN NEVER ELSE CountDown(cooldown)
    /\ since_growth' = Smaller(since_growth + 1, MIN_GROWTH_INTERVAL)
    /\ age' = Smaller(age + 1, CACHE_TTL)
    /\ cache' = IF IsCached
                THEN [cache EXCEPT !.hold = CountDown(@),
                                   !.age = Smaller(@ + 1, CACHE_TTL)]
                ELSE cache
    /\ UNCHANGED <<window, successful_round, healthy_since_penalty, penalty_level,
                   ceiling, transient_failures, unsaved, limited_at>>

\* The wall clock is set forward (d > 0) or back: only what is kept in Unix
\* seconds moves.  An update may come to lie in the future.
ClockStep(d) ==
    /\ hold' \in Moved(hold, d)
    /\ age' = Clamp(0 - MaxHold, age + d, CACHE_TTL)
    /\ IF IsCached
       THEN \E h \in Moved(cache.hold, d) :
               cache' = [cache EXCEPT !.hold = h,
                                      !.age = Clamp(0 - MaxHold, @ + d, CACHE_TTL)]
       ELSE UNCHANGED cache
    /\ UNCHANGED <<window, successful_round, healthy_since_penalty, penalty_level,
                   ceiling, transient_failures, cooldown, since_growth, unsaved,
                   limited_at>>

-----------------------------------------------------------------------------
(* The cache file and a daemon restart.                                    *)

\* Written while there is something to write (dirty).
save_cache ==
    /\ unsaved > 0
    /\ unsaved' = 0
    /\ cache' = [window |-> window, age |-> age,
                 healthy_since_penalty |-> healthy_since_penalty,
                 penalty_level |-> penalty_level, hold |-> hold,
                 ceiling |-> ceiling, limited_at |-> limited_at]
    /\ UNCHANGED <<policy, limited_at>>

\* The window restored_scope gives a scope whose hold is over: what was
\* learned above the initial window fades over CACHE_TTL.  An update that lies
\* in the future is taken to be of now.
Faded(w, a) ==
    LET learned == Clamp(INITIAL_WINDOW, w, MAX_WINDOW)
        remaining == CACHE_TTL - Larger(a, 0)
    IN  INITIAL_WINDOW + ((learned - INITIAL_WINDOW) * remaining) \div CACHE_TTL

\* What a restart leaves at its default.
Defaulted ==
    /\ successful_round' = 0
    /\ transient_failures' = 0
    /\ cooldown' = 0
    /\ since_growth' = MIN_GROWTH_INTERVAL
    /\ unsaved' = 0

\* The scope is not in the cache, or save_cache was cut off between its
\* truncation and its write and load_cache gave the file up.
RestartCold ==
    /\ window' = INITIAL_WINDOW
    /\ Defaulted
    /\ healthy_since_penalty' = 0
    /\ penalty_level' = 0
    /\ hold' = NONE
    /\ ceiling' = NONE
    /\ age' = 0
    /\ cache' = NoCache
    /\ limited_at' = NONE

restored_scope ==
    LET hold_active == cache.hold > 0
        Kept(held, otherwise) == IF hold_active THEN held ELSE otherwise
    IN  /\ IsCached
        /\ window' = Kept(Clamp(1, cache.window, MAX_WINDOW),
                          Faded(cache.window, cache.age))
        /\ Defaulted
        /\ healthy_since_penalty' = Kept(cache.healthy_since_penalty, 0)
        /\ penalty_level' = Kept(cache.penalty_level, 0)
        /\ hold' = Kept(cache.hold, NONE)
        /\ ceiling' = Kept(cache.ceiling, NONE)
        /\ age' = cache.age
        /\ limited_at' = Kept(cache.limited_at, NONE)
        /\ UNCHANGED cache

-----------------------------------------------------------------------------
Init ==
    /\ window = INITIAL_WINDOW
    /\ successful_round = 0
    /\ healthy_since_penalty = 0
    /\ penalty_level = 0
    /\ hold = NONE
    /\ ceiling = NONE
    /\ transient_failures = 0
    /\ cooldown = 0
    /\ since_growth = MIN_GROWTH_INTERVAL
    /\ age = 0
    /\ cache = NoCache
    /\ unsaved = 0
    /\ limited_at = NONE

\* handle_command marks the cache dirty with every observed attempt.
Dirtied == unsaved < MaxUnsaved /\ unsaved' = unsaved + 1

\* growth_eligible is only ever granted to foreground inference.
ObserveSuccess ==
    /\ Dirtied
    /\ \E foreground, eligible, headers_in_time \in BOOLEAN :
           /\ eligible => foreground
           /\ Success(foreground, eligible, headers_in_time)

ObserveHealthy == Dirtied /\ Success(TRUE, TRUE, TRUE)

ObserveRateLimited ==
    /\ Dirtied
    /\ \E delay \in Hints \cup LocalDelays : RateLimited(delay)

ObserveTransport == Dirtied /\ \E delay \in LocalDelays : Transport(delay)

ObserveTimeout == Dirtied /\ \E delay \in LocalDelays : Timeout(delay)

ObserveServerError ==
    /\ Dirtied
    /\ \E delay \in LocalDelays, hint \in Hints \cup {NONE} : ServerError(delay, hint)

ObserveInvalidResponse ==
    Dirtied /\ \E delay \in LocalDelays : InvalidResponse(delay)

Restart == RestartCold \/ restored_scope

Next ==
    \/ ObserveSuccess
    \/ ObserveRateLimited
    \/ ObserveTransport
    \/ ObserveTimeout
    \/ ObserveServerError
    \/ ObserveInvalidResponse
    \/ Tick
    \/ \E d \in ClockSteps : ClockStep(d)
    \/ save_cache
    \/ Restart

Spec == Init /\ [][Next]_vars

\* Time passes, and run writes a dirty cache at the next tick of its timer.
FairSpec == Spec /\ WF_vars(Tick) /\ WF_vars(save_cache)

-----------------------------------------------------------------------------
Times == -1..MaxHold   \* NONE among them

TypeOK ==
    /\ window \in 1..MAX_WINDOW
    /\ successful_round \in 0..growth_successes(MAX_WINDOW)
    /\ healthy_since_penalty \in 0..growth_successes(MAX_WINDOW)
    /\ penalty_level \in 0..MaxPenalty
    /\ hold \in Times
    /\ ceiling \in {NONE} \cup 1..MAX_WINDOW
    /\ transient_failures \in 0..BREAKER_FAILURES
    /\ cooldown \in 0..NEVER
    /\ since_growth \in 0..MIN_GROWTH_INTERVAL
    /\ age \in (0 - MaxHold)..CACHE_TTL
    /\ limited_at \in {NONE} \cup 1..MAX_WINDOW
    /\ unsaved \in 0..MaxUnsaved
    /\ IsCached =>
          cache \in [window : 1..MAX_WINDOW, age : (0 - MaxHold)..CACHE_TTL,
                    healthy_since_penalty : 0..growth_successes(MAX_WINDOW),
                    penalty_level : 0..MaxPenalty, hold : Times,
                    ceiling : {NONE} \cup 1..MAX_WINDOW,
                    limited_at : {NONE} \cup 1..MAX_WINDOW]

\* Whatever the sequence of failures, recoveries, clock steps and restarts,
\* the window never exceeds the estimate of the provider's limit in force
\* (rate_limit_ceiling in observe_rate_limit, observe_success, restored_scope).
CeilingRespected == ceiling # NONE => window <= ceiling

\* A penalty level, its growth hold and a ceiling come and go together: no
\* level survives without the deadline that ends it, and no ceiling without a
\* hold whose end lifts it (apply_growth_penalty, the reset in observe_success
\* and restored_scope).
PenaltyHasAnEnd ==
    /\ penalty_level > 0 <=> hold # NONE
    /\ ceiling # NONE => hold # NONE

\* Fewer permits than a cold scope has are only ever left by a rate limit
\* whose ceiling is still there to be lifted: soft failures, restarts and
\* fading never leave a scope with less.
BelowInitialOnlyWhenLimited == window < INITIAL_WINDOW => ceiling # NONE

\* While growth is held, the window never returns to a size at which the
\* provider answered with a rate limit since capacity was last restored, the
\* initial window apart (test
\* rate_limit_ceiling_prevents_repeated_probes_during_the_hold).
NoRepeatedProbe ==
    limited_at # NONE /\ ~HoldExpired =>
        window < limited_at \/ window <= INITIAL_WINDOW

\* The policy moves the window and the cooldown only as the scheduler may
\* rely on.
ImplementsEnvelope == Envelope!Spec

\* If the provider stays healthy and traffic saturates the window, the window
\* reaches its maximum again: no mix of holds, ceilings and penalties left
\* behind by earlier failures can pin it down.
CapacityRecovers ==
    /\ WF_vars(ObserveHealthy)
    /\ <>[][ObserveHealthy \/ Tick \/ save_cache]_vars
    => <>[](window = MAX_WINDOW)

=============================================================================
