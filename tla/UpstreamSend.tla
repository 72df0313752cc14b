---------------------------- MODULE UpstreamSend ----------------------------
(***************************************************************************)
(* One Responses request of a client on its way through the bridge: the    *)
(* attempts that send_with_policy makes at the provider, each under a      *)
(* lease of the coordinator, and around them the recovery that asks again  *)
(* when a stream failed before anything was shown to the client.  Both     *)
(* layers draw on one SendBudget of sends and pauses.                      *)
(*                                                                         *)
(* The provider, the coordinator and the client are the environment: the   *)
(* provider answers as it likes, the coordinator may be absent or lose     *)
(* touch, the client may leave wherever the bridge awaits something.       *)
(*                                                                         *)
(* Source: crates/nan-harness-bridge/src/upstream.rs, upstream/attempt.rs, *)
(* upstream/response.rs, responses/stream.rs, responses/stream/commit.rs,  *)
(* responses/stream/recovery.rs; crates/nan-harness-coordinator/src/       *)
(* client.rs for the lease.                                                *)
(***************************************************************************)
EXTENDS Naturals

CONSTANTS
    MAX_ATTEMPTS,                   \* sends of one send_with_policy
    MAX_UPSTREAM_SENDS,             \* sends of the logical request
    MAX_SEMANTIC_RECOVERY_ATTEMPTS, \* recoveries when a nudge can help
    MAX_RECOVERY_ATTEMPTS,          \* recoveries when none can
    RetryWait,                      \* SendBudget: pauses together
    NonRateLimitWait,               \* SendBudget: pauses without a rate limit
    RetryFallbackBase,              \* pause after a transport failure, per attempt
    RateLimitBase,                  \* pause after a rate limit, per attempt
    RecoveryFloor,                  \* pause before the first recovery
    RateLimitJitters, Jitters,      \* what chance adds to these two
    Hints                           \* Retry-After and the coordinator's delays

ASSUME UpstreamAssumption ==
    /\ MAX_ATTEMPTS \in Nat \ {0}
    /\ MAX_UPSTREAM_SENDS \in Nat \ {0}
    /\ MAX_SEMANTIC_RECOVERY_ATTEMPTS \in Nat \ {0}
    /\ MAX_RECOVERY_ATTEMPTS \in 1..MAX_SEMANTIC_RECOVERY_ATTEMPTS
    /\ RetryWait \in Nat /\ NonRateLimitWait \in Nat
    /\ RetryFallbackBase \in Nat /\ RateLimitBase \in Nat /\ RecoveryFloor \in Nat
    /\ RateLimitJitters \subseteq Nat /\ Jitters \subseteq Nat /\ Hints \subseteq Nat

VARIABLES
    pc,          \* where the request's task stands
    attempt,     \* attempt of send_with_policy, 1..MAX_ATTEMPTS
    recovery,    \* attempt of the recovery loop, from 0
    remaining,   \* SendBudget.remaining
    retry_left,  \* SendBudget.remaining_retry_wait
    other_left,  \* SendBudget.remaining_non_rate_limit_wait
    lease,       \* what the bridge holds of the coordinator
    directive,   \* what CoordinatedBody.finish returned, once finished
    result,      \* what the provider made of the attempt
    delay        \* pause decided on

budget == <<remaining, retry_left, other_left>>
loop == <<attempt, recovery>>

VARIABLES        \* history: what really happened, whatever the budget says
    sent, waited, others, owed, limited,
    reported,    \* outcome the coordinator was told of the attempt
    answer       \* how the client was answered

history == <<sent, waited, others>>
asked == <<owed, limited>>
vars == <<pc, loop, budget, lease, directive, result, delay,
          history, asked, reported, answer>>

-----------------------------------------------------------------------------
(* What the provider may do with an attempt.                               *)

Headers == {"ok", "rate_limited", "unavailable", "refused"}
SendErrors == {"send_timeout", "send_transport"}
StreamEnds == {"stream_timeout", "stream_transport", "invalid", "overloaded",
               "truncated", "empty", "complete", "malformed_patch", "malformed_tool"}
Results == {"none"} \cup Headers \cup SendErrors \cup StreamEnds

\* 408, 425, 429, 500 and 502 to 504, or an error that reached no status.
Retryable(r) == r \in {"rate_limited", "unavailable"} \cup SendErrors

Outcomes == {"Success", "RateLimited", "ServerError", "Timeout", "Transport",
             "InvalidResponse", "Terminal"}

\* status_outcome, retryable_error_outcome, stream_failure_outcome and the
\* outcomes the commit phase finishes the body with.
OutcomeOf(r) ==
    CASE r = "rate_limited" -> "RateLimited"
      [] r = "unavailable" -> "ServerError"
      [] r \in {"send_timeout", "stream_timeout"} -> "Timeout"
      [] r \in {"send_transport", "stream_transport"} -> "Transport"
      [] r \in {"invalid", "overloaded", "truncated"} -> "InvalidResponse"
      [] r = "complete" -> "Success"
      [] OTHER -> "Terminal"

\* Outcomes the coordinator answers with a delay.
Delayed(outcome) ==
    outcome \in {"Transport", "Timeout", "RateLimited", "ServerError", "InvalidResponse"}

\* A pre-commit failure that a fresh send may still replace.
Recoverable(r) ==
    r \in {"stream_timeout", "stream_transport", "invalid", "truncated",
           "empty", "malformed_patch", "malformed_tool"}
Nudged(r) == r \in {"empty", "malformed_patch", "malformed_tool"}

-----------------------------------------------------------------------------
(* The lease.  "open" is a stream to the coordinator and with it a permit, *)
(* "spent" a lease that was reported on, "deaf" one whose stream was lost  *)
(* (or no coordinator at all), "dropped" one given back without a report.  *)

Longer(a, b) == IF a >= b THEN a ELSE b

\* Mutant of observe: the stream is kept for another report.
observe_again(outcome) ==
    /\ lease = "open" => reported' = outcome
    /\ lease # "open" => UNCHANGED reported
    /\ UNCHANGED lease

\* RequestLease::observe: once, whatever becomes of the acknowledgement.
observe(outcome) ==
    IF lease = "open"
    THEN /\ lease' = "spent"
         /\ reported' = outcome
    ELSE UNCHANGED <<lease, reported>>

\* CoordinatedBody.finished: whether finish was called, and what it returned.
Directives == [finished : BOOLEAN, d : Nat]
NotFinished == [finished |-> FALSE, d |-> 0]

GivenBack == lease' = IF lease = "open" THEN "dropped" ELSE lease

\* RetryDirective: RetryAfter d, or Complete, also when no answer comes in time.
DirectiveOf(outcome) ==
    {[retry_after |-> FALSE, d |-> 0]} \cup
    IF lease = "open" /\ Delayed(outcome)
    THEN {[retry_after |-> TRUE, d |-> h] : h \in Hints}
    ELSE {}

-----------------------------------------------------------------------------
(* SendBudget.                                                             *)

is_exhausted == remaining = 0

\* Mutant of Affordable: the smaller allowance is not looked at.
AffordableInTotal(pause, is_limited) == pause <= retry_left

Affordable(pause, is_limited) ==
    /\ pause <= retry_left
    /\ ~is_limited => pause <= other_left

reserve_wait(pause, is_limited) ==
    /\ Affordable(pause, is_limited)
    /\ retry_left' = retry_left - pause
    /\ other_left' = IF is_limited THEN other_left ELSE other_left - pause

-----------------------------------------------------------------------------
Init ==
    /\ pc = "acquiring"
    /\ attempt = 1 /\ recovery = 0
    /\ remaining = MAX_UPSTREAM_SENDS
    /\ retry_left = RetryWait /\ other_left = NonRateLimitWait
    /\ lease = "none" /\ directive = NotFinished
    /\ result = "none" /\ delay = 0
    /\ sent = 0 /\ waited = 0 /\ others = 0
    /\ owed = 0 /\ limited = FALSE
    /\ reported = "nothing" /\ answer = "none"

-----------------------------------------------------------------------------
(* send_with_policy.                                                       *)

Answered(how) ==
    /\ pc' = "closed"
    /\ answer' = how

\* acquire_lease, then consume and the send itself.
acquire_lease ==
    /\ pc = "acquiring"
    /\ lease' \in {"open", "deaf"}
    /\ remaining > 0 /\ remaining' = remaining - 1
    /\ sent' = sent + 1
    /\ pc' = "sending"
    /\ result' = "none" /\ reported' = "nothing"
    /\ UNCHANGED <<loop, retry_left, other_left, directive, delay, waited, others, asked, answer>>

\* The wait for a permit ends in an error, or the session's tokens are used up.
NoPermit ==
    /\ pc = "acquiring"
    /\ \E how \in {"failed", "notice"} : Answered(how)
    /\ UNCHANGED <<loop, budget, lease, directive, result, delay, history, asked, reported>>

\* send_to returned; headers_received may lose the coordinator.
Respond ==
    /\ pc = "sending"
    /\ \E r \in Headers \cup SendErrors, hint \in {0} \cup Hints :
        /\ hint > 0 => r \in {"rate_limited", "unavailable"}
        /\ result' = r
        /\ owed' = hint
        /\ limited' = (r = "rate_limited")
    /\ lease' \in IF result' \in Headers /\ lease = "open" THEN {"open", "deaf"} ELSE {lease}
    /\ pc' = "answered"
    /\ UNCHANGED <<loop, budget, directive, delay, history, reported, answer>>

\* Mutant of final_attempt: the budget of the logical request is forgotten.
final_of_loop == attempt = MAX_ATTEMPTS

final_attempt == attempt = MAX_ATTEMPTS \/ is_exhausted

Backoffs == {(RateLimitBase + j) * attempt : j \in RateLimitJitters}

\* fallback_delay.  No hint and a hint of zero seconds look alike here.
Fallbacks ==
    IF owed > 0 THEN {owed}
    ELSE (IF result \in Headers THEN {0} ELSE {})
             \cup IF result = "rate_limited" THEN Backoffs ELSE {RetryFallbackBase * attempt}

\* Mutant of delay_for_retry: the last attempt is not worth a report.
report_unless_final ==
    /\ pc = "answered" /\ Retryable(result)
    /\ delay' \in Fallbacks
    /\ IF final_attempt THEN UNCHANGED <<lease, reported>> ELSE observe(OutcomeOf(result))
    /\ pc' = "reported"
    /\ UNCHANGED <<loop, budget, directive, result, history, asked, answer>>

\* finish_attempt reports first, whether or not a retry will follow.
delay_for_retry ==
    /\ pc = "answered" /\ Retryable(result)
    /\ \E dir \in DirectiveOf(OutcomeOf(result)) :
        IF dir.retry_after
        THEN /\ delay' = Longer(dir.d, owed)
             /\ owed' = delay'
        ELSE /\ delay' \in Fallbacks
             /\ UNCHANGED owed
    /\ observe(OutcomeOf(result))
    /\ pc' = "reported"
    /\ UNCHANGED <<loop, budget, directive, result, history, limited, answer>>

RetrySend ==
    /\ pc = "reported"
    /\ ~final_attempt
    /\ reserve_wait(delay, result = "rate_limited")
    /\ pc' = "sleeping"
    /\ UNCHANGED <<loop, remaining, lease, directive, result, delay, history, asked, reported, answer>>

\* The status, unless it says not to retry, or the error becomes the answer.
GiveUpSend ==
    /\ pc = "reported"
    /\ final_attempt \/ result \in Headers \/ ~Affordable(delay, result = "rate_limited")
    /\ observe(IF result \in Headers THEN "Terminal" ELSE OutcomeOf(result))
    /\ Answered("failed")
    /\ UNCHANGED <<loop, budget, directive, result, delay, history, asked>>

Slept(is_limited) ==
    /\ waited' = waited + delay
    /\ others' = IF is_limited THEN others ELSE others + delay
    /\ owed' = 0
    /\ delay' = 0
    /\ pc' = "acquiring"

NextAttempt ==
    /\ pc = "sleeping"
    /\ Slept(result = "rate_limited")
    /\ attempt' = attempt + 1
    /\ UNCHANGED <<recovery, budget, lease, directive, result, sent, limited, reported, answer>>

\* Any other status: reported as Terminal, its body read, then the answer.
RefusedByProvider ==
    /\ pc = "answered" /\ result = "refused"
    /\ observe("Terminal")
    /\ Answered("failed")
    /\ UNCHANGED <<loop, budget, directive, result, delay, history, asked>>

accept_response ==
    /\ pc = "answered" /\ result = "ok"
    /\ directive' = NotFinished
    /\ pc' = "streaming"
    /\ UNCHANGED <<loop, budget, lease, result, delay, history, asked, reported, answer>>

-----------------------------------------------------------------------------
(* The stream, and what settle makes of it.                                *)

\* Mutant of finish: the second call forgets what the first was told.
finish_twice(outcome) ==
    /\ observe(outcome)
    /\ \E dir \in DirectiveOf(outcome) : directive' = [finished |-> TRUE, d |-> dir.d]

\* CoordinatedBody::finish: the first call reports, later ones repeat its result.
finish(outcome) ==
    IF directive.finished
    THEN UNCHANGED <<lease, reported, directive>>
    ELSE /\ observe(outcome)
         /\ \E dir \in DirectiveOf(outcome) : directive' = [finished |-> TRUE, d |-> dir.d]

\* Nothing of the stream is passed on before it has ended (defer_commit).
StreamStops ==
    /\ pc = "streaming"
    /\ result' \in StreamEnds
    /\ IF result' \in {"stream_timeout", "stream_transport"}
       THEN /\ finish(OutcomeOf(result'))
            /\ owed' = directive'.d
            /\ limited' = FALSE
       ELSE UNCHANGED <<lease, reported, directive, asked>>
    /\ pc' = "ended"
    /\ UNCHANGED <<loop, budget, delay, history, answer>>

is_final_attempt == recovery + 1 = MAX_SEMANTIC_RECOVERY_ATTEMPTS \/ is_exhausted

Delegated == result = "malformed_patch" /\ is_final_attempt

SettleForGood ==
    /\ pc = "ended"
    /\ \/ result = "complete" /\ Answered("completed")
       \/ Delegated /\ Answered("delegated")
       \/ result = "overloaded" /\ Answered("failed")
    /\ finish(OutcomeOf(result))
    /\ UNCHANGED <<loop, budget, result, delay, history, asked>>

SettleRecoverable ==
    /\ pc = "ended"
    /\ Recoverable(result) /\ ~Delegated
    /\ finish(OutcomeOf(result))
    /\ owed' = Longer(owed, directive'.d) /\ limited' = FALSE
    /\ pc' = "failing"
    /\ UNCHANGED <<loop, budget, result, delay, history, answer>>

recovery_attempt_limit(r) ==
    IF Nudged(r) THEN MAX_SEMANTIC_RECOVERY_ATTEMPTS ELSE MAX_RECOVERY_ATTEMPTS

recovery_retry_delay ==
    LET floor == IF recovery = 0 THEN RecoveryFloor ELSE 2 * RecoveryFloor
    IN  {Longer(floor + j, directive.d) : j \in Jitters}

\* handle_recoverable decides to ask again.
Recover ==
    /\ pc = "failing"
    /\ recovery + 1 < recovery_attempt_limit(result)
    /\ ~is_exhausted
    /\ \E pause \in recovery_retry_delay : reserve_wait(pause, FALSE) /\ delay' = pause
    /\ pc' = "recovering"
    /\ UNCHANGED <<loop, remaining, lease, directive, result, history, asked, reported, answer>>

RecoveryExhausted ==
    /\ pc = "failing"
    /\ \/ recovery + 1 >= recovery_attempt_limit(result)
       \/ is_exhausted
       \/ \E pause \in recovery_retry_delay : ~Affordable(pause, FALSE)
    /\ Answered("failed")
    /\ UNCHANGED <<loop, budget, lease, directive, result, delay, history, asked, reported>>

NextRecovery ==
    /\ pc = "recovering"
    /\ Slept(FALSE)
    /\ recovery' = recovery + 1
    /\ attempt' = 1
    /\ UNCHANGED <<budget, lease, directive, result, sent, limited, reported, answer>>

\* The client goes away: whatever is awaited is dropped, the lease with it.
ClientLeaves ==
    /\ pc # "closed"
    /\ Answered("gone")
    /\ GivenBack
    /\ UNCHANGED <<loop, budget, directive, result, delay, history, asked, reported>>

Done == pc = "closed" /\ UNCHANGED vars

Next ==
    \/ acquire_lease \/ NoPermit \/ Respond
    \/ delay_for_retry \/ RetrySend \/ GiveUpSend \/ NextAttempt
    \/ RefusedByProvider \/ accept_response
    \/ StreamStops \/ SettleForGood \/ SettleRecoverable
    \/ Recover \/ RecoveryExhausted \/ NextRecovery
    \/ ClientLeaves
    \/ Done

Spec == Init /\ [][Next]_vars

-----------------------------------------------------------------------------
(* Properties.                                                             *)

Places == {"acquiring", "sending", "answered", "reported", "sleeping", "streaming",
           "ended", "failing", "recovering", "closed"}

\* Types, and the pauses written down never more than there were.
TypeOK ==
    /\ pc \in Places
    /\ attempt \in 1..MAX_ATTEMPTS
    /\ recovery \in 0..(MAX_SEMANTIC_RECOVERY_ATTEMPTS - 1)
    /\ remaining \in 0..MAX_UPSTREAM_SENDS
    /\ retry_left \in 0..RetryWait /\ other_left \in 0..NonRateLimitWait
    /\ lease \in {"none", "open", "spent", "deaf", "dropped"}
    /\ directive \in Directives
    /\ result \in Results
    /\ delay \in Nat
    /\ sent \in Nat /\ waited \in Nat /\ others \in Nat
    /\ owed \in Nat /\ limited \in BOOLEAN
    /\ reported \in Outcomes \cup {"nothing"}
    /\ answer \in {"none", "completed", "delegated", "failed", "notice", "gone"}

\* A lease is never acquired for a send the budget then refuses, though two
\* loops with limits of their own spend the same sends.
SendNeverRefused == pc = "acquiring" => remaining > 0

\* A request that pauses, waits for its next permit or has been answered holds
\* no permit that another launch could use.
NoPermitWhilePausing ==
    pc \in {"reported", "sleeping", "failing", "recovering", "acquiring", "closed"}
        => lease # "open"

\* An attempt that is over was reported for what it was, whether or not the
\* bridge tries again, unless nobody listens: other launches need the cooldown.
OverIsReported ==
    result # "none" /\ (\/ pc \in {"reported", "sleeping", "failing", "recovering", "acquiring"}
                        \/ answer \in {"completed", "delegated", "failed"})
        => lease = "deaf" \/ reported = OutcomeOf(result)

\* Both layers of retries together keep within the sends and pauses of one
\* logical request, never send before the pause asked for is over, and answer once.
Logical == INSTANCE LogicalRequest
    WITH MaxSends <- MAX_UPSTREAM_SENDS,
         MaxWait <- RetryWait,
         MaxOtherWait <- NonRateLimitWait,
         state <- IF answer = "none" THEN "open" ELSE "answered"

ImplementsLogicalRequest == Logical!Spec

=============================================================================
