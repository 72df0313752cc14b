------------------------- MODULE UpstreamSendProofs -------------------------
(***************************************************************************)
(* What holds of one logical request for every limit, pause and hint: the  *)
(* budget books of the two retry loops agree with what really happened,    *)
(* and the request keeps to LogicalRequest.                                *)
(***************************************************************************)
EXTENDS UpstreamSend, TLAPS

-----------------------------------------------------------------------------
(* The books.  A pause is written down when it is decided on and happens   *)
(* later: in between it is Pending.  A client that leaves during a pause    *)
(* leaves it unmade.                                                        *)

Pending == IF pc \in {"sleeping", "recovering"} THEN delay ELSE 0
PendingOther ==
    IF pc = "recovering" \/ (pc = "sleeping" /\ result # "rate_limited") THEN delay ELSE 0

BooksBalance ==
    /\ sent + remaining = MAX_UPSTREAM_SENDS
    /\ waited + Pending + retry_left <= RetryWait
    /\ others + PendingOther + other_left <= NonRateLimitWait

\* A pause that was asked for and not made yet is remembered by whoever will
\* decide on the next send: the attempt's delay or the body's directive.
PauseRemembered ==
    /\ pc \in {"acquiring", "sending", "streaming"} => owed = 0
    /\ pc = "answered" /\ result \in {"ok", "refused"} => owed = 0
    /\ pc \in {"reported", "sleeping", "recovering"} => owed <= delay
    /\ pc = "streaming" => ~directive.finished
    /\ pc = "ended" /\ ~directive.finished => owed = 0
    /\ pc = "ended" /\ directive.finished => owed = directive.d
    /\ pc = "failing" => owed <= directive.d
    /\ pc \in {"answered", "reported", "sleeping"} => (limited <=> result = "rate_limited")
    /\ pc \in {"failing", "recovering"} => ~limited

\* What the last answer of the provider was, by where the request stands.
ResultInPlace ==
    /\ pc \in {"reported", "sleeping"} => Retryable(result)
    /\ pc = "answered" => result \in Headers \cup SendErrors
    /\ pc = "streaming" => result = "ok"
    /\ pc \in {"ended", "failing", "recovering"} => result \in StreamEnds
    /\ pc = "acquiring" => result \notin {"ok", "refused"}
    /\ pc = "sending" => result = "none"

\* A pause has another round of its loop after it.
RoundsLeft ==
    /\ pc = "sleeping" => attempt < MAX_ATTEMPTS
    /\ pc = "recovering" => recovery + 1 < MAX_SEMANTIC_RECOVERY_ATTEMPTS

RoomForNext == pc \in {"sleeping", "recovering"} => remaining > 0

OpenUntilAnswered == answer = "none" <=> pc # "closed"

\* Before the report nothing was reported, or nobody listens.
ReportOnce ==
    /\ pc \in {"sending", "answered", "streaming"} => lease \in {"open", "deaf"}
    /\ pc = "ended" /\ ~directive.finished => lease \in {"open", "deaf"}
    /\ pc = "ended" /\ directive.finished => lease # "open" /\ (lease = "deaf" \/ reported = OutcomeOf(result))

IInv ==
    /\ TypeOK
    /\ SendNeverRefused
    /\ RoundsLeft
    /\ NoPermitWhilePausing
    /\ OverIsReported
    /\ BooksBalance
    /\ PauseRemembered
    /\ ResultInPlace
    /\ RoomForNext
    /\ OpenUntilAnswered
    /\ ReportOnce

USE DEF IInv, TypeOK, Places, SendNeverRefused, RoundsLeft, NoPermitWhilePausing,
        OverIsReported, BooksBalance, Pending, PendingOther, PauseRemembered, ResultInPlace,
        RoomForNext, OpenUntilAnswered, ReportOnce,
        vars, loop, budget, history, asked, Results, Headers, SendErrors, StreamEnds

LEMMA OutcomesAreTyped == \A r : OutcomeOf(r) \in Outcomes
BY DEF OutcomeOf, Outcomes

LEMMA DirectiveTypes ==
    /\ NotFinished \in Directives /\ ~NotFinished.finished
    /\ \A x \in Directives : x.finished \in BOOLEAN /\ x.d \in Nat
    /\ \A d \in Nat : LET x == [finished |-> TRUE, d |-> d]
                     IN  x \in Directives /\ x.finished /\ x.d = d
BY DEF NotFinished, Directives

LEMMA Initially == Init => IInv
<1> SUFFICES ASSUME Init PROVE IInv
  OBVIOUS
<1> USE UpstreamAssumption DEF Init
<1>1. TypeOK
  <2>1. attempt \in 1..MAX_ATTEMPTS
    OBVIOUS
  <2>2. recovery \in 0..(MAX_SEMANTIC_RECOVERY_ATTEMPTS - 1)
    OBVIOUS
  <2>3. directive \in Directives
    BY DirectiveTypes
  <2>4. remaining \in 0..MAX_UPSTREAM_SENDS /\ retry_left \in 0..RetryWait /\ other_left \in 0..NonRateLimitWait
    OBVIOUS
  <2> QED
    BY <2>1, <2>2, <2>3, <2>4
<1>2. SendNeverRefused /\ RoundsLeft /\ NoPermitWhilePausing /\ OverIsReported
  OBVIOUS
<1>3. BooksBalance
  OBVIOUS
<1>4. PauseRemembered
  OBVIOUS
<1>5. ResultInPlace /\ RoomForNext /\ OpenUntilAnswered /\ ReportOnce
  OBVIOUS
<1> QED
  BY <1>1, <1>2, <1>3, <1>4, <1>5

LEMMA Acquired == IInv /\ acquire_lease => IInv'
BY UpstreamAssumption DEF acquire_lease

LEMMA AcquireFailed == IInv /\ NoPermit => IInv'
BY UpstreamAssumption DEF NoPermit, Answered

LEMMA Responded == IInv /\ Respond => IInv'
<1> SUFFICES ASSUME IInv, Respond PROVE IInv'
  OBVIOUS
<1>1. PICK r \in Headers \cup SendErrors, hint \in {0} \cup Hints :
        /\ hint > 0 => r \in {"rate_limited", "unavailable"}
        /\ result' = r /\ owed' = hint /\ limited' = (r = "rate_limited")
  BY DEF Respond
<1>2. hint \in Nat
  BY UpstreamAssumption
<1>3. /\ pc = "sending" /\ pc' = "answered"
      /\ lease' \in {lease, "deaf"}
      /\ UNCHANGED <<loop, budget, directive, delay, history, reported, answer>>
  BY DEF Respond
<1>4. TypeOK'
  BY <1>1, <1>2, <1>3
<1>5. (SendNeverRefused /\ RoundsLeft /\ NoPermitWhilePausing /\ OverIsReported)'
  BY <1>3
<1>6. BooksBalance'
  BY <1>3
<1>7. PauseRemembered'
  <2>1. limited' <=> result' = "rate_limited"
    BY <1>1
  <2> QED
    BY <1>1, <1>2, <1>3, <2>1
<1>8. (ResultInPlace /\ RoomForNext /\ OpenUntilAnswered /\ ReportOnce)'
  BY <1>1, <1>3
<1> QED
  BY <1>4, <1>5, <1>6, <1>7, <1>8

\* What fallback_delay may return: a time no shorter than the pause asked for.
LEMMA FallbackHonoursHint ==
    ASSUME IInv, pc = "answered", NEW pause \in Fallbacks
    PROVE  pause \in Nat /\ owed <= pause
<1>1. \A j \in RateLimitJitters : (RateLimitBase + j) * attempt \in Nat
  BY UpstreamAssumption
<1>2. RetryFallbackBase * attempt \in Nat
  BY UpstreamAssumption
<1>3. CASE owed > 0
  BY <1>3 DEF Fallbacks
<1>4. CASE owed = 0
  BY <1>1, <1>2, <1>4 DEF Fallbacks, Backoffs
<1> QED
  BY <1>3, <1>4

LEMMA Observes ==
    ASSUME NEW outcome, observe(outcome)
    PROVE  /\ lease' # "open"
           /\ lease \in {"open", "deaf"} => lease' = "deaf" \/ reported' = outcome
           /\ lease # "open" => UNCHANGED <<lease, reported>>
           /\ lease' \in {lease, "spent"} /\ reported' \in {reported, outcome}
BY DEF observe

LEMMA DelayDecided == IInv /\ delay_for_retry => IInv'
<1> SUFFICES ASSUME IInv, delay_for_retry PROVE IInv'
  OBVIOUS
<1> USE UpstreamAssumption
<1>1. /\ lease' # "open"
      /\ lease' = "deaf" \/ reported' = OutcomeOf(result)
      /\ lease' \in {lease, "spent"} /\ reported' \in {reported, OutcomeOf(result)}
  BY Observes DEF delay_for_retry
<1>2. OutcomeOf(result) \in Outcomes
  BY OutcomesAreTyped
<1>3. delay' \in Nat /\ owed' \in Nat /\ owed' <= delay'
  BY FallbackHonoursHint DEF delay_for_retry, DirectiveOf, Longer
<1> QED
  BY <1>1, <1>2, <1>3 DEF delay_for_retry

LEMMA Retried == IInv /\ RetrySend => IInv'
BY UpstreamAssumption DEF RetrySend, reserve_wait, Affordable, final_attempt, is_exhausted

LEMMA GaveUp == IInv /\ GiveUpSend => IInv'
BY UpstreamAssumption DEF GiveUpSend, Answered, observe

LEMMA SleptOn == IInv /\ NextAttempt => IInv'
BY UpstreamAssumption DEF NextAttempt, Slept, Retryable

LEMMA Refused == IInv /\ RefusedByProvider => IInv'
BY UpstreamAssumption DEF RefusedByProvider, Answered, observe, OutcomeOf, Outcomes

LEMMA Accepted == IInv /\ accept_response => IInv'
<1> SUFFICES ASSUME IInv, accept_response PROVE IInv'
  OBVIOUS
<1>1. directive' \in Directives /\ ~directive'.finished
  BY DirectiveTypes DEF accept_response
<1> USE UpstreamAssumption DEF accept_response
<1>2. TypeOK'
  BY <1>1
<1>3. (SendNeverRefused /\ RoundsLeft /\ NoPermitWhilePausing /\ OverIsReported)'
  OBVIOUS
<1>4. BooksBalance'
  OBVIOUS
<1>5. PauseRemembered'
  BY <1>1
<1>6. (ResultInPlace /\ RoomForNext /\ OpenUntilAnswered /\ ReportOnce)'
  OBVIOUS
<1> QED
  BY <1>2, <1>3, <1>4, <1>5, <1>6

LEMMA Left == IInv /\ ClientLeaves => IInv'
BY UpstreamAssumption DEF ClientLeaves, Answered, GivenBack

LEMMA Stuttered == IInv /\ UNCHANGED vars => IInv'
OBVIOUS

LEMMA Finishes ==
    ASSUME IInv, pc \in {"streaming", "ended"}, NEW outcome \in Outcomes, finish(outcome)
    PROVE  /\ lease' # "open"
           /\ directive' \in Directives /\ directive'.finished
           /\ lease' \in {lease, "spent"} /\ reported' \in {reported, outcome}
           /\ ~directive.finished => lease' = "deaf" \/ reported' = outcome
           /\ directive.finished => UNCHANGED <<lease, reported, directive>>
<1>1. CASE directive.finished
  BY <1>1 DEF finish
<1>2. CASE ~directive.finished
  <2>1. observe(outcome)
    BY <1>2 DEF finish
  <2>2. PICK dir \in DirectiveOf(outcome) : directive' = [finished |-> TRUE, d |-> dir.d]
    BY <1>2 DEF finish
  <2>3. dir.d \in Nat
    BY UpstreamAssumption, <2>2 DEF DirectiveOf
  <2>4. directive' \in Directives /\ directive'.finished
    BY <2>2, <2>3, DirectiveTypes
  <2> QED
    BY <1>2, <2>1, <2>4, Observes
<1> QED
  BY <1>1, <1>2

LEMMA Stopped == IInv /\ StreamStops => IInv'
<1> SUFFICES ASSUME IInv, StreamStops PROVE IInv'
  OBVIOUS
<1> USE UpstreamAssumption, DirectiveTypes
<1>1. result' \in StreamEnds
  BY DEF StreamStops
<1>2. OutcomeOf(result') \in Outcomes
  BY OutcomesAreTyped
<1>3. CASE result' \in {"stream_timeout", "stream_transport"}
  <2>1. finish(OutcomeOf(result')) /\ owed' = directive'.d /\ limited' = FALSE
    BY <1>3 DEF StreamStops
  <2>2. /\ lease' # "open" /\ directive' \in Directives /\ directive'.finished
        /\ lease' \in {lease, "spent"} /\ reported' \in {reported, OutcomeOf(result')}
        /\ lease' = "deaf" \/ reported' = OutcomeOf(result')
    BY <1>2, <2>1, Finishes DEF StreamStops
  <2> QED
    BY <1>1, <1>2, <2>1, <2>2 DEF StreamStops
<1>4. CASE result' \notin {"stream_timeout", "stream_transport"}
  BY <1>1, <1>4 DEF StreamStops
<1> QED
  BY <1>3, <1>4

LEMMA SettledForGood == IInv /\ SettleForGood => IInv'
<1> SUFFICES ASSUME IInv, SettleForGood PROVE IInv'
  OBVIOUS
<1> USE UpstreamAssumption, DirectiveTypes
<1>1. OutcomeOf(result) \in Outcomes
  BY OutcomesAreTyped
<1>2. /\ lease' # "open" /\ directive' \in Directives
      /\ lease' \in {lease, "spent"} /\ reported' \in {reported, OutcomeOf(result)}
      /\ lease' = "deaf" \/ reported' = OutcomeOf(result)
  BY <1>1, Finishes DEF SettleForGood
<1> QED
  BY <1>1, <1>2 DEF SettleForGood, Answered

LEMMA SettledRecoverable == IInv /\ SettleRecoverable => IInv'
<1> SUFFICES ASSUME IInv, SettleRecoverable PROVE IInv'
  OBVIOUS
<1> USE UpstreamAssumption, DirectiveTypes
<1>1. OutcomeOf(result) \in Outcomes
  BY OutcomesAreTyped
<1>2. /\ lease' # "open" /\ directive' \in Directives
      /\ lease' \in {lease, "spent"} /\ reported' \in {reported, OutcomeOf(result)}
      /\ lease' = "deaf" \/ reported' = OutcomeOf(result)
      /\ directive.finished => UNCHANGED directive
  BY <1>1, Finishes DEF SettleRecoverable
<1>3. owed' \in Nat /\ owed' <= directive'.d
  BY <1>2 DEF SettleRecoverable, Longer
<1> QED
  BY <1>1, <1>2, <1>3 DEF SettleRecoverable, Recoverable

LEMMA Recovered == IInv /\ Recover => IInv'
<1> SUFFICES ASSUME IInv, Recover PROVE IInv'
  OBVIOUS
<1> USE UpstreamAssumption
<1>1. PICK pause \in recovery_retry_delay : reserve_wait(pause, FALSE) /\ delay' = pause
  BY DEF Recover
<1>2. pause \in Nat /\ directive.d \in Nat /\ directive.d <= pause
  BY DirectiveTypes DEF recovery_retry_delay, Longer
<1>3. /\ pause <= retry_left /\ retry_left' = retry_left - pause
      /\ pause <= other_left /\ other_left' = other_left - pause
  BY <1>1 DEF reserve_wait, Affordable
<1>4. /\ pc = "failing" /\ pc' = "recovering"
      /\ recovery + 1 < MAX_SEMANTIC_RECOVERY_ATTEMPTS /\ remaining # 0
      /\ UNCHANGED <<loop, remaining, lease, directive, result, history, asked, reported, answer>>
  BY DEF Recover, recovery_attempt_limit, is_exhausted
<1>5. TypeOK'
  BY <1>1, <1>2, <1>3, <1>4
<1>6. (SendNeverRefused /\ RoundsLeft /\ NoPermitWhilePausing /\ OverIsReported)'
  BY <1>4
<1>7. BooksBalance'
  BY <1>1, <1>2, <1>3, <1>4
<1>8. PauseRemembered'
  BY <1>1, <1>2, <1>4
<1>9. (ResultInPlace /\ RoomForNext /\ OpenUntilAnswered /\ ReportOnce)'
  BY <1>4
<1> QED
  BY <1>5, <1>6, <1>7, <1>8, <1>9

LEMMA Exhausted == IInv /\ RecoveryExhausted => IInv'
BY UpstreamAssumption DEF RecoveryExhausted, Answered

LEMMA RecoveredAgain == IInv /\ NextRecovery => IInv'
BY UpstreamAssumption DEF NextRecovery, Slept

HIDE DEF IInv, TypeOK, Places, SendNeverRefused, RoundsLeft, NoPermitWhilePausing,
         OverIsReported, BooksBalance, Pending, PendingOther, PauseRemembered, ResultInPlace,
         RoomForNext, OpenUntilAnswered, ReportOnce,
         vars, loop, budget, history, asked, Results, Headers, SendErrors, StreamEnds

THEOREM Inductive == Spec => []IInv
<1>1. Init => IInv
  BY Initially
<1>2. IInv /\ [Next]_vars => IInv'
  <2> SUFFICES ASSUME IInv, [Next]_vars PROVE IInv'
    OBVIOUS
  <2>1. CASE Next
    BY <2>1, Acquired, AcquireFailed, Responded, DelayDecided, Retried, GaveUp, SleptOn, Refused,
       Accepted, Stopped, SettledForGood, SettledRecoverable, Recovered, Exhausted,
       RecoveredAgain, Left, Stuttered DEF Next, Done
  <2>2. CASE UNCHANGED vars
    BY <2>2, Stuttered
  <2> QED
    BY <2>1, <2>2
<1> QED
  BY <1>1, <1>2, PTL DEF Spec

\* Types, and the budget's books never below zero.
THEOREM UpstreamTypes == Spec => []TypeOK
<1>1. IInv => TypeOK
  BY DEF IInv
<1> QED
  BY <1>1, Inductive, PTL

\* No lease is acquired for a send the budget refuses.
THEOREM NeverRefused == Spec => []SendNeverRefused
<1>1. IInv => SendNeverRefused
  BY DEF IInv
<1> QED
  BY <1>1, Inductive, PTL

\* A request that pauses holds no permit.
THEOREM PausesWithoutPermit == Spec => []NoPermitWhilePausing
<1>1. IInv => NoPermitWhilePausing
  BY DEF IInv
<1> QED
  BY <1>1, Inductive, PTL

\* Each attempt that is over was reported for what it was.
THEOREM AttemptsReported == Spec => []OverIsReported
<1>1. IInv => OverIsReported
  BY DEF IInv
<1> QED
  BY <1>1, Inductive, PTL

-----------------------------------------------------------------------------
(* The refinement.                                                         *)

USE DEF IInv, TypeOK, PauseRemembered, BooksBalance, Pending, PendingOther, SendNeverRefused,
        ResultInPlace, OpenUntilAnswered, vars, loop, budget, history, asked,
        Headers, SendErrors, StreamEnds

LEMMA LogicalInit == Init => Logical!Init
BY DEF Init, Logical!Init

LEMMA LogicalStep == IInv /\ [Next]_vars /\ IInv' => [Logical!Next]_Logical!vars
<1> SUFFICES ASSUME IInv, [Next]_vars, IInv' PROVE [Logical!Next]_Logical!vars
  OBVIOUS
<1> USE UpstreamAssumption DEF Logical!Next, Logical!vars
<1>1. CASE acquire_lease
  BY <1>1 DEF acquire_lease, Logical!Send
<1>2. CASE NoPermit
  BY <1>2 DEF NoPermit, Answered, Logical!Answer
<1>3. CASE Respond
  BY <1>3 DEF Respond, Logical!AskForPause
<1>4. CASE delay_for_retry
  BY <1>4 DEF delay_for_retry, Logical!AskForPause, Longer, DirectiveOf
<1>5. CASE RetrySend
  BY <1>5 DEF RetrySend
<1>6. CASE GiveUpSend
  BY <1>6 DEF GiveUpSend, Answered, Logical!Answer
<1>7. CASE NextAttempt
  BY <1>7 DEF NextAttempt, Slept, Logical!Pause
<1>8. CASE RefusedByProvider
  BY <1>8 DEF RefusedByProvider, Answered, Logical!Answer
<1>9. CASE accept_response
  BY <1>9 DEF accept_response
<1>10. CASE StreamStops
  BY <1>10 DEF StreamStops, Logical!AskForPause
<1>11. CASE SettleForGood
  BY <1>11 DEF SettleForGood, Answered, Logical!Answer
<1>12. CASE SettleRecoverable
  BY <1>12 DEF SettleRecoverable, Longer, Logical!AskForPause
<1>13. CASE Recover
  BY <1>13 DEF Recover
<1>14. CASE RecoveryExhausted
  BY <1>14 DEF RecoveryExhausted, Answered, Logical!Answer
<1>15. CASE NextRecovery
  BY <1>15 DEF NextRecovery, Slept, Logical!Pause
<1>16. CASE ClientLeaves
  BY <1>16 DEF ClientLeaves, Answered, Logical!Answer
<1>17. CASE UNCHANGED vars
  BY <1>17
<1> QED
  BY <1>1, <1>2, <1>3, <1>4, <1>5, <1>6, <1>7, <1>8, <1>9, <1>10, <1>11, <1>12, <1>13,
     <1>14, <1>15, <1>16, <1>17 DEF Next, Done

HIDE DEF IInv, TypeOK, PauseRemembered, BooksBalance, Pending, PendingOther, SendNeverRefused,
         ResultInPlace, OpenUntilAnswered, vars, loop, budget, history, asked,
         Headers, SendErrors, StreamEnds

\* Whatever its limits, the bridge keeps to them for each logical request.
THEOREM LogicalRequestKept == Spec => ImplementsLogicalRequest
<1>1. Spec => Logical!Spec
  BY Inductive, LogicalInit, LogicalStep, PTL DEF Spec, Logical!Spec
<1> QED
  BY <1>1 DEF ImplementsLogicalRequest

-----------------------------------------------------------------------------
(* A request comes to an end.                                              *)

\* The places of a request between two sends, from the last to the first.
Place(place) ==
    CASE place = "acquiring" -> 1
      [] place \in {"sleeping", "recovering"} -> 2
      [] place = "failing" -> 3
      [] place = "ended" -> 4
      [] place \in {"reported", "streaming"} -> 5
      [] place = "answered" -> 6
      [] place = "sending" -> 7
      [] OTHER -> 0

StepsAhead == 7 * remaining + Place(pc)

LEMMA PlaceOrder ==
    /\ Place("closed") = 0 /\ Place("acquiring") = 1 /\ Place("sleeping") = 2
    /\ Place("recovering") = 2 /\ Place("failing") = 3 /\ Place("ended") = 4
    /\ Place("reported") = 5 /\ Place("streaming") = 5 /\ Place("answered") = 6
    /\ Place("sending") = 7
BY DEF Place

\* With the same sends left, the request moves on to a later place.
Forward == {<<"sending", "answered">>, <<"answered", "reported">>, <<"answered", "streaming">>,
            <<"reported", "sleeping">>, <<"sleeping", "acquiring">>, <<"streaming", "ended">>,
            <<"ended", "failing">>, <<"failing", "recovering">>, <<"recovering", "acquiring">>}

SendMade == pc = "acquiring" /\ pc' = "sending" /\ remaining > 0 /\ remaining' = remaining - 1
Closes == UNCHANGED remaining /\ pc # "closed" /\ pc' = "closed"
GoesOn == UNCHANGED remaining /\ <<pc, pc'>> \in Forward

LEMMA PlaceLeft == Next => SendMade \/ Closes \/ GoesOn \/ UNCHANGED vars
<1> SUFFICES ASSUME Next PROVE SendMade \/ Closes \/ GoesOn \/ UNCHANGED vars
    OBVIOUS
<1> USE DEF budget
<1>1. CASE acquire_lease
    BY <1>1 DEF acquire_lease, SendMade
<1>2. CASE NoPermit \/ GiveUpSend \/ RefusedByProvider \/ SettleForGood
           \/ RecoveryExhausted \/ ClientLeaves
    BY <1>2 DEF NoPermit, GiveUpSend, RefusedByProvider, SettleForGood, RecoveryExhausted,
        ClientLeaves, Answered, Closes
<1>3. CASE Respond \/ delay_for_retry \/ RetrySend \/ NextAttempt \/ accept_response
    BY <1>3 DEF Respond, delay_for_retry, RetrySend, NextAttempt, accept_response, Slept,
        GoesOn, Forward
<1>4. CASE StreamStops \/ SettleRecoverable \/ Recover \/ NextRecovery
    BY <1>4 DEF StreamStops, SettleRecoverable, Recover, NextRecovery, Slept, GoesOn, Forward
<1> QED
    BY <1>1, <1>2, <1>3, <1>4 DEF Next, Done

\* Whatever the provider, the coordinator and the client do, each step brings
\* the request nearer to its end, however the two loops of retries divide the
\* sends between them: it takes 7 * MAX_UPSTREAM_SENDS + 1 steps at most.
THEOREM RequestDoesNotCircle ==
    Spec => /\ StepsAhead = 7 * MAX_UPSTREAM_SENDS + 1
            /\ [][StepsAhead' < StepsAhead /\ StepsAhead \in Nat]_vars
<1>1. Init => StepsAhead = 7 * MAX_UPSTREAM_SENDS + 1
    BY PlaceOrder DEF Init, StepsAhead
<1>2. TypeOK /\ TypeOK' /\ [Next]_vars => [StepsAhead' < StepsAhead /\ StepsAhead \in Nat]_vars
    <2> SUFFICES ASSUME TypeOK, TypeOK', Next, ~UNCHANGED vars
                 PROVE  StepsAhead \in Nat /\ StepsAhead' < StepsAhead
        OBVIOUS
    <2>1. remaining \in Nat /\ remaining' \in Nat
        BY UpstreamAssumption DEF TypeOK
    <2>2. /\ Place(pc) \in Nat
          /\ pc # "closed" => Place(pc) > 0
        BY PlaceOrder DEF TypeOK, Places
    <2>3. CASE SendMade
        BY <2>1, <2>3, PlaceOrder DEF SendMade, StepsAhead
    <2>4. CASE Closes
        <3>1. Place(pc') = 0 /\ Place(pc) > 0 /\ remaining' = remaining
            BY <2>2, <2>4, PlaceOrder DEF Closes
        <3> QED
            BY <2>1, <2>2, <3>1 DEF StepsAhead
    <2>5. CASE GoesOn
        <3>1. remaining' = remaining /\ Place(pc') < Place(pc) /\ Place(pc') \in Nat
            BY <2>5, PlaceOrder DEF GoesOn, Forward
        <3> QED
            BY <2>1, <2>2, <3>1 DEF StepsAhead
    <2> QED
        BY <2>3, <2>4, <2>5, PlaceLeft
<1> QED
    BY <1>1, <1>2, UpstreamTypes, PTL DEF Spec

=============================================================================
