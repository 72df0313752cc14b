-------------------------- MODULE CapacityEnvelope --------------------------
(***************************************************************************)
(* What the adaptive capacity policy of one scope promises to the          *)
(* scheduler that grants permits against it: how far one observed attempt  *)
(* may move the concurrency window, and that it may only lengthen the      *)
(* shared cooldown.  The evidence behind a growth step (healthy rounds,    *)
(* holds, ceilings) is left open here.  CapacityWindow, which keeps that   *)
(* evidence, implements this module; Scheduler composes with it.           *)
(*                                                                         *)
(* Source: crates/nan-harness-coordinator/src/scheduler/state.rs.          *)
(***************************************************************************)
EXTENDS Naturals

CONSTANTS
    INITIAL_WINDOW,             \* permits of a scope nothing is known about
    SOFT_FAILURE_WINDOW_FLOOR,  \* soft failures do not go below this
    MAX_WINDOW,                 \* permits a scope may reach
    NEVER,                      \* CooldownDeadline::Unrepresentable
    Hints,                      \* Retry-After hints of the provider, in ticks
    LocalDelays                 \* jittered local backoffs, in ticks

\* What the modules that instantiate this one assume of its constants.
CapacityParameters ==
    /\ INITIAL_WINDOW \in Nat \ {0}
    /\ SOFT_FAILURE_WINDOW_FLOOR \in Nat
    /\ MAX_WINDOW \in Nat
    /\ NEVER \in Nat \ {0}
    /\ INITIAL_WINDOW <= SOFT_FAILURE_WINDOW_FLOOR
    /\ SOFT_FAILURE_WINDOW_FLOOR <= MAX_WINDOW
    /\ Hints \subseteq 0..NEVER
    /\ LocalDelays \subseteq 0..NEVER

VARIABLES
    window,    \* permits that may be out at once
    cooldown   \* ticks until the scope may grant again; NEVER does not expire

vars == <<window, cooldown>>

Larger(a, b) == IF a >= b THEN a ELSE b
Smaller(a, b) == IF a <= b THEN a ELSE b

Outcomes == {"Success", "RateLimited", "Transport", "Timeout", "ServerError",
             "InvalidResponse", "Cancelled", "Terminal"}

-----------------------------------------------------------------------------
(* Window arithmetic.                                                      *)

\* Mutant of AfterRateLimit: the window is kept.
KeptOnRateLimit(w) == w

\* A rate limit halves the window, down to one permit.
AfterRateLimit(w) == Larger(w \div 2, 1)

\* A soft failure takes one permit, or half of them, and stops at the floor
\* unless the window is below the floor already.
AfterSoftFailure(w, next) == Larger(next, Smaller(SOFT_FAILURE_WINDOW_FLOOR, w))
Decremented(w) == AfterSoftFailure(w, w - 1)

\* Mutant of Halved: the floor is forgotten.
HalvedWithoutFloor(w) == Larger(w \div 2, 1)

Halved(w) == AfterSoftFailure(w, w \div 2)

\* Windows one observed attempt may leave behind.
WindowsAfter(outcome, foreground, w) ==
    CASE ~foreground -> {w}
      [] outcome = "Success" -> {w, Smaller(w + 1, MAX_WINDOW)}
      [] outcome = "RateLimited" -> {AfterRateLimit(w)}
      [] outcome \in {"Transport", "InvalidResponse"} -> {Decremented(w)}
      [] outcome \in {"Timeout", "ServerError"} -> {Halved(w)}
      [] OTHER -> {w}

\* A deadline is replaced by the later one, so NEVER is never given up.
Extended(c, delay) == Larger(c, delay)

\* Cooldowns one observed attempt may leave behind.  A transient failure
\* opens the breaker only from the third in a row on, which this module does
\* not count; a server error may carry a hint besides.
CooldownsAfter(outcome, foreground, c) ==
    CASE ~foreground -> {c}
      [] outcome = "RateLimited" ->
            {Extended(c, d) : d \in Hints \cup LocalDelays}
      [] outcome = "InvalidResponse" -> {Extended(c, d) : d \in LocalDelays}
      [] outcome \in {"Transport", "Timeout"} ->
            {c} \cup {Extended(c, d) : d \in LocalDelays}
      [] outcome = "ServerError" ->
            {c} \cup {Extended(c, d) : d \in Hints \cup LocalDelays}
                \cup {Extended(c, Larger(d, h)) : d \in LocalDelays, h \in Hints}
      [] OTHER -> {c}

-----------------------------------------------------------------------------
Init ==
    /\ window = INITIAL_WINDOW
    /\ cooldown = 0

Observe(outcome, foreground) ==
    /\ window' \in WindowsAfter(outcome, foreground, window)
    /\ cooldown' \in CooldownsAfter(outcome, foreground, cooldown)

Tick ==
    /\ cooldown \in 1..(NEVER - 1)
    /\ cooldown' = cooldown - 1
    /\ UNCHANGED window

\* A new daemon restores at most what the cache claims and no cooldown.
Restart ==
    /\ window' \in 1..MAX_WINDOW
    /\ cooldown' = 0

Next ==
    \/ \E outcome \in Outcomes, foreground \in BOOLEAN : Observe(outcome, foreground)
    \/ Tick
    \/ Restart

Spec == Init /\ [][Next]_vars

=============================================================================
