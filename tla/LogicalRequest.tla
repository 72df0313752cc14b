--------------------------- MODULE LogicalRequest ---------------------------
(***************************************************************************)
(* What one request of a client may cost the provider and the user, however *)
(* many layers of the bridge retry it: a bounded number of sends, bounded   *)
(* pauses between them, a smaller bound on the pauses the provider did not  *)
(* force by limiting the rate, no send before the pause that was asked for  *)
(* has passed, and one answer, after which nothing more happens.            *)
(*                                                                          *)
(* UpstreamSend, which keeps the budgets and takes the decisions, implements *)
(* this module.  Source: crates/nan-harness-bridge/src/upstream.rs.         *)
(***************************************************************************)
EXTENDS Naturals

CONSTANTS
    MaxSends,      \* sends of one logical request
    MaxWait,       \* pauses of one logical request together
    MaxOtherWait   \* those of them that no rate limit explains

VARIABLES
    sent,     \* sends that reached the provider
    waited,   \* time paused between sends
    others,   \* the part of it that no rate limit explains
    owed,     \* pause asked for that has not been made
    limited,  \* whether a rate limit asked for it
    state     \* whether the request is open or has been answered

vars == <<sent, waited, others, owed, limited, state>>

Init ==
    /\ sent = 0 /\ waited = 0 /\ others = 0
    /\ owed = 0 /\ limited = FALSE
    /\ state = "open"

Send ==
    /\ state = "open"
    /\ owed = 0
    /\ sent < MaxSends
    /\ sent' = sent + 1
    /\ UNCHANGED <<waited, others, owed, limited, state>>

\* The provider, or the coordinator for all launches, asks for a pause.
AskForPause ==
    /\ state = "open"
    /\ owed' \in Nat /\ owed' >= owed
    /\ limited' \in BOOLEAN
    /\ UNCHANGED <<sent, waited, others, state>>

\* A pause as long as was asked for, or longer, within what is left.
Pause ==
    /\ state = "open"
    /\ waited' \in Nat
    /\ waited + owed <= waited' /\ waited' <= MaxWait
    /\ others' = IF limited THEN others ELSE others + (waited' - waited)
    /\ others' <= MaxOtherWait
    /\ owed' = 0
    /\ UNCHANGED <<sent, limited, state>>

Answer ==
    /\ state = "open"
    /\ state' = "answered"
    /\ UNCHANGED <<sent, waited, others, owed, limited>>

Next == Send \/ AskForPause \/ Pause \/ Answer

Spec == Init /\ [][Next]_vars

=============================================================================
