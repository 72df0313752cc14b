----------------------------- MODULE MCScheduler -----------------------------
(* Small instances of Scheduler: who asks for what, and what is reported.  *)
EXTENDS Scheduler, TLC

CONSTANTS c1, c2, c3, A, B

Ask(launch, lane, priority, budget) ==
    [launch |-> launch, lane |-> lane, priority |-> priority, budget |-> budget]
Reported(outcome, usage) == [outcome |-> outcome, usage |-> usage]

\* Two attempts of a budgeted launch and one of another launch.
MixedRequests ==
    c1 :> Ask(A, "Inference", "Foreground", 2) @@
    c2 :> Ask(A, "Inference", "Background", 2) @@
    c3 :> Ask(B, "Inference", "Foreground", NONE)
MixedReports == {Reported("Success", 1), Reported("RateLimited", NONE)}

\* Connections of one budgeted launch that ask for the same.
BudgetedRequests == [c \in Conns |-> Ask(A, "Inference", "Foreground", 2)]
BudgetedReports == MixedReports \cup {Reported("Success", NONE)}
Alike == Permutations(Conns)

=============================================================================
