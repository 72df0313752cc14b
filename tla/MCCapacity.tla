----------------------------- MODULE MCCapacity -----------------------------
(* Constants a configuration file cannot write for CapacityWindow.         *)
EXTENDS CapacityWindow

\* The wall clock may be set back by one tick at a time, again and again.  The
\* safety theorems hold for any set of steps, forward ones among them.
OneTickBack == {-1}

=============================================================================
