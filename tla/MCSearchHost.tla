---------------------------- MODULE MCSearchHost ----------------------------
(* Small instances of the shared search backend for TLC.                    *)
EXTENDS SearchHost, TLC

Symmetry == Permutations(Launchers) \cup Permutations(Hosts)
=============================================================================
