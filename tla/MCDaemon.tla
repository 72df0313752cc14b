------------------------------ MODULE MCDaemon ------------------------------
(* A small instance of CoordinatorDaemon: two installations of nan-harness. *)
EXTENDS CoordinatorDaemon, TLC

CONSTANTS old, new

TwoVersions == old :> 2 @@ new :> 3

=============================================================================
