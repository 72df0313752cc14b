------------------------------- MODULE MCLaunch -------------------------------
(* A launch has one instance: with or without a bridge, with or without a   *)
(* gateway.                                                                 *)
EXTENDS LaunchSupervisor
=============================================================================
