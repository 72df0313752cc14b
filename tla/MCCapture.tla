------------------------------ MODULE MCCapture ------------------------------
(* A small instance of DiagnosticCapture for TLC.                           *)
EXTENDS DiagnosticCapture, TLC
=============================================================================
