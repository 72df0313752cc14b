----------------------------- MODULE MCUpstream -----------------------------
(* UpstreamSend as TLC runs it.                                            *)
EXTENDS UpstreamSend

=============================================================================
