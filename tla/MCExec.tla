------------------------------- MODULE MCExec -------------------------------
(* Channels of one place; the leader writes more on stderr than fits.      *)
EXTENDS Exec
=============================================================================
