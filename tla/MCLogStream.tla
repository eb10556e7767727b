----------------------------- MODULE MCLogStream -----------------------------
(* Buses and rings of one or two places, so that they fill up.             *)
EXTENDS LogStream
=============================================================================
