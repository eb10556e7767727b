---------------------------- MODULE MCDetection ----------------------------
(* The constants of the code: watchdog 60 s, backstop 300 s, 3 retries.    *)
EXTENDS Detection

CONSTANTS t1, t2
=============================================================================
