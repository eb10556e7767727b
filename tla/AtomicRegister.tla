---------------------------- MODULE AtomicRegister ----------------------------
(***************************************************************************)
(* What fsutil::atomic_write promises of a file: it holds one whole value  *)
(* at a time, and a power failure leaves it with one of the whole values   *)
(* it held since the directory last reached the disk.                      *)
(***************************************************************************)
CONSTANTS Values, None

VARIABLES
    value,     \* what the file holds
    durable    \* what it may hold after a power failure

vars == <<value, durable>>

Become(v) == value' = v /\ durable' = durable \cup {v}

Write(v) == Become(v)
Remove == Become(None)
Settle == durable' = {value} /\ UNCHANGED value
PowerFailure == value' \in durable /\ durable' = {value'}

Init == value = None /\ durable = {None}
Next == (\E v \in Values : Write(v)) \/ Remove \/ Settle \/ PowerFailure
Spec == Init /\ [][Next]_vars
=============================================================================
