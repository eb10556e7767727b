----------------------------- MODULE MCPlanning -----------------------------
(* Networks of four addresses, with host bits set or not, against a default; *)
(* every plan of up to three steps with up to two dependencies each, listed  *)
(* twice and unknown ones included, and every plan of four steps that wait   *)
(* for up to two others.                                                     *)
EXTENDS Planning

Block(a, p) == [address |-> a, prefix |-> p]

DefaultPodBlock == Block(0, 1)
DefaultServiceBlock == Block(2, 2)
SomePods == {DefaultPodBlock, Block(3, 1), Block(3, 2), Block(1, 0), Block(0, 3)}
SomeServices == {DefaultServiceBlock, Block(1, 1), Block(1, 2), Block(2, 0), Block(0, 3)}

SomeKernels == [major : 6..8, minor : 0..3]

SomeIds == <<"kind-create", "final-verify">>

Lists(ids, n) == UNION {[1..d -> ids] : d \in 0..n}
Sets(n) == {s \in Lists(1..n, 2) : \A j, k \in DOMAIN s : j < k => s[j] < s[k]}

AllPlans == UNION {[1..n -> Lists(1..(n + 1), 2)] : n \in 1..3} \cup [1..4 -> Sets(4)]
=============================================================================
