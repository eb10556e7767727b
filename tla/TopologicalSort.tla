--------------------------- MODULE TopologicalSort ---------------------------
(***************************************************************************)
(* topological_sort of kindboard-core/src/provision/mod.rs, by which       *)
(* run_plan orders the steps of a plan: Kahn's algorithm with a stack.     *)
(*                                                                         *)
(* A plan is the sequence of its steps' depends_on lists, in which a step  *)
(* may occur more than once and ids may occur that no step has.  A step's  *)
(* id is its position: build_plan gives every step an id of its own.       *)
(***************************************************************************)
EXTENDS Naturals, Sequences, FiniteSets

CONSTANT Plans   \* the plans that are sorted

ASSUME PlansAssumption == Plans \subseteq Seq(Seq(Nat))

VARIABLES
    plan,       \* the dependencies of each step
    degree,     \* in_degree
    ready,      \* steps without an unsorted dependency; the next one last
    sorted,
    stage       \* "count", "sort", or the outcome

vars == <<plan, degree, ready, sorted, stage>>

Steps == DOMAIN plan
Outcomes == {"ok", "unknown", "cycle"}

TypeOK ==
    /\ plan \in Seq(Seq(Nat))
    /\ degree \in [Steps -> Nat]
    /\ ready \in Seq(Steps) /\ sorted \in Seq(Steps)
    /\ stage \in {"count", "sort"} \cup Outcomes

Elements(s) == {s[k] : k \in DOMAIN s}

\* The places in a step's list that name one of `ids`.
Mentions(step, ids) == {k \in DOMAIN plan[step] : plan[step][k] \in ids}

\* The elements of S in the order of the plan: there is one such sequence.
InOrder(S) ==
    {q \in [1..Cardinality(S) -> S] : \A j, k \in DOMAIN q : j < k => q[j] < q[k]}

-----------------------------------------------------------------------------
Init ==
    /\ plan \in Plans
    /\ degree = [i \in DOMAIN plan |-> 0] /\ ready = <<>> /\ sorted = <<>>
    /\ stage = "count"

UnknownDependency ==
    /\ stage = "count" /\ \E i \in Steps : ~(Elements(plan[i]) \subseteq Steps)
    /\ stage' = "unknown"
    /\ UNCHANGED <<plan, degree, ready, sorted>>

CountDependencies ==
    /\ stage = "count" /\ \A i \in Steps : Elements(plan[i]) \subseteq Steps
    /\ degree' = [i \in Steps |-> Len(plan[i])]
    /\ ready' \in InOrder({i \in Steps : plan[i] = <<>>})
    /\ stage' = "sort"
    /\ UNCHANGED <<plan, sorted>>

Top == ready[Len(ready)]

\* Slip: a step is freed by the first of its dependencies.
FreedByFirst(step) == {d \in Steps : Mentions(d, {step}) # {} /\ degree[d] = Len(plan[d])}

\* The dependents of which `step` was the last unsorted dependency.
Freed(step) ==
    {d \in Steps : Mentions(d, {step}) # {} /\ degree[d] = Cardinality(Mentions(d, {step}))}

CountedDown(step) == [d \in Steps |-> degree[d] - Cardinality(Mentions(d, {step}))]

Pop ==
    /\ stage = "sort" /\ ready # <<>>
    /\ sorted' = Append(sorted, Top)
    /\ degree' = CountedDown(Top)
    /\ \E freed \in InOrder(Freed(Top)) :
         ready' = SubSeq(ready, 1, Len(ready) - 1) \o freed
    /\ UNCHANGED <<plan, stage>>

\* Slip: an order that misses steps is returned.
AlwaysOk ==
    /\ stage = "sort" /\ ready = <<>>
    /\ stage' = "ok"
    /\ UNCHANGED <<plan, degree, ready, sorted>>

Finish ==
    /\ stage = "sort" /\ ready = <<>>
    /\ stage' = IF Len(sorted) = Len(plan) THEN "ok" ELSE "cycle"
    /\ UNCHANGED <<plan, degree, ready, sorted>>

Next == UnknownDependency \/ CountDependencies \/ Pop \/ Finish

Spec == Init /\ [][Next]_vars

-----------------------------------------------------------------------------
(* Properties.                                                             *)

\* "dependencies before dependents" (provision/mod.rs): whatever a sorted
\* step depends on was sorted before it.
DependenciesComeFirst ==
    \A k \in DOMAIN sorted :
        Elements(plan[sorted[k]]) \subseteq {sorted[j] : j \in 1..(k - 1)}

\* "verify the DAG is acyclic": an order that run_plan is given has every
\* step, each once; a plan is refused just if some of its steps wait for
\* each other, however often a dependency is listed.
Knot(S) == S # {} /\ \A i \in S : Elements(plan[i]) \cap S # {}
SortedOrRefused ==
    stage \in {"ok", "cycle"} =>
        /\ stage = "cycle" <=> \E S \in SUBSET Steps : Knot(S)
        /\ stage = "ok" => Len(sorted) = Len(plan) /\ Elements(sorted) = Steps
=============================================================================
