---------------------------- MODULE Planning_proofs ----------------------------
(***************************************************************************)
(* Proofs about Planning and the topological sort that it composes, for    *)
(* any number of steps with any dependencies, for every spec that the      *)
(* wizard can create, and for whatever is shown of an operation.           *)
(***************************************************************************)
EXTENDS Planning, FiniteSetTheorems, SequenceTheorems, TLAPS

-----------------------------------------------------------------------------
(* Sequences in which nothing is repeated.                                 *)

NoRepeat(s) == \A j, k \in 1..Len(s) : s[j] = s[k] => j = k

LEMMA ElementFacts ==
    ASSUME NEW S, NEW s \in Seq(S)
    PROVE  /\ Len(s) \in Nat /\ DOMAIN s = 1..Len(s)
           /\ Elements(s) = {s[k] : k \in 1..Len(s)} /\ Elements(s) \subseteq S
BY DEF Elements

LEMMA AppendFacts ==
    ASSUME NEW S, NEW s \in Seq(S), NEW x \in S
    PROVE  LET t == Append(s, x)
           IN  /\ t \in Seq(S) /\ Len(t) = Len(s) + 1 /\ t[Len(s) + 1] = x
               /\ \A k \in 1..Len(s) : t[k] = s[k]
               /\ Elements(t) = Elements(s) \cup {x}
               /\ NoRepeat(s) /\ x \notin Elements(s) => NoRepeat(t)
<1>. DEFINE t == Append(s, x)
<1>1. /\ t \in Seq(S) /\ Len(t) = Len(s) + 1 /\ t[Len(s) + 1] = x
      /\ \A k \in 1..Len(s) : t[k] = s[k]
  OBVIOUS
<1>. HIDE DEF t
<1>2. /\ Len(s) \in Nat /\ Elements(s) = {s[k] : k \in 1..Len(s)}
      /\ Elements(t) = {t[k] : k \in 1..Len(t)}
  BY <1>1, ElementFacts
<1>3. Elements(t) = Elements(s) \cup {x}
  BY <1>1, <1>2
<1>4. NoRepeat(s) /\ x \notin Elements(s) => NoRepeat(t)
  BY <1>1, <1>2 DEF NoRepeat
<1>. QED BY <1>1, <1>3, <1>4 DEF t

LEMMA FrontFacts ==
    ASSUME NEW S, NEW s \in Seq(S), s # <<>>
    PROVE  LET t == SubSeq(s, 1, Len(s) - 1)
               last == s[Len(s)]
           IN  /\ t \in Seq(S) /\ last \in Elements(s)
               /\ NoRepeat(s) => NoRepeat(t) /\ Elements(t) = Elements(s) \ {last}
<1>. DEFINE t == SubSeq(s, 1, Len(s) - 1)
            n == Len(s)
<1>1. n \in Nat /\ n # 0 /\ n \in 1..n
  <2>1. n \in Nat /\ s \in [1..n -> S]
    OBVIOUS
  <2>2. n = 0 => s = <<>>
    BY <2>1
  <2>. QED BY <2>1, <2>2
<1>2. t \in Seq(S) /\ Len(t) = n - 1 /\ \A k \in 1..(n - 1) : t[k] = s[k]
  <2>1. 1 \in Int /\ n - 1 \in Int /\ \A k \in 1..(n - 1) : s[k] \in S
    BY <1>1
  <2>2. /\ t \in Seq(S) /\ Len(t) = IF 1 <= n - 1 THEN (n - 1) - 1 + 1 ELSE 0
        /\ \A k \in 1..((n - 1) - 1 + 1) : t[k] = s[1 + k - 1]
    BY <2>1, SubSeqProperties
  <2>. HIDE DEF t, n
  <2>3. ASSUME NEW k \in 1..(n - 1)
        PROVE  t[k] = s[k]
    <3>1. k \in 1..((n - 1) - 1 + 1) /\ 1 + k - 1 = k
      BY <1>1
    <3>. QED BY <2>2, <3>1
  <2>4. Len(t) = n - 1
    BY <1>1, <2>2
  <2>. QED BY <2>2, <2>3, <2>4
<1>. HIDE DEF t
<1>3. /\ Elements(s) = {s[k] : k \in 1..n}
      /\ Elements(t) = {t[k] : k \in 1..(n - 1)}
  BY <1>1, <1>2, ElementFacts
<1>. HIDE DEF n
<1>4. s[n] \in Elements(s)
  BY <1>1, <1>3
<1>5. ASSUME NoRepeat(s)
      PROVE  NoRepeat(t) /\ Elements(t) = Elements(s) \ {s[n]}
  <2>1. \A j, k \in 1..n : s[j] = s[k] => j = k
    BY <1>5 DEF NoRepeat, n
  <2>2. NoRepeat(t)
    BY <1>1, <1>2, <2>1 DEF NoRepeat
  <2>3. \A k \in 1..(n - 1) : k \in 1..n /\ k # n
    BY <1>1
  <2>4. \A k \in 1..n : k # n => k \in 1..(n - 1)
    BY <1>1
  <2>5. \A k \in 1..(n - 1) : t[k] \in Elements(s) \ {s[n]}
    BY <1>1, <1>2, <1>3, <2>1, <2>3
  <2>6. \A e \in Elements(s) \ {s[n]} : \E k \in 1..(n - 1) : t[k] = e
    BY <1>2, <1>3, <2>4
  <2>7. Elements(t) \subseteq Elements(s) \ {s[n]}
    BY <1>3, <2>5
  <2>8. Elements(s) \ {s[n]} \subseteq Elements(t)
    BY <1>3, <2>6
  <2>. QED BY <2>2, <2>7, <2>8
<1>. QED BY <1>2, <1>4, <1>5 DEF t, n

LEMMA JoinFacts ==
    ASSUME NEW S, NEW p \in Seq(S), NEW q \in Seq(S)
    PROVE  /\ p \o q \in Seq(S) /\ Elements(p \o q) = Elements(p) \cup Elements(q)
           /\ NoRepeat(p) /\ NoRepeat(q) /\ Elements(p) \cap Elements(q) = {} => NoRepeat(p \o q)
<1>. DEFINE t == p \o q
            m == Len(p)
            n == Len(q)
<1>1. /\ t \in Seq(S) /\ Len(t) = m + n /\ m \in Nat /\ n \in Nat
      /\ \A k \in 1..m : t[k] = p[k]
      /\ \A k \in 1..n : t[m + k] = q[k]
  <2>1. t \in Seq(S) /\ Len(t) = m + n /\ m \in Nat /\ n \in Nat
    OBVIOUS
  <2>2. \A k \in 1..m : t[k] = p[k]
    OBVIOUS
  <2>3. \A k \in 1..n : t[m + k] = q[k]
    OBVIOUS
  <2>. QED BY <2>1, <2>2, <2>3
<1>2. /\ Elements(p) = {p[k] : k \in 1..m}
      /\ Elements(q) = {q[k] : k \in 1..n}
  BY ElementFacts
<1>. HIDE DEF t, m, n
<1>3. Elements(t) = {t[k] : k \in 1..(m + n)}
  BY <1>1, ElementFacts
<1>4. ASSUME NEW k \in 1..(m + n)
      PROVE  \/ k \in 1..m /\ t[k] = p[k] /\ t[k] \in Elements(p)
             \/ /\ k - m \in 1..n /\ t[k] = q[k - m] /\ t[k] \in Elements(q) /\ k > m
  <2>1. k \in 1..m \/ (k - m \in 1..n /\ k = m + (k - m) /\ k > m)
    BY <1>1
  <2>. QED BY <2>1, <1>1, <1>2
<1>5. Elements(t) = Elements(p) \cup Elements(q)
  <2>1. \A k \in 1..m : k \in 1..(m + n)
    BY <1>1
  <2>2. \A k \in 1..n : m + k \in 1..(m + n)
    BY <1>1
  <2>3. Elements(t) \subseteq Elements(p) \cup Elements(q)
    BY <1>3, <1>4
  <2>4. Elements(p) \subseteq Elements(t)
    BY <1>1, <1>2, <1>3, <2>1
  <2>5. Elements(q) \subseteq Elements(t)
    BY <1>1, <1>2, <1>3, <2>2
  <2>. QED BY <2>3, <2>4, <2>5
<1>6. ASSUME NoRepeat(p), NoRepeat(q), Elements(p) \cap Elements(q) = {},
             NEW j \in 1..(m + n), NEW k \in 1..(m + n), t[j] = t[k]
      PROVE  j = k
  <2>1. CASE j \in 1..m /\ k \in 1..m
    BY <1>1, <1>6, <2>1 DEF NoRepeat, m
  <2>2. CASE j \notin 1..m /\ k \notin 1..m
    <3>1. j - m \in 1..n /\ k - m \in 1..n /\ q[j - m] = q[k - m]
      BY <1>4, <1>6, <2>2
    <3>2. j - m = k - m
      BY <1>6, <3>1 DEF NoRepeat, n
    <3>. QED BY <1>1, <3>2
  <2>3. CASE j \in 1..m /\ k \notin 1..m
    BY <1>1, <1>4, <1>6, <2>3
  <2>4. CASE j \notin 1..m /\ k \in 1..m
    BY <1>1, <1>4, <1>6, <2>4
  <2>. QED BY <2>1, <2>2, <2>3, <2>4
<1>. QED BY <1>1, <1>5, <1>6 DEF NoRepeat, t

\* What InOrder gives has the elements of the set, each once.
LEMMA InOrderFacts ==
    ASSUME NEW S \in SUBSET Nat, IsFiniteSet(S), NEW q \in InOrder(S)
    PROVE  q \in Seq(S) /\ Elements(q) = S /\ NoRepeat(q)
<1>. DEFINE n == Cardinality(S)
<1>1. n \in Nat
  BY FS_CardinalityType
<1>2. q \in [1..n -> S] /\ \A j, k \in 1..n : j < k => q[j] < q[k]
  <2>1. q \in [1..n -> S] /\ \A j, k \in DOMAIN q : j < k => q[j] < q[k]
    BY DEF InOrder
  <2>. QED BY <2>1
<1>. HIDE DEF n
<1>3. q \in Seq(S) /\ Len(q) = n
  BY <1>1, <1>2
<1>4. \A j, k \in 1..n : q[j] = q[k] => j = k
  <2>1. SUFFICES ASSUME NEW j \in 1..n, NEW k \in 1..n, q[j] = q[k], j # k PROVE FALSE
    OBVIOUS
  <2>2. j < k \/ k < j
    BY <1>1, <2>1
  <2>3. q[j] \in Nat
    BY <1>2
  <2>. QED BY <1>2, <2>1, <2>2, <2>3
<1>5. q \in Injection(1..n, S)
  BY <1>2, <1>4 DEF Injection, IsInjective
<1>6. Cardinality(1..n) = n
  BY <1>1, FS_Interval
<1>7. q \in Surjection(1..n, S)
  <2>1. q \in Injection(1..n, S) => (Cardinality(1..n) = n <=> q \in Surjection(1..n, S))
    BY FS_Injection, Zenon DEF n
  <2>. QED BY <1>5, <1>6, <2>1
<1>8. Elements(q) = S
  BY <1>2, <1>7 DEF Elements, Surjection
<1>. QED BY <1>3, <1>4, <1>8 DEF NoRepeat

-----------------------------------------------------------------------------
(* The algorithm.                                                          *)

Unsorted == Steps \ Elements(sorted)
Sorting == {"sort", "ok", "cycle"}

Typed ==
    /\ plan \in Seq(Seq(Nat)) /\ ready \in Seq(Steps) /\ sorted \in Seq(Steps)
    /\ degree \in [Steps -> Nat]
    /\ stage \in {"form", "count", "sort"} \cup Outcomes

Closed == \A i \in Steps : Elements(plan[i]) \subseteq Steps

\* The in-degree of a step counts the places of its list that name a step not
\* yet sorted; the steps that have none of these are sorted or ready.
Counted == \A d \in Steps : degree[d] = Cardinality(Mentions(d, Unsorted))
Waiting ==
    \A d \in Steps : d \in Elements(ready) \cup Elements(sorted) <=> Mentions(d, Unsorted) = {}

Once ==
    /\ NoRepeat(ready) /\ NoRepeat(sorted)
    /\ Elements(ready) \cap Elements(sorted) = {}

\* Of steps that wait for each other none is ever sorted.
KnotsStay == \A S \in SUBSET Steps : Knot(S) => S \cap Elements(sorted) = {}

Verdict ==
    stage \in {"ok", "cycle"} => ready = <<>> /\ (stage = "ok" <=> Len(sorted) = Len(plan))

SortInv ==
    /\ Typed
    /\ stage \notin Sorting => ready = <<>> /\ sorted = <<>>
    /\ stage \in Sorting => Closed /\ Counted /\ Waiting /\ Once /\ KnotsStay
    /\ DependenciesComeFirst /\ Verdict

LEMMA ListFacts ==
    ASSUME plan \in Seq(Seq(Nat)), NEW d \in Steps
    PROVE  /\ Steps = 1..Len(plan) /\ Len(plan) \in Nat /\ IsFiniteSet(Steps)
           /\ plan[d] \in Seq(Nat) /\ DOMAIN plan[d] = 1..Len(plan[d])
           /\ \A U : Mentions(d, U) \subseteq DOMAIN plan[d] /\ IsFiniteSet(Mentions(d, U))
           /\ \A U : Cardinality(Mentions(d, U)) \in Nat
           /\ \A U : Cardinality(Mentions(d, U)) = 0 <=> Mentions(d, U) = {}
<1>1. Steps = 1..Len(plan) /\ Len(plan) \in Nat /\ plan[d] \in Seq(Nat)
  BY DEF Steps
<1>2. DOMAIN plan[d] = 1..Len(plan[d]) /\ Len(plan[d]) \in Nat
  BY <1>1
<1>3. IsFiniteSet(1..Len(plan)) /\ IsFiniteSet(1..Len(plan[d]))
  <2>1. 1 \in Int /\ Len(plan) \in Int /\ Len(plan[d]) \in Int
    BY <1>1, <1>2
  <2>. QED BY <2>1, FS_Interval
<1>4. ASSUME NEW U
      PROVE  Mentions(d, U) \subseteq DOMAIN plan[d] /\ IsFiniteSet(Mentions(d, U))
  <2>1. Mentions(d, U) \subseteq DOMAIN plan[d]
    BY DEF Mentions
  <2>. QED BY <2>1, <1>2, <1>3, FS_Subset
<1>. QED BY <1>1, <1>2, <1>3, <1>4, FS_CardinalityType, FS_EmptySet

\* Sorting x takes its places from the count; a dependent is freed just if no
\* other place is left.
LEMMA CountDown ==
    ASSUME plan \in Seq(Seq(Nat)), NEW d \in Steps, NEW U, NEW x \in U
    PROVE  /\ Cardinality(Mentions(d, U \ {x}))
                = Cardinality(Mentions(d, U)) - Cardinality(Mentions(d, {x}))
           /\ Cardinality(Mentions(d, U)) = Cardinality(Mentions(d, {x}))
                <=> Mentions(d, U \ {x}) = {}
           /\ Mentions(d, U) # {} /\ Mentions(d, U \ {x}) = {} => Mentions(d, {x}) # {}
<1>. DEFINE all == Mentions(d, U)
            gone == Mentions(d, {x})
            left == Mentions(d, U \ {x})
<1>1. left = all \ gone /\ all \cap gone = gone
  BY DEF Mentions
<1>2. /\ IsFiniteSet(all) /\ Cardinality(all) \in Nat /\ Cardinality(gone) \in Nat
      /\ Cardinality(left) \in Nat /\ (Cardinality(left) = 0 <=> left = {})
  BY ListFacts
<1>. HIDE DEF all, gone, left
<1>3. Cardinality(left) = Cardinality(all) - Cardinality(gone)
  BY <1>1, <1>2, FS_Difference
<1>4. all # {} /\ left = {} => gone # {}
  BY <1>1
<1>5. Cardinality(all) = Cardinality(gone) <=> left = {}
  BY <1>2, <1>3
<1>. QED BY <1>3, <1>4, <1>5 DEF all, gone, left

LEMMA CountSorts ==
    ASSUME SortInv, CountDependencies
    PROVE  SortInv'
<1>. DEFINE none == {i \in Steps : plan[i] = <<>>}
<1>1. Typed /\ ready = <<>> /\ sorted = <<>>
  BY DEF SortInv, CountDependencies, Sorting
<1>2. /\ stage = "count" /\ Closed
      /\ degree' = [i \in Steps |-> Len(plan[i])] /\ ready' \in InOrder(none)
      /\ stage' = "sort" /\ plan' = plan /\ sorted' = <<>> /\ Steps' = Steps
  BY <1>1 DEF CountDependencies, Closed, Steps
<1>3. Elements(sorted) = {} /\ Elements(sorted') = {}
  BY <1>1, <1>2 DEF Elements
<1>4. plan \in Seq(Seq(Nat)) /\ Unsorted' = Steps
  BY <1>1, <1>2, <1>3 DEF Typed, Unsorted, Steps
<1>5. Steps \subseteq Nat /\ IsFiniteSet(Steps)
  <2>1. Len(plan) \in Int /\ 1 \in Int /\ Steps = 1..Len(plan)
    BY <1>4 DEF Steps
  <2>. QED BY <2>1, FS_Interval
<1>6. none \subseteq Steps /\ none \in SUBSET Nat /\ IsFiniteSet(none)
  BY <1>5, FS_Subset
<1>7. ready' \in Seq(none) /\ Elements(ready') = none /\ NoRepeat(ready')
  BY <1>2, <1>6, InOrderFacts
<1>8. ready' \in Seq(Steps')
  BY <1>2, <1>6, <1>7
<1>9. ASSUME NEW d \in Steps
      PROVE  /\ Mentions(d, Steps) = DOMAIN plan[d]
             /\ Cardinality(Mentions(d, Steps)) = Len(plan[d]) /\ Len(plan[d]) \in Nat
             /\ d \in none <=> Mentions(d, Steps) = {}
  <2>1. plan[d] \in Seq(Nat) /\ DOMAIN plan[d] = 1..Len(plan[d]) /\ Len(plan[d]) \in Nat
    BY <1>4, ListFacts
  <2>2. \A k \in DOMAIN plan[d] : plan[d][k] \in Steps
    BY <1>2 DEF Closed, Elements
  <2>3. Mentions(d, Steps) = 1..Len(plan[d])
    BY <2>1, <2>2 DEF Mentions
  <2>4. Cardinality(1..Len(plan[d])) = Len(plan[d])
    <3>1. 1 \in Int /\ Len(plan[d]) \in Int
      BY <2>1
    <3>2. Cardinality(1..Len(plan[d])) = IF 1 > Len(plan[d]) THEN 0 ELSE Len(plan[d]) - 1 + 1
      BY <3>1, FS_Interval
    <3>. QED BY <2>1, <3>2
  <2>5. plan[d] = <<>> <=> Len(plan[d]) = 0
    BY <2>1, EmptySeq
  <2>6. 1..Len(plan[d]) = {} <=> Len(plan[d]) = 0
    <3>1. Len(plan[d]) # 0 => 1 \in 1..Len(plan[d])
      BY <2>1
    <3>2. Len(plan[d]) = 0 => 1..Len(plan[d]) = {}
      OBVIOUS
    <3>. QED BY <3>1, <3>2
  <2>. QED BY <2>1, <2>3, <2>4, <2>5, <2>6
<1>10. Typed'
  <2>1. degree' \in [Steps' -> Nat]
    BY <1>2, <1>9
  <2>2. sorted' \in Seq(Steps')
    BY <1>2
  <2>. QED BY <1>2, <1>4, <1>8, <2>1, <2>2 DEF Typed
<1>11. Closed'
  BY <1>2 DEF Closed, Elements
<1>12. Counted'
  <2>1. \A d \in Steps : degree'[d] = Cardinality(Mentions(d, Steps))
    BY <1>2, <1>9
  <2>. QED BY <2>1, <1>2, <1>4 DEF Counted, Mentions
<1>13. Waiting'
  <2>1. \A d \in Steps : d \in Elements(ready') \cup Elements(sorted')
                           <=> Mentions(d, Steps) = {}
    BY <1>3, <1>7, <1>9
  <2>. QED BY <2>1, <1>2, <1>4 DEF Waiting, Mentions, Elements
<1>14. Once'
  <2>1. NoRepeat(sorted') /\ Elements(ready') \cap Elements(sorted') = {}
    BY <1>2, <1>3 DEF NoRepeat
  <2>. QED BY <2>1, <1>7 DEF Once, NoRepeat, Elements
<1>15. KnotsStay'
  BY <1>3 DEF KnotsStay, Elements
<1>16. DependenciesComeFirst' /\ Verdict'
  BY <1>2 DEF DependenciesComeFirst, Verdict
<1>. QED BY <1>2, <1>10, <1>11, <1>12, <1>13, <1>14, <1>15, <1>16 DEF SortInv, Sorting

LEMMA PopSorts ==
    ASSUME SortInv, Pop
    PROVE  SortInv'
<1>. DEFINE x == Top
            front == SubSeq(ready, 1, Len(ready) - 1)
            U == Unsorted
            V == Unsorted \ {Top}
<1>1. /\ Typed /\ Closed /\ Counted /\ Waiting /\ Once /\ KnotsStay /\ DependenciesComeFirst
      /\ stage = "sort" /\ ready # <<>>
  BY DEF SortInv, Pop, Sorting
<1>2. /\ sorted' = Append(sorted, x) /\ degree' = CountedDown(x)
      /\ plan' = plan /\ stage' = "sort" /\ Steps' = Steps
  BY <1>1 DEF Pop, Steps
<1>3. PICK freed \in InOrder(Freed(x)) : ready' = front \o freed
  BY DEF Pop
<1>4. /\ plan \in Seq(Seq(Nat)) /\ ready \in Seq(Steps) /\ sorted \in Seq(Steps)
      /\ degree \in [Steps -> Nat]
  BY <1>1 DEF Typed
<1>5. /\ x \in Elements(ready) /\ front \in Seq(Steps) /\ NoRepeat(front)
      /\ Elements(front) = Elements(ready) \ {x}
  BY <1>1, <1>4, FrontFacts DEF Once, Top
<1>. HIDE DEF x, front
<1>6. x \in Steps /\ x \notin Elements(sorted) /\ x \in U
  BY <1>1, <1>4, <1>5, ElementFacts DEF Once, Unsorted
<1>7. Mentions(x, U) = {}
  BY <1>1, <1>5, <1>6 DEF Waiting
<1>8. /\ sorted' \in Seq(Steps) /\ Elements(sorted') = Elements(sorted) \cup {x}
      /\ NoRepeat(sorted') /\ Len(sorted') = Len(sorted) + 1 /\ sorted'[Len(sorted) + 1] = x
      /\ \A k \in 1..Len(sorted) : sorted'[k] = sorted[k]
  BY <1>1, <1>2, <1>4, <1>6, AppendFacts DEF Once
<1>9. Unsorted' = V
  BY <1>2, <1>8 DEF Unsorted, x, Elements
<1>10. ASSUME NEW d \in Steps
       PROVE  /\ Cardinality(Mentions(d, V))
                   = Cardinality(Mentions(d, U)) - Cardinality(Mentions(d, {x}))
              /\ Cardinality(Mentions(d, U)) = Cardinality(Mentions(d, {x}))
                   <=> Mentions(d, V) = {}
              /\ Mentions(d, U) # {} /\ Mentions(d, V) = {} => Mentions(d, {x}) # {}
  BY <1>4, <1>6, CountDown DEF x
<1>11. \A d \in Steps : /\ d \in Freed(x) <=> Mentions(d, U) # {} /\ Mentions(d, V) = {}
                        /\ Mentions(d, U) = {} => Mentions(d, V) = {}
  <2>1. ASSUME NEW d \in Steps
        PROVE  /\ Mentions(d, {x}) \subseteq Mentions(d, U)
               /\ Mentions(d, V) \subseteq Mentions(d, U)
    BY <1>6 DEF Mentions
  <2>2. \A d \in Steps : degree[d] = Cardinality(Mentions(d, U))
    BY <1>1 DEF Counted
  <2>. QED BY <1>10, <2>1, <2>2 DEF Freed
<1>12. Freed(x) \subseteq Steps /\ Freed(x) \in SUBSET Nat /\ IsFiniteSet(Freed(x))
  <2>1. Freed(x) \subseteq Steps
    BY DEF Freed
  <2>2. Steps \subseteq Nat /\ IsFiniteSet(Steps)
    BY <1>4, <1>6, ListFacts
  <2>. QED BY <2>1, <2>2, FS_Subset
<1>13. freed \in Seq(Steps) /\ Elements(freed) = Freed(x) /\ NoRepeat(freed)
  <2>1. freed \in Seq(Freed(x)) /\ Elements(freed) = Freed(x) /\ NoRepeat(freed)
    BY <1>12, InOrderFacts
  <2>. QED BY <2>1, <1>12
<1>14. Elements(front) \cap Elements(freed) = {}
  BY <1>1, <1>5, <1>11, <1>12, <1>13 DEF Waiting
<1>15. /\ ready' \in Seq(Steps) /\ NoRepeat(ready')
       /\ Elements(ready') = (Elements(ready) \ {x}) \cup Freed(x)
  BY <1>3, <1>5, <1>13, <1>14, JoinFacts
<1>16. Typed'
  <2>1. degree' \in [Steps -> Nat]
    <3>1. ASSUME NEW d \in Steps
          PROVE  degree[d] - Cardinality(Mentions(d, {x})) \in Nat
      <4>1. degree[d] = Cardinality(Mentions(d, U))
        BY <1>1 DEF Counted
      <4>2. Cardinality(Mentions(d, V)) \in Nat
        BY <1>4, ListFacts
      <4>. QED BY <1>10, <4>1, <4>2
    <3>. QED BY <1>2, <3>1 DEF CountedDown
  <2>. QED BY <1>2, <1>4, <1>8, <1>15, <2>1 DEF Typed
<1>17. Counted'
  <2>1. \A d \in Steps : degree'[d] = Cardinality(Mentions(d, V))
    BY <1>1, <1>2, <1>10 DEF Counted, CountedDown
  <2>. QED BY <2>1, <1>2, <1>9 DEF Counted, Mentions
<1>18. Waiting'
  <2>1. \A d \in Steps : d \in Elements(ready') \cup Elements(sorted')
                           <=> Mentions(d, V) = {}
    BY <1>1, <1>5, <1>8, <1>11, <1>15 DEF Waiting
  <2>. QED BY <2>1, <1>2, <1>9 DEF Waiting, Mentions, Elements
<1>19. Once'
  <2>1. Elements(ready') \cap Elements(sorted') = {}
    <3>1. x \notin Freed(x)
      BY <1>6, <1>7, <1>11
    <3>2. Freed(x) \cap Elements(sorted) = {}
      BY <1>1, <1>11, <1>12 DEF Waiting
    <3>. QED BY <1>1, <1>8, <1>15, <3>1, <3>2 DEF Once
  <2>. QED BY <2>1, <1>8, <1>15 DEF Once, NoRepeat, Elements
<1>20. Elements(plan[x]) \subseteq Elements(sorted)
  <2>1. Elements(plan[x]) \subseteq Steps
    BY <1>1, <1>6 DEF Closed
  <2>. QED BY <2>1, <1>7 DEF Elements, Mentions, Unsorted
<1>21. DependenciesComeFirst'
  <2>. DEFINE n == Len(sorted)
  <2>1. n \in Nat /\ DOMAIN sorted = 1..n /\ Elements(sorted) = {sorted[j] : j \in 1..n}
    BY <1>4, ElementFacts
  <2>2. DOMAIN sorted' = 1..(n + 1)
    BY <1>8
  <2>. HIDE DEF n
  <2>3. ASSUME NEW k \in 1..(n + 1)
        PROVE  Elements(plan[sorted'[k]]) \subseteq {sorted'[j] : j \in 1..(k - 1)}
    <3>1. CASE k = n + 1
      <4>1. \A j \in 1..n : j \in 1..(k - 1) /\ sorted'[j] = sorted[j]
        BY <1>8, <2>1, <3>1 DEF n
      <4>2. sorted'[k] = x
        BY <1>8, <3>1 DEF n
      <4>. QED BY <1>20, <2>1, <4>1, <4>2
    <3>2. CASE k # n + 1
      <4>1. k \in 1..n /\ sorted'[k] = sorted[k]
        BY <1>8, <2>1, <3>2 DEF n
      <4>2. \A j \in 1..(k - 1) : sorted'[j] = sorted[j]
        BY <1>8, <2>1, <4>1 DEF n
      <4>3. Elements(plan[sorted[k]]) \subseteq {sorted[j] : j \in 1..(k - 1)}
        BY <1>1, <2>1, <4>1 DEF DependenciesComeFirst
      <4>. QED BY <4>1, <4>2, <4>3
    <3>. QED BY <3>1, <3>2
  <2>. QED BY <1>2, <2>2, <2>3 DEF DependenciesComeFirst, Elements
<1>22. KnotsStay'
  <2>1. ASSUME NEW S \in SUBSET Steps, Knot(S)
        PROVE  S \cap Elements(sorted') = {}
    <3>1. S \cap Elements(sorted) = {}
      BY <1>1, <2>1 DEF KnotsStay
    <3>2. x \notin S
      BY <1>20, <2>1, <3>1 DEF Knot
    <3>. QED BY <1>8, <3>1, <3>2
  <2>2. ASSUME NEW S PROVE Knot(S)' => Knot(S)
    BY <1>2 DEF Knot, Elements
  <2>. QED BY <1>2, <2>1, <2>2 DEF KnotsStay, Elements
<1>23. Closed' /\ Verdict'
  BY <1>1, <1>2 DEF Closed, Verdict, Elements
<1>. QED BY <1>2, <1>16, <1>17, <1>18, <1>19, <1>21, <1>22, <1>23 DEF SortInv, Sorting

\* What is said of the plan, the count and the order stays true with them.
LEMMA StaysTrue ==
    ASSUME plan' = plan, degree' = degree, ready' = ready, sorted' = sorted
    PROVE  /\ Steps' = Steps
           /\ Closed => Closed'
           /\ Counted => Counted'
           /\ Waiting => Waiting'
           /\ Once => Once'
           /\ KnotsStay => KnotsStay'
           /\ DependenciesComeFirst => DependenciesComeFirst'
<1>1. Steps' = Steps /\ Unsorted' = Unsorted
  BY DEF Steps, Unsorted, Elements
<1>2. Closed => Closed'
  BY DEF Closed, Steps, Elements
<1>3. Counted => Counted'
  BY <1>1 DEF Counted, Mentions
<1>4. Waiting => Waiting'
  BY <1>1 DEF Waiting, Mentions, Elements
<1>5. Once => Once'
  BY DEF Once, NoRepeat, Elements
<1>6. KnotsStay => KnotsStay'
  <2>1. \A S : Knot(S) <=> Knot(S)'
    BY DEF Knot, Elements
  <2>. QED BY <1>1, <2>1 DEF KnotsStay, Elements
<1>7. DependenciesComeFirst => DependenciesComeFirst'
  BY DEF DependenciesComeFirst, Elements
<1>. QED BY <1>1, <1>2, <1>3, <1>4, <1>5, <1>6, <1>7

LEMMA FinishSorts ==
    ASSUME SortInv, Finish
    PROVE  SortInv'
<1>1. /\ Typed /\ Closed /\ Counted /\ Waiting /\ Once /\ KnotsStay /\ DependenciesComeFirst
      /\ stage = "sort" /\ ready = <<>>
  BY DEF SortInv, Finish, Sorting
<1>2. /\ plan' = plan /\ degree' = degree /\ ready' = ready /\ sorted' = sorted
      /\ Steps' = Steps
      /\ stage' \in {"ok", "cycle"} /\ (stage' = "ok" <=> Len(sorted) = Len(plan))
  BY DEF Finish, Steps
<1>3. Typed'
  BY <1>1, <1>2 DEF Typed, Outcomes
<1>4. Closed' /\ Counted' /\ Waiting' /\ Once' /\ KnotsStay' /\ DependenciesComeFirst'
  BY <1>1, <1>2, StaysTrue
<1>5. Verdict'
  BY <1>1, <1>2 DEF Verdict
<1>. QED BY <1>2, <1>3, <1>4, <1>5 DEF SortInv, Sorting

LEMMA UnknownSorts ==
    ASSUME SortInv, UnknownDependency
    PROVE  SortInv'
<1>1. Typed /\ ready = <<>> /\ sorted = <<>> /\ DependenciesComeFirst
  BY DEF SortInv, UnknownDependency, Sorting
<1>2. /\ plan' = plan /\ degree' = degree /\ ready' = ready /\ sorted' = sorted
      /\ Steps' = Steps /\ stage' = "unknown"
  BY DEF UnknownDependency, Steps
<1>3. Typed'
  BY <1>1, <1>2 DEF Typed, Outcomes
<1>4. DependenciesComeFirst' /\ Verdict'
  BY <1>1, <1>2 DEF DependenciesComeFirst, Verdict, Elements
<1>. QED BY <1>1, <1>2, <1>3, <1>4 DEF SortInv, Sorting

\* Steps that leave the sort alone.
LEMMA SortAlone ==
    ASSUME SortInv, UNCHANGED vars
    PROVE  SortInv'
<1>1. plan' = plan /\ degree' = degree /\ ready' = ready /\ sorted' = sorted /\ stage' = stage
  BY DEF vars
<1>2. Typed' /\ Verdict'
  BY <1>1, StaysTrue DEF SortInv, Typed, Verdict
<1>3. DependenciesComeFirst'
  BY <1>1, StaysTrue DEF SortInv
<1>4. stage \in Sorting => Closed' /\ Counted' /\ Waiting' /\ Once' /\ KnotsStay'
  BY <1>1, StaysTrue DEF SortInv
<1>. QED BY <1>1, <1>2, <1>3, <1>4 DEF SortInv

\* Whoever is given an order has every step in it, each once; and just the
\* plans with steps that wait for each other are refused.
LEMMA SortInvSays == SortInv => SortedOrRefused
<1>1. SUFFICES ASSUME SortInv, stage \in {"ok", "cycle"}
               PROVE  /\ stage = "cycle" <=> \E S \in SUBSET Steps : Knot(S)
                      /\ stage = "ok" => Len(sorted) = Len(plan) /\ Elements(sorted) = Steps
  BY DEF SortedOrRefused
<1>2. /\ Typed /\ Waiting /\ Once /\ KnotsStay
      /\ ready = <<>> /\ (stage = "ok" <=> Len(sorted) = Len(plan))
  BY <1>1 DEF SortInv, Sorting, Verdict
<1>. DEFINE n == Len(sorted)
            m == Len(plan)
<1>3. /\ plan \in Seq(Seq(Nat)) /\ Steps = 1..m /\ m \in Nat /\ n \in Nat
      /\ sorted \in [1..n -> Steps] /\ Elements(sorted) = {sorted[k] : k \in 1..n}
  <2>1. plan \in Seq(Seq(Nat)) /\ sorted \in Seq(Steps)
    BY <1>2 DEF Typed
  <2>2. Steps = 1..m /\ m \in Nat
    BY <2>1 DEF Steps
  <2>3. sorted \in [1..n -> Steps]
    BY <2>1
  <2>. QED BY <2>1, <2>2, <2>3, ElementFacts
<1>4. sorted \in Injection(1..n, Steps)
  BY <1>2, <1>3 DEF Once, NoRepeat, Injection, IsInjective
<1>5. IsFiniteSet(Steps) /\ Cardinality(Steps) = m /\ Cardinality(1..n) = n
  <2>1. 1 \in Int /\ m \in Int /\ n \in Int
    BY <1>3
  <2>2. IsFiniteSet(1..m) /\ Cardinality(1..m) = (IF 1 > m THEN 0 ELSE m - 1 + 1)
    BY <2>1, FS_Interval
  <2>3. Cardinality(1..n) = (IF 1 > n THEN 0 ELSE n - 1 + 1)
    BY <2>1, FS_Interval
  <2>. QED BY <1>3, <2>2, <2>3
<1>6. n = m <=> Elements(sorted) = Steps
  <2>1. Cardinality(1..n) = Cardinality(Steps) <=> sorted \in Surjection(1..n, Steps)
    BY <1>4, <1>5, FS_Injection
  <2>2. sorted \in Surjection(1..n, Steps) <=> Elements(sorted) = Steps
    BY <1>3 DEF Surjection
  <2>. QED BY <1>5, <2>1, <2>2
<1>7. ASSUME NEW S \in SUBSET Steps, Knot(S)
      PROVE  stage = "cycle"
  BY <1>1, <1>2, <1>6, <1>7 DEF KnotsStay, Knot
<1>8. ASSUME stage = "cycle"
      PROVE  Unsorted \in SUBSET Steps /\ Knot(Unsorted)
  <2>1. Unsorted \subseteq Steps /\ Unsorted # {}
    BY <1>2, <1>3, <1>6, <1>8 DEF Unsorted
  <2>2. Elements(ready) = {}
    BY <1>2 DEF Elements
  <2>3. ASSUME NEW d \in Unsorted
        PROVE  Elements(plan[d]) \cap Unsorted # {}
    <3>1. Mentions(d, Unsorted) # {}
      BY <1>2, <2>1, <2>2, <2>3 DEF Waiting, Unsorted
    <3>. QED BY <3>1 DEF Mentions, Elements
  <2>. QED BY <2>1, <2>3 DEF Knot
<1>. QED BY <1>1, <1>2, <1>6, <1>7, <1>8

-----------------------------------------------------------------------------
(* The wizard.                                                             *)

FormSet == [name : W!Texts, version : {"default", "bad"}, cni : W!Cnis,
            pod : {DefaultPod} \cup PodTexts, service : {DefaultService} \cup ServiceTexts,
            workers : 0..MaxWorkers, ingress : W!Ingresses, extras : W!Extras]

\* A created spec is made of a form, and validate has found nothing in it.
MadeOfForms == \A s \in created : W!Valid(s) /\ \E f \in FormSet : s = W!ToSpec(f)

OneCreated == \A s, t \in created : s = t

FormInv == W!TypeOK /\ MadeOfForms /\ OneCreated

LEMMA FreshIsForm == W!Fresh \in FormSet
<1>1. W!NoExtras \in W!Extras
  BY PlanningAssumption DEF W!NoExtras, W!Extras, W!Names
<1>. QED BY <1>1, PlanningAssumption
         DEF W!Fresh, FormSet, W!Texts, W!Names, W!Cnis, W!Ingresses

LEMMA FormKept ==
    ASSUME W!TypeOK, W!Next
    PROVE  form' \in FormSet
<1>1. form \in FormSet /\ form.extras \in W!Extras
  BY DEF W!TypeOK, FormSet
<1>2. CASE W!Type
  BY <1>1, <1>2 DEF W!Type, W!Enter, FormSet
<1>3. CASE W!PickCni \/ W!PickIngress
  BY <1>1, <1>3 DEF W!PickCni, W!PickIngress, W!Enter, FormSet
<1>4. ASSUME NEW e \in W!Extras, form' = [form EXCEPT !["extras"] = e]
      PROVE  form' \in FormSet
  BY <1>1, <1>4 DEF FormSet
<1>5. CASE W!Tick
  <2>1. PICK box \in {"gateway", "hubble", "ingress"} :
          form' = [form EXCEPT !["extras"] = [form.extras EXCEPT ![box] = ~form.extras[box]]]
    BY <1>5 DEF W!Tick, W!Enter
  <2>2. [form.extras EXCEPT ![box] = ~form.extras[box]] \in W!Extras
    BY <1>1 DEF W!Extras
  <2>. QED BY <1>4, <2>1, <2>2
<1>6. CASE W!TickMesh
  <2>1. form' = [form EXCEPT !["extras"] =
                   [form.extras EXCEPT !.mesh = ~@, !.id = IF @ = 0 THEN 1 ELSE @]]
    BY <1>6 DEF W!TickMesh, W!Enter
  <2>2. [form.extras EXCEPT !.mesh = ~@, !.id = IF @ = 0 THEN 1 ELSE @] \in W!Extras
    <3>1. form.extras.id \in 0..MaxClusterId /\ (~form.extras.mesh) \in BOOLEAN
      BY <1>1 DEF W!Extras
    <3>2. (IF form.extras.id = 0 THEN 1 ELSE form.extras.id) \in 0..MaxClusterId
      BY <3>1, PlanningAssumption
    <3>3. ASSUME NEW b \in BOOLEAN, NEW i \in 0..MaxClusterId
          PROVE  [form.extras EXCEPT !.mesh = b, !.id = i] \in W!Extras
      BY <1>1 DEF W!Extras
    <3>. QED BY <3>1, <3>2, <3>3
  <2>. QED BY <1>4, <2>1, <2>2
<1>7. CASE W!EnterMesh
  <2>1. \/ \E n \in W!Names : form' = [form EXCEPT !["extras"] = [form.extras EXCEPT !.name = n]]
        \/ \E i \in 1..MaxClusterId :
             form' = [form EXCEPT !["extras"] = [form.extras EXCEPT !.id = i]]
    BY <1>7 DEF W!EnterMesh, W!Enter
  <2>2. ASSUME NEW n \in W!Names PROVE [form.extras EXCEPT !.name = n] \in W!Extras
    BY <1>1 DEF W!Extras
  <2>3. ASSUME NEW i \in 1..MaxClusterId PROVE [form.extras EXCEPT !.id = i] \in W!Extras
    <3>1. i \in 0..MaxClusterId
      BY PlanningAssumption
    <3>. QED BY <1>1, <3>1 DEF W!Extras
  <2>. QED BY <1>4, <2>1, <2>2, <2>3
<1>8. CASE W!Open \/ W!Create \/ W!Cancel
  BY <1>1, <1>8, FreshIsForm DEF W!Open, W!Create, W!Cancel
<1>. QED BY <1>2, <1>3, <1>5, <1>6, <1>7, <1>8 DEF W!Next, W!Edit

LEMMA FormStep ==
    ASSUME FormInv, W!Next
    PROVE  FormInv'
<1>1. form \in FormSet /\ form' \in FormSet /\ open \in BOOLEAN
  BY FormKept DEF FormInv, W!TypeOK, FormSet
<1>2. /\ open' \in BOOLEAN
      /\ \/ created' = created
         \/ created' = {W!ToSpec(form)} /\ W!Valid(W!ToSpec(form))
  <2>1. CASE W!Edit
    <3>1. open' = open /\ created' = created
      BY <2>1 DEF W!Edit, W!Type, W!Enter, W!PickCni, W!PickIngress, W!Tick, W!TickMesh, W!EnterMesh
    <3>. QED BY <1>1, <3>1
  <2>2. CASE W!Open \/ W!Cancel
    BY <2>2 DEF W!Open, W!Cancel
  <2>3. CASE W!Create
    BY <2>3 DEF W!Create, W!Enabled
  <2>. QED BY <2>1, <2>2, <2>3 DEF W!Next
<1>3. MadeOfForms' /\ OneCreated'
  BY <1>1, <1>2 DEF FormInv, MadeOfForms, OneCreated
<1>4. W!TypeOK'
  BY <1>1, <1>2, <1>3 DEF W!TypeOK, FormSet, MadeOfForms
<1>. QED BY <1>3, <1>4 DEF FormInv

LEMMA FormAlone ==
    ASSUME FormInv, UNCHANGED wizard
    PROVE  FormInv'
BY DEF FormInv, wizard, W!TypeOK, MadeOfForms, OneCreated

-----------------------------------------------------------------------------
(* A created plan: every step depends on the one before it.                *)

StepNames == {"write-kind-config", "kind-create", "merge-kubeconfig", "cni-flannel-download",
              "cni-flannel-patch", "cni-flannel-apply", "cni-calico-operator-download",
              "cni-calico-operator-apply", "cni-calico-operator-wait-crds",
              "cni-calico-cr-write", "cni-calico-cr-apply", "cilium-gateway-crds-download",
              "cilium-gateway-crds-apply", "cni-cilium-install", "cilium-hubble-enable",
              "cilium-clustermesh-enable", "ingress-nginx-download", "ingress-nginx-apply",
              "traefik-repo-add", "traefik-install", "final-verify"}
StepKinds == {"write", "command", "download", "patch", "apply", "wait"}
StepPaths == {"none", "config", "flannel", "patched", "operator", "cr", "gateway", "nginx"}
StepSet == [id : StepNames, do : StepKinds, path : StepPaths, verify : BOOLEAN]

\* A part of a plan with steps of these names.
Part(q, names) == q \in Seq(StepSet) /\ Ids(q) = names

LEMMA JoinedParts ==
    ASSUME NEW p, NEW q, NEW M, NEW N, Part(p, M), Part(q, N)
    PROVE  Part(p \o q, M \cup N)
<1>1. p \in Seq(StepSet) /\ q \in Seq(StepSet)
  BY DEF Part
<1>2. p \o q \in Seq(StepSet) /\ Elements(p \o q) = Elements(p) \cup Elements(q)
  BY <1>1, JoinFacts
<1>3. \A t : Ids(t) = {e.id : e \in Elements(t)}
  BY DEF Ids, Elements
<1>. QED BY <1>2, <1>3 DEF Part

LEMMA NoPart == Part(<<>>, {})
BY DEF Part, Ids

LEMMA PartOfTuple ==
    ASSUME NEW a \in StepSet
    PROVE  /\ Part(<<a>>, {a.id})
           /\ \A b \in StepSet : Part(<<a, b>>, {a.id, b.id})
           /\ \A b, c \in StepSet : Part(<<a, b, c>>, {a.id, b.id, c.id})
           /\ \A b, c, d, e \in StepSet :
                Part(<<a, b, c, d, e>>, {a.id, b.id, c.id, d.id, e.id})
<1>1. Part(<<a>>, {a.id})
  BY DEF Part, Ids
<1>2. ASSUME NEW b \in StepSet PROVE Part(<<a, b>>, {a.id, b.id})
  <2>1. DOMAIN <<a, b>> = {1, 2}
    OBVIOUS
  <2>. QED BY <2>1 DEF Part, Ids
<1>3. ASSUME NEW b \in StepSet, NEW c \in StepSet PROVE Part(<<a, b, c>>, {a.id, b.id, c.id})
  <2>1. DOMAIN <<a, b, c>> = {1, 2, 3}
    OBVIOUS
  <2>. QED BY <2>1 DEF Part, Ids
<1>4. ASSUME NEW b \in StepSet, NEW c \in StepSet, NEW d \in StepSet, NEW e \in StepSet
      PROVE  Part(<<a, b, c, d, e>>, {a.id, b.id, c.id, d.id, e.id})
  <2>1. DOMAIN <<a, b, c, d, e>> = {1, 2, 3, 4, 5}
    OBVIOUS
  <2>. QED BY <2>1 DEF Part, Ids
<1>. QED BY <1>1, <1>2, <1>3, <1>4

LEMMA StepFields ==
    ASSUME NEW id \in StepNames, NEW do \in StepKinds, NEW path \in StepPaths,
           NEW verify \in BOOLEAN
    PROVE  Step(id, do, path, verify) \in StepSet /\ Step(id, do, path, verify).id = id
BY DEF Step, StepSet

LEMMA OneStep ==
    ASSUME NEW id \in StepNames, NEW do \in StepKinds, NEW path \in StepPaths,
           NEW verify \in BOOLEAN
    PROVE  Part(<<Step(id, do, path, verify)>>, {id})
BY StepFields, PartOfTuple

LEMMA TwoSteps ==
    ASSUME NEW i \in StepNames, NEW j \in StepNames, NEW do \in StepKinds, NEW did \in StepKinds,
           NEW path \in StepPaths, NEW way \in StepPaths, NEW v \in BOOLEAN, NEW w \in BOOLEAN
    PROVE  Part(<<Step(i, do, path, v), Step(j, did, way, w)>>, {i, j})
<1>1. /\ Step(i, do, path, v) \in StepSet /\ Step(i, do, path, v).id = i
      /\ Step(j, did, way, w) \in StepSet /\ Step(j, did, way, w).id = j
  BY StepFields
<1>. QED BY <1>1, PartOfTuple

LEMMA OptionalPart ==
    ASSUME NEW condition, NEW q, NEW N, Part(q, N)
    PROVE  Part(Optional(condition, q), IF condition THEN N ELSE {})
BY NoPart DEF Optional

LEMMA CreatePart == Part(CreateSteps, {"write-kind-config", "kind-create", "merge-kubeconfig"})
<1>. DEFINE a == Step("write-kind-config", "write", "config", FALSE)
            b == Step("kind-create", "command", "config", FALSE)
            c == Step("merge-kubeconfig", "command", "none", FALSE)
<1>1. a \in StepSet /\ a.id = "write-kind-config"
  BY DEF Step, StepSet, StepNames, StepKinds, StepPaths
<1>2. b \in StepSet /\ b.id = "kind-create"
  BY DEF Step, StepSet, StepNames, StepKinds, StepPaths
<1>3. c \in StepSet /\ c.id = "merge-kubeconfig"
  BY DEF Step, StepSet, StepNames, StepKinds, StepPaths
<1>4. CreateSteps = <<a, b, c>>
  BY DEF CreateSteps
<1>. HIDE DEF a, b, c
<1>. QED BY <1>1, <1>2, <1>3, <1>4, PartOfTuple

LEMMA FlannelPart ==
    ASSUME NEW s
    PROVE  Part(FlannelSteps(s), {"cni-flannel-download", "cni-flannel-apply"}
                                 \cup (IF s.ownCidr THEN {"cni-flannel-patch"} ELSE {}))
<1>. DEFINE path == IF s.ownCidr THEN "patched" ELSE "flannel"
            a == <<Step("cni-flannel-download", "download", "flannel", FALSE)>>
            b == Optional(s.ownCidr, <<Step("cni-flannel-patch", "patch", "patched", FALSE)>>)
            c == <<Step("cni-flannel-apply", "apply", path, TRUE)>>
            B == IF s.ownCidr THEN {"cni-flannel-patch"} ELSE {}
<1>1. path \in StepPaths
  BY DEF StepPaths
<1>2. /\ Part(a, {"cni-flannel-download"}) /\ Part(c, {"cni-flannel-apply"})
      /\ Part(<<Step("cni-flannel-patch", "patch", "patched", FALSE)>>, {"cni-flannel-patch"})
  BY <1>1, OneStep DEF StepNames, StepKinds, StepPaths
<1>3. Part(b, B)
  BY <1>2, OptionalPart
<1>4. FlannelSteps(s) = (a \o b) \o c
  BY DEF FlannelSteps
<1>. HIDE DEF a, b, c, B
<1>5. Part((a \o b) \o c, ({"cni-flannel-download"} \cup B) \cup {"cni-flannel-apply"})
  BY <1>2, <1>3, JoinedParts
<1>6. ({"cni-flannel-download"} \cup B) \cup {"cni-flannel-apply"}
        = {"cni-flannel-download", "cni-flannel-apply"} \cup B
  OBVIOUS
<1>. QED BY <1>4, <1>5, <1>6 DEF B

CalicoNames == {"cni-calico-operator-download", "cni-calico-operator-apply",
                "cni-calico-operator-wait-crds", "cni-calico-cr-write", "cni-calico-cr-apply"}

LEMMA CalicoPart == Part(CalicoSteps, CalicoNames)
<1>. DEFINE a == Step("cni-calico-operator-download", "download", "operator", FALSE)
            b == Step("cni-calico-operator-apply", "apply", "operator", FALSE)
            c == Step("cni-calico-operator-wait-crds", "wait", "none", FALSE)
            d == Step("cni-calico-cr-write", "write", "cr", FALSE)
            e == Step("cni-calico-cr-apply", "apply", "cr", TRUE)
<1>1. /\ a \in StepSet /\ a.id = "cni-calico-operator-download"
      /\ b \in StepSet /\ b.id = "cni-calico-operator-apply"
  <2>1. a \in StepSet /\ a.id = "cni-calico-operator-download"
    BY DEF Step, StepSet, StepNames, StepKinds, StepPaths
  <2>2. b \in StepSet /\ b.id = "cni-calico-operator-apply"
    BY DEF Step, StepSet, StepNames, StepKinds, StepPaths
  <2>. QED BY <2>1, <2>2
<1>2. /\ c \in StepSet /\ c.id = "cni-calico-operator-wait-crds"
      /\ d \in StepSet /\ d.id = "cni-calico-cr-write"
      /\ e \in StepSet /\ e.id = "cni-calico-cr-apply"
  <2>1. c \in StepSet /\ c.id = "cni-calico-operator-wait-crds"
    BY DEF Step, StepSet, StepNames, StepKinds, StepPaths
  <2>2. d \in StepSet /\ d.id = "cni-calico-cr-write"
    BY DEF Step, StepSet, StepNames, StepKinds, StepPaths
  <2>3. e \in StepSet /\ e.id = "cni-calico-cr-apply"
    BY DEF Step, StepSet, StepNames, StepKinds, StepPaths
  <2>. QED BY <2>1, <2>2, <2>3
<1>3. CalicoSteps = <<a, b, c, d, e>>
  BY DEF CalicoSteps
<1>. HIDE DEF a, b, c, d, e
<1>4. Part(CalicoSteps, {a.id, b.id, c.id, d.id, e.id})
  BY <1>1, <1>2, <1>3, PartOfTuple
<1>. QED BY <1>1, <1>2, <1>4 DEF CalicoNames

CiliumNames(s) ==
    {"cni-cilium-install"}
    \cup (IF s.gateway THEN {"cilium-gateway-crds-download", "cilium-gateway-crds-apply"} ELSE {})
    \cup (IF s.hubble THEN {"cilium-hubble-enable"} ELSE {})
    \cup (IF s.mesh THEN {"cilium-clustermesh-enable"} ELSE {})

LEMMA CiliumPart == ASSUME NEW s PROVE Part(CiliumSteps(s), CiliumNames(s))
<1>. DEFINE gate == <<Step("cilium-gateway-crds-download", "download", "gateway", FALSE),
                      Step("cilium-gateway-crds-apply", "apply", "gateway", FALSE)>>
            install == <<Step("cni-cilium-install", "command", "none", TRUE)>>
            hubble == <<Step("cilium-hubble-enable", "command", "none", FALSE)>>
            mesh == <<Step("cilium-clustermesh-enable", "command", "none", FALSE)>>
            G == IF s.gateway THEN {"cilium-gateway-crds-download", "cilium-gateway-crds-apply"}
                 ELSE {}
            H == IF s.hubble THEN {"cilium-hubble-enable"} ELSE {}
            M == IF s.mesh THEN {"cilium-clustermesh-enable"} ELSE {}
<1>1. /\ Part(install, {"cni-cilium-install"}) /\ Part(hubble, {"cilium-hubble-enable"})
      /\ Part(mesh, {"cilium-clustermesh-enable"})
  BY OneStep DEF StepNames, StepKinds, StepPaths
<1>2. Part(gate, {"cilium-gateway-crds-download", "cilium-gateway-crds-apply"})
  <2>1. /\ "cilium-gateway-crds-download" \in StepNames /\ "cilium-gateway-crds-apply" \in StepNames
        /\ "download" \in StepKinds /\ "apply" \in StepKinds /\ "gateway" \in StepPaths
    BY DEF StepNames, StepKinds, StepPaths
  <2>. QED BY <2>1, TwoSteps, Zenon
<1>3. CiliumSteps(s) = ((Optional(s.gateway, gate) \o install) \o Optional(s.hubble, hubble))
                       \o Optional(s.mesh, mesh)
  BY DEF CiliumSteps
<1>. HIDE DEF gate, install, hubble, mesh
<1>4. /\ Part(Optional(s.gateway, gate), G) /\ Part(Optional(s.hubble, hubble), H)
      /\ Part(Optional(s.mesh, mesh), M)
  BY <1>1, <1>2, OptionalPart
<1>5. CiliumNames(s) = ((G \cup {"cni-cilium-install"}) \cup H) \cup M
  BY DEF CiliumNames
<1>. HIDE DEF G, H, M
<1>6. Part(Optional(s.gateway, gate) \o install, G \cup {"cni-cilium-install"})
  BY <1>1, <1>4, JoinedParts
<1>7. Part((Optional(s.gateway, gate) \o install) \o Optional(s.hubble, hubble),
           (G \cup {"cni-cilium-install"}) \cup H)
  BY <1>4, <1>6, JoinedParts
<1>. QED BY <1>3, <1>4, <1>5, <1>7, JoinedParts

CniNames(s) ==
    CASE s.cni = "kindnet" -> {}
      [] s.cni = "flannel" -> {"cni-flannel-download", "cni-flannel-apply"}
                              \cup (IF s.ownCidr THEN {"cni-flannel-patch"} ELSE {})
      [] s.cni = "calico" -> CalicoNames
      [] s.cni = "cilium" -> CiliumNames(s)

IngressNames(s) ==
    CASE s.ingress \in {"none", "cilium"} -> {}
      [] s.ingress = "nginx" -> {"ingress-nginx-download", "ingress-nginx-apply"}
      [] s.ingress = "traefik" -> {"traefik-repo-add", "traefik-install"}

PlanNames(s) ==
    {"write-kind-config", "kind-create", "merge-kubeconfig", "final-verify"}
    \cup CniNames(s) \cup IngressNames(s)

LEMMA PlanPart ==
    ASSUME NEW s, s.cni \in W!Cnis, s.ingress \in W!Ingresses
    PROVE  Part(Plan(s), PlanNames(s))
<1>1. Part(CniSteps(s), CniNames(s))
  <2>1. s.cni \in {"kindnet", "flannel", "calico", "cilium"}
    BY DEF W!Cnis
  <2>. QED BY <2>1, NoPart, FlannelPart, CalicoPart, CiliumPart DEF CniSteps, CniNames
<1>2. Part(IngressSteps(s), IngressNames(s))
  <2>1. s.ingress \in {"none", "nginx", "traefik", "cilium"}
    BY DEF W!Ingresses
  <2>2. Part(<<Step("ingress-nginx-download", "download", "nginx", FALSE),
               Step("ingress-nginx-apply", "apply", "nginx", TRUE)>>,
             {"ingress-nginx-download", "ingress-nginx-apply"})
    <3>1. /\ "ingress-nginx-download" \in StepNames /\ "ingress-nginx-apply" \in StepNames
          /\ "download" \in StepKinds /\ "apply" \in StepKinds /\ "nginx" \in StepPaths
      BY DEF StepNames, StepKinds, StepPaths
    <3>. QED BY <3>1, TwoSteps, Zenon
  <2>3. Part(<<Step("traefik-repo-add", "command", "none", FALSE),
               Step("traefik-install", "command", "none", FALSE)>>,
             {"traefik-repo-add", "traefik-install"})
    <3>1. /\ "traefik-repo-add" \in StepNames /\ "traefik-install" \in StepNames
          /\ "command" \in StepKinds /\ "none" \in StepPaths
      BY DEF StepNames, StepKinds, StepPaths
    <3>. QED BY <3>1, TwoSteps, Zenon
  <2>. QED BY <2>1, <2>2, <2>3, NoPart DEF IngressSteps, IngressNames
<1>3. Part(FinalStep, {"final-verify"})
  BY OneStep DEF FinalStep, StepNames, StepKinds, StepPaths
<1>4. Plan(s) = ((CreateSteps \o CniSteps(s)) \o IngressSteps(s)) \o FinalStep
  BY DEF Plan
<1>5. PlanNames(s) = (({"write-kind-config", "kind-create", "merge-kubeconfig"} \cup CniNames(s))
                      \cup IngressNames(s)) \cup {"final-verify"}
  BY DEF PlanNames
<1>. DEFINE A == {"write-kind-config", "kind-create", "merge-kubeconfig"}
<1>6. Part(CreateSteps \o CniSteps(s), A \cup CniNames(s))
  BY <1>1, CreatePart, JoinedParts
<1>7. Part((CreateSteps \o CniSteps(s)) \o IngressSteps(s),
           (A \cup CniNames(s)) \cup IngressNames(s))
  BY <1>2, <1>6, JoinedParts
<1>. QED BY <1>3, <1>4, <1>5, <1>7, JoinedParts

LEMMA CreatedSpec ==
    ASSUME FormInv, NEW s \in created
    PROVE  /\ W!Valid(s) /\ s.cni \in W!Cnis /\ s.ingress \in W!Ingresses
           /\ \E f \in FormSet : s = W!ToSpec(f)
           /\ Part(StepsOf(s), PlanNames(PlanInput(s)))
<1>1. W!Valid(s) /\ \E f \in FormSet : s = W!ToSpec(f)
  BY DEF FormInv, MadeOfForms
<1>2. s.cni \in W!Cnis /\ s.ingress \in W!Ingresses
  BY <1>1 DEF FormSet, W!ToSpec
<1>3. PlanInput(s).cni = s.cni /\ PlanInput(s).ingress = s.ingress
  BY DEF PlanInput
<1>. QED BY <1>1, <1>2, <1>3, PlanPart DEF StepsOf

\* The plan of a created spec is a chain, and its order is that of the chain.
ChainInv ==
    stage # "form" =>
        \A s \in created :
            /\ plan = DependenciesOf(StepsOf(s)) /\ stage # "unknown"
            /\ \A k \in 1..Len(sorted) : sorted[k] = k

LEMMA ChainFacts ==
    ASSUME NEW steps \in Seq(StepSet)
    PROVE  LET chain == DependenciesOf(steps)
           IN  /\ chain \in Seq(Seq(Nat)) /\ Len(chain) = Len(steps) /\ Len(steps) \in Nat
               /\ DOMAIN chain = 1..Len(steps) /\ DOMAIN steps = 1..Len(steps)
               /\ \A i \in 1..Len(steps) : chain[i] = IF i = 1 THEN <<>> ELSE <<i - 1>>
               /\ \A i \in 1..Len(steps) : Elements(chain[i]) \subseteq 1..Len(steps)
<1>. DEFINE chain == DependenciesOf(steps)
            n == Len(steps)
<1>1. DOMAIN steps = 1..n /\ n \in Nat
  OBVIOUS
<1>2. chain = [i \in 1..n |-> IF i = 1 THEN <<>> ELSE <<i - 1>>]
  BY <1>1 DEF DependenciesOf
<1>. HIDE DEF chain, n
<1>3. ASSUME NEW i \in 1..n
      PROVE  /\ chain[i] = (IF i = 1 THEN <<>> ELSE <<i - 1>>)
             /\ chain[i] \in Seq(Nat) /\ Elements(chain[i]) \subseteq 1..n
  <2>1. CASE i = 1
    BY <1>2, <2>1 DEF Elements
  <2>2. CASE i # 1
    <3>1. i - 1 \in 1..n /\ i - 1 \in Nat
      BY <1>1, <2>2
    <3>2. chain[i] = <<i - 1>>
      BY <1>2, <2>2
    <3>3. <<i - 1>> \in Seq(Nat) /\ Elements(<<i - 1>>) = {i - 1}
      BY <3>1 DEF Elements
    <3>. QED BY <2>2, <3>1, <3>2, <3>3
  <2>. QED BY <2>1, <2>2
<1>4. chain \in [1..n -> Seq(Nat)]
  BY <1>2, <1>3
<1>5. chain \in Seq(Seq(Nat)) /\ Len(chain) = n /\ DOMAIN chain = 1..n
  BY <1>1, <1>4
<1>. QED BY <1>1, <1>3, <1>5 DEF chain, n

LEMMA BuildSorts ==
    ASSUME SortInv, FormInv, BuildPlan
    PROVE  SortInv' /\ FormInv' /\ ChainInv'
<1>1. PICK s \in created : plan' = DependenciesOf(StepsOf(s))
                           /\ degree' = [i \in DOMAIN StepsOf(s) |-> 0]
  BY DEF BuildPlan
<1>2. /\ stage = "form" /\ stage' = "count" /\ ready' = ready /\ sorted' = sorted
      /\ UNCHANGED wizard
  BY DEF BuildPlan
<1>3. StepsOf(s) \in Seq(StepSet)
  BY CreatedSpec DEF Part
<1>4. /\ plan' \in Seq(Seq(Nat)) /\ DOMAIN plan' = 1..Len(StepsOf(s))
      /\ DOMAIN StepsOf(s) = 1..Len(StepsOf(s))
  BY <1>1, <1>3, ChainFacts
<1>5. ready' = <<>> /\ sorted' = <<>>
  BY <1>2 DEF SortInv, Sorting
<1>6. Typed'
  BY <1>1, <1>2, <1>4, <1>5 DEF Typed, Steps
<1>7. SortInv'
  BY <1>2, <1>5, <1>6 DEF SortInv, Sorting, DependenciesComeFirst, Verdict
<1>8. FormInv'
  BY <1>2, FormAlone
<1>9. ChainInv'
  <2>1. \A t \in created' : t = s
    BY <1>2 DEF FormInv, OneCreated, wizard
  <2>. QED BY <1>1, <1>2, <1>5, <2>1 DEF ChainInv
<1>. QED BY <1>7, <1>8, <1>9

\* The first m steps of a chain have been sorted.
LEMMA ChainPlace ==
    ASSUME SortInv, FormInv, ChainInv, stage # "form", NEW s \in created
    PROVE  LET n == Len(StepsOf(s))
               m == Len(sorted)
           IN  /\ n \in Nat /\ m \in Nat /\ m <= n
               /\ Steps = 1..n /\ DOMAIN StepsOf(s) = 1..n /\ Len(plan) = n
               /\ Elements(sorted) = 1..m /\ sorted = [i \in 1..m |-> i]
               /\ \A d \in Steps : Mentions(d, Unsorted) = {} <=> d <= m + 1
               /\ \A d \in Steps : Elements(plan[d]) \subseteq Steps
<1>. DEFINE n == Len(StepsOf(s))
            m == Len(sorted)
<1>1. StepsOf(s) \in Seq(StepSet)
  BY CreatedSpec DEF Part
<1>2. plan = DependenciesOf(StepsOf(s)) /\ \A k \in 1..m : sorted[k] = k
  BY DEF ChainInv
<1>3. /\ n \in Nat /\ Steps = 1..n /\ DOMAIN StepsOf(s) = 1..n /\ Len(plan) = n
      /\ \A i \in 1..n : plan[i] = IF i = 1 THEN <<>> ELSE <<i - 1>>
      /\ \A i \in 1..n : Elements(plan[i]) \subseteq 1..n
  BY <1>1, <1>2, ChainFacts DEF Steps
<1>4. sorted \in Seq(Steps) /\ m \in Nat /\ Elements(sorted) = {sorted[k] : k \in 1..m}
  BY ElementFacts DEF SortInv, Typed
<1>5. sorted \in [1..m -> Steps]
  BY <1>4
<1>. HIDE DEF n, m
<1>6. m <= n
  <2>1. CASE m = 0
    BY <1>3, <2>1
  <2>2. CASE m # 0
    <3>1. m \in 1..m
      BY <1>4, <2>2
    <3>2. sorted[m] = m /\ sorted[m] \in Steps
      BY <1>2, <1>5, <3>1
    <3>. QED BY <1>3, <1>4, <3>2
  <2>. QED BY <2>1, <2>2
<1>7. Elements(sorted) = 1..m /\ sorted = [i \in 1..m |-> i]
  BY <1>2, <1>4, <1>5
<1>8. ASSUME NEW d \in Steps
      PROVE  Mentions(d, Unsorted) = {} <=> d <= m + 1
  <2>1. d \in 1..n /\ Unsorted = (1..n) \ (1..m)
    BY <1>3, <1>7 DEF Unsorted
  <2>2. CASE d = 1
    <3>1. plan[d] = <<>>
      BY <1>3, <2>1, <2>2
    <3>2. Mentions(d, Unsorted) = {}
      BY <3>1 DEF Mentions
    <3>. QED BY <1>4, <2>2, <3>2
  <2>3. CASE d # 1
    <3>1. plan[d] = <<d - 1>>
      BY <1>3, <2>1, <2>3
    <3>2. Mentions(d, Unsorted) = {} <=> d - 1 \notin Unsorted
      BY <3>1 DEF Mentions
    <3>3. d - 1 \in Unsorted <=> ~(d <= m + 1)
      BY <1>3, <1>4, <2>1, <2>3
    <3>. QED BY <3>2, <3>3
  <2>. QED BY <2>2, <2>3
<1>. QED BY <1>3, <1>4, <1>6, <1>7, <1>8 DEF n, m

LEMMA ChainPop ==
    ASSUME SortInv, FormInv, ChainInv, Pop, UNCHANGED created
    PROVE  ChainInv'
<1>1. SUFFICES ASSUME NEW s \in created
               PROVE  /\ plan' = DependenciesOf(StepsOf(s)) /\ stage' # "unknown"
                      /\ \A k \in 1..Len(sorted') : sorted'[k] = k
  BY DEF ChainInv
<1>2. /\ stage = "sort" /\ ready # <<>> /\ sorted' = Append(sorted, Top)
      /\ plan' = plan /\ stage' = stage
  BY DEF Pop
<1>3. plan' = DependenciesOf(StepsOf(s)) /\ \A k \in 1..Len(sorted) : sorted[k] = k
  BY <1>2 DEF ChainInv
<1>4. Typed /\ Waiting /\ Once
  BY <1>2 DEF SortInv, Sorting
<1>5. Top \in Elements(ready) /\ Top \in Steps
  BY <1>2, <1>4, FrontFacts, ElementFacts DEF Top, Typed
<1>6. Top \notin Elements(sorted) /\ Mentions(Top, Unsorted) = {}
  BY <1>4, <1>5 DEF Once, Waiting
<1>7. Len(sorted) \in Nat /\ Top \in Nat /\ Top # 0 /\ Top <= Len(sorted) + 1
      /\ Elements(sorted) = 1..Len(sorted)
  BY <1>2, <1>5, <1>6, ChainPlace
<1>8. Top = Len(sorted) + 1
  BY <1>6, <1>7
<1>9. /\ Len(sorted') = Len(sorted) + 1 /\ sorted'[Len(sorted) + 1] = Top
      /\ \A k \in 1..Len(sorted) : sorted'[k] = sorted[k]
  BY <1>2, <1>4, <1>5, AppendFacts DEF Typed
<1>. HIDE DEF Top
<1>10. ASSUME NEW k \in 1..Len(sorted')
       PROVE  sorted'[k] = k
  <2>1. k \in 1..Len(sorted) \/ k = Len(sorted) + 1
    BY <1>7, <1>9
  <2>. QED BY <1>3, <1>8, <1>9, <2>1
<1>. QED BY <1>2, <1>3, <1>10

LEMMA ChainKept ==
    ASSUME SortInv, FormInv, ChainInv, Next, UNCHANGED created
    PROVE  ChainInv'
<1>1. CASE UnknownDependency
  <2>1. created = {}
    <3>1. SUFFICES ASSUME NEW s \in created PROVE FALSE
      OBVIOUS
    <3>2. \A d \in Steps : Elements(plan[d]) \subseteq Steps
      BY <1>1, ChainPlace DEF UnknownDependency
    <3>. QED BY <1>1, <3>2 DEF UnknownDependency
  <2>. QED BY <2>1 DEF ChainInv
<1>2. CASE CountDependencies
  BY <1>2 DEF CountDependencies, ChainInv
<1>3. CASE Pop
  BY <1>3, ChainPop
<1>4. CASE Finish
  BY <1>4 DEF Finish, ChainInv
<1>. QED BY <1>1, <1>2, <1>3, <1>4 DEF Next

LEMMA ChainSays == SortInv /\ FormInv /\ ChainInv => PlansKeepTheirOrder
<1>1. SUFFICES ASSUME SortInv, FormInv, ChainInv, stage \in Outcomes, NEW s \in created
               PROVE  stage = "ok" /\ sorted = [i \in DOMAIN StepsOf(s) |-> i]
  BY SortInvSays DEF PlansKeepTheirOrder
<1>. DEFINE n == Len(StepsOf(s))
            m == Len(sorted)
<1>2. stage \in {"ok", "cycle"}
  BY <1>1 DEF Outcomes, ChainInv
<1>3. Waiting /\ ready = <<>> /\ (stage = "ok" <=> Len(sorted) = Len(plan))
  BY <1>1, <1>2 DEF SortInv, Sorting, Verdict
<1>4. /\ n \in Nat /\ m \in Nat /\ m <= n
      /\ Steps = 1..n /\ DOMAIN StepsOf(s) = 1..n /\ Len(plan) = n
      /\ Elements(sorted) = 1..m /\ sorted = [i \in 1..m |-> i]
      /\ \A d \in Steps : Mentions(d, Unsorted) = {} <=> d <= m + 1
  BY <1>1, <1>2, ChainPlace
<1>. HIDE DEF n, m
<1>5. m = n
  <2>1. SUFFICES ASSUME m # n PROVE FALSE
    OBVIOUS
  <2>2. m + 1 \in Steps /\ m + 1 <= m + 1 /\ m + 1 \notin 1..m
    BY <1>4, <2>1
  <2>3. Elements(ready) = {}
    BY <1>3 DEF Elements
  <2>. QED BY <1>3, <1>4, <2>2, <2>3 DEF Waiting
<1>. QED BY <1>3, <1>4, <1>5 DEF m

-----------------------------------------------------------------------------
(* The theorems.                                                           *)

IInv == SortInv /\ FormInv /\ ChainInv

LEMMA IInvInit == PlanningInit => IInv
<1>1. SUFFICES ASSUME PlanningInit PROVE IInv
  OBVIOUS
<1>2. /\ ready = <<>> /\ sorted = <<>> /\ created = {} /\ open = FALSE /\ form = W!Fresh
      /\ \/ plan = <<>> /\ degree = <<>> /\ stage = "form"
         \/ plan \in Plans /\ degree = [i \in DOMAIN plan |-> 0] /\ stage = "count"
  BY <1>1 DEF PlanningInit, Init, W!Init
<1>3. Typed
  <2>1. CASE plan = <<>> /\ degree = <<>> /\ stage = "form"
    <3>1. plan \in Seq(Seq(Nat)) /\ DOMAIN plan = {} /\ degree \in [DOMAIN plan -> Nat]
      BY <2>1
    <3>. QED BY <1>2, <2>1, <3>1 DEF Typed, Steps
  <2>2. CASE plan \in Plans /\ degree = [i \in DOMAIN plan |-> 0] /\ stage = "count"
    BY <1>2, <2>2, PlansAssumption DEF Typed, Steps
  <2>. QED BY <1>2, <2>1, <2>2
<1>4. SortInv
  BY <1>2, <1>3 DEF SortInv, Sorting, DependenciesComeFirst, Verdict
<1>5. FormInv
  BY <1>2, FreshIsForm DEF FormInv, W!TypeOK, FormSet, MadeOfForms, OneCreated
<1>. QED BY <1>2, <1>4, <1>5 DEF IInv, ChainInv

LEMMA IInvStep == IInv /\ [PlanningNext]_<<vars, wizard, output_vars>> => IInv'
<1>1. SUFFICES ASSUME IInv, [PlanningNext]_<<vars, wizard, output_vars>> PROVE IInv'
  OBVIOUS
<1>2. SortInv /\ FormInv /\ ChainInv
  BY <1>1 DEF IInv
<1>3. CASE stage = "form" /\ W!Next /\ UNCHANGED <<vars, output_vars>>
  BY <1>2, <1>3, SortAlone, FormStep DEF IInv, ChainInv, vars
<1>4. CASE BuildPlan
  BY <1>2, <1>4, BuildSorts DEF IInv
<1>5. CASE Next /\ UNCHANGED <<wizard, output_vars>>
  <2>1. SortInv'
    BY <1>2, <1>5, CountSorts, PopSorts, FinishSorts, UnknownSorts DEF Next
  <2>2. FormInv' /\ created' = created
    BY <1>2, <1>5, FormAlone DEF wizard
  <2>. QED BY <1>2, <1>5, <2>1, <2>2, ChainKept DEF IInv
<1>6. CASE UNCHANGED <<vars, wizard>>
  BY <1>2, <1>6, SortAlone, FormAlone DEF IInv, ChainInv, vars, wizard
<1>7. CASE ShowOp
  BY <1>6, <1>7 DEF ShowOp
<1>8. CASE UNCHANGED <<vars, wizard, output_vars>>
  BY <1>6, <1>8
<1>. QED BY <1>1, <1>3, <1>4, <1>5, <1>7, <1>8 DEF PlanningNext

LEMMA AlwaysIInv == PlanningSpec => []IInv
<1>. QED BY IInvInit, IInvStep, PTL DEF PlanningSpec

\* The plan, its in-degrees, the form and the created spec stay of their
\* types: in particular an in-degree never falls below zero (`in_degree` is a
\* usize), however often a dependency is listed.
THEOREM TypeCorrect == PlanningSpec => []PlanningTypeOK
<1>1. IInv => PlanningTypeOK
  BY DEF IInv, SortInv, FormInv, Typed, PlanningTypeOK, TypeOK
<1>. QED BY <1>1, AlwaysIInv, PTL

\* For any plan: topological_sort puts no step before one that it depends on.
THEOREM DependenciesFirst == PlanningSpec => []DependenciesComeFirst
<1>1. IInv => DependenciesComeFirst
  BY DEF IInv, SortInv
<1>. QED BY <1>1, AlwaysIInv, PTL

\* For any plan topological_sort returns all of its steps or refuses it, the
\* latter just if some of the steps wait for each other; and every plan that
\* build_plan makes for the wizard's specs is accepted and keeps its order.
THEOREM OrderIsKept == PlanningSpec => []PlansKeepTheirOrder
<1>1. IInv => PlansKeepTheirOrder
  BY ChainSays DEF IInv
<1>. QED BY <1>1, AlwaysIInv, PTL

\* Of a spec that validate lets through, kind's config and the plan agree.
LEMMA ConfigOfCreated ==
    ASSUME FormInv
    PROVE  ConfigAgreesWithPlan
<1>1. SUFFICES ASSUME NEW s \in created
               PROVE  LET config == W!KindConfig(s)
                          ids == Ids(StepsOf(s))
                      IN  /\ ClusterNetwork(config) = s.pod /\ CniNetwork(s) = s.pod
                          /\ config.disableDefaultCni <=>
                               ids \cap {"cni-flannel-apply", "cni-calico-cr-apply",
                                         "cni-cilium-install"} # {}
                          /\ config.kubeProxy = "none" <=> "cni-cilium-install" \in ids
                          /\ config.hostPorts # {} <=>
                               ids \cap {"ingress-nginx-apply", "traefik-install"} # {}
                          /\ s.ingress = "cilium" =>
                               "cni-cilium-install" \in ids /\ \A c \in s.cilium : c.ingress
  BY DEF ConfigAgreesWithPlan
<1>. DEFINE config == W!KindConfig(s)
            ids == Ids(StepsOf(s))
            p == PlanInput(s)
<1>2. /\ W!Valid(s) /\ s.cni \in {"kindnet", "flannel", "calico", "cilium"}
      /\ s.ingress \in {"none", "nginx", "traefik", "cilium"}
      /\ \E f \in FormSet : s = W!ToSpec(f)
      /\ ids = PlanNames(p)
  BY CreatedSpec DEF Part, W!Cnis, W!Ingresses
<1>3. p.cni = s.cni /\ p.ingress = s.ingress /\ (p.ownCidr <=> s.pod # DefaultPod)
  BY DEF PlanInput
<1>4. /\ "cni-flannel-apply" \in ids <=> s.cni = "flannel"
      /\ "cni-calico-cr-apply" \in ids <=> s.cni = "calico"
      /\ "cni-cilium-install" \in ids <=> s.cni = "cilium"
      /\ "cni-flannel-patch" \in ids <=> s.cni = "flannel" /\ p.ownCidr
      /\ "ingress-nginx-apply" \in ids <=> s.ingress = "nginx"
      /\ "traefik-install" \in ids <=> s.ingress = "traefik"
  BY <1>2, <1>3 DEF PlanNames, CniNames, IngressNames, CiliumNames, CalicoNames
<1>5. /\ config.podSubnet = IF s.pod # DefaultPod \/ s.cni # "kindnet" THEN {s.pod} ELSE {}
      /\ config.disableDefaultCni = (s.cni # "kindnet")
      /\ config.kubeProxy = IF s.cni = "cilium" THEN "none" ELSE "default"
      /\ config.hostPorts = W!Hosts(s)
  BY DEF W!KindConfig
<1>. HIDE DEF config, ids, p
<1>6. ClusterNetwork(config) = s.pod
  BY <1>5 DEF ClusterNetwork
<1>7. CniNetwork(s) = s.pod
  BY <1>2, <1>3, <1>4, <1>6 DEF CniNetwork, config, ids
<1>8. W!Hosts(s) # {} <=> s.ingress \in {"nginx", "traefik"}
  <2>1. PICK f \in FormSet : s = W!ToSpec(f)
    BY <1>2
  <2>2. s.ports = IF s.ingress \in {"nginx", "traefik"} THEN <<W!Port(80), W!Port(443)>> ELSE <<>>
    BY <2>1 DEF W!ToSpec
  <2>3. s.ingress \in {"nginx", "traefik"} => 1 \in DOMAIN s.ports
    BY <2>2
  <2>4. s.ingress \notin {"nginx", "traefik"} => DOMAIN s.ports = {}
    BY <2>2
  <2>. QED BY <2>3, <2>4 DEF W!Hosts
<1>9. s.ingress = "cilium" => s.cni = "cilium" /\ \A c \in s.cilium : c.ingress
  BY <1>2 DEF W!Valid, W!ValidIngress
<1>. QED BY <1>2, <1>4, <1>5, <1>6, <1>7, <1>8, <1>9 DEF config, ids

\* An address of a block is none of another block that validate finds apart.
LEMMA InsideBlock ==
    ASSUME NEW S \in Nat \ {0}, NEW x \in Nat, NEW a \in Nat, x \div S = a \div S
    PROVE  a - (a % S) <= x /\ x <= a - (a % S) + S - 1 /\ a - (a % S) \in Int
OBVIOUS

LEMMA AddressInside ==
    ASSUME NEW b \in [address : Nat, prefix : Nat], W!Parses(b), NEW x \in Addresses(b)
    PROVE  /\ x \in Nat /\ W!First(b) \in Int /\ W!Last(b) \in Int
           /\ W!First(b) <= x /\ x <= W!Last(b)
<1>. DEFINE size == 2 ^ (Bits - b.prefix)
<1>1. Bits - b.prefix \in 0..Bits
  BY PlanningAssumption DEF W!Parses
<1>2. size \in Nat \ {0}
  BY <1>1, PowersAssumption
<1>3. 2 ^ Bits \in Nat \ {0}
  BY PlanningAssumption, PowersAssumption
<1>4. x \in 0..(2 ^ Bits - 1) /\ x \div size = b.address \div size /\ b.address \in Nat
  BY DEF Addresses
<1>5. /\ W!First(b) = b.address - (b.address % size)
      /\ W!Last(b) = b.address - (b.address % size) + size - 1
  BY DEF W!First, W!Last, W!Size
<1>. HIDE DEF size
<1>6. x \in Nat
  BY <1>3, <1>4
<1>7. /\ b.address - (b.address % size) <= x
      /\ x <= b.address - (b.address % size) + size - 1
      /\ b.address - (b.address % size) \in Int
  BY <1>2, <1>4, <1>6, InsideBlock
<1>8. b.address - (b.address % size) + size - 1 \in Int
  BY <1>2, <1>7
<1>. QED BY <1>5, <1>6, <1>7, <1>8

LEMMA NetworksOfCreated ==
    ASSUME FormInv
    PROVE  NetworksAreApart
<1>1. SUFFICES ASSUME NEW s \in created
               PROVE  /\ Addresses(s.pod) \cap Addresses(s.service) = {}
                      /\ \A c \in s.cilium : c.mesh => c.id \in 1..MaxClusterId /\ c.name = "good"
  BY DEF NetworksAreApart
<1>2. PICK f \in FormSet : s = W!ToSpec(f)
  BY CreatedSpec
<1>3. W!Valid(s)
  BY CreatedSpec
<1>4. Addresses(s.pod) \cap Addresses(s.service) = {}
  <2>1. SUFFICES ASSUME NEW x \in Addresses(s.pod), x \in Addresses(s.service) PROVE FALSE
    OBVIOUS
  <2>2. W!Parses(s.pod) /\ W!Parses(s.service) /\ ~W!Overlaps(s.pod, s.service)
    BY <1>3 DEF W!Valid, W!ValidNetworks
  <2>3. s.pod \in [address : Nat, prefix : Nat] /\ s.service \in [address : Nat, prefix : Nat]
    <3>1. s.pod = f.pod /\ s.service = f.service
      BY <1>2 DEF W!ToSpec
    <3>2. f.pod \in {DefaultPod} \cup PodTexts /\ f.service \in {DefaultService} \cup ServiceTexts
      BY DEF FormSet
    <3>. QED BY <3>1, <3>2, PlanningAssumption
  <2>4. /\ x \in Nat /\ W!First(s.pod) \in Int /\ W!Last(s.pod) \in Int
        /\ W!First(s.pod) <= x /\ x <= W!Last(s.pod)
    BY <2>2, <2>3, AddressInside
  <2>5. /\ W!First(s.service) \in Int /\ W!Last(s.service) \in Int
        /\ W!First(s.service) <= x /\ x <= W!Last(s.service)
    BY <2>1, <2>2, <2>3, AddressInside
  <2>. QED BY <2>2, <2>4, <2>5 DEF W!Overlaps
<1>5. ASSUME NEW c \in s.cilium, c.mesh
      PROVE  c.id \in 1..MaxClusterId /\ c.name = "good"
  BY <1>3, <1>5 DEF W!Valid, W!ValidExtras, W!ValidName
<1>. QED BY <1>4, <1>5

\* What the wizard creates can be provisioned as it was asked for, whatever
\* was entered in fields that are hidden now: its two networks share no
\* address, a mesh has an id and a name that cilium takes; and kind's config
\* and the plan agree on the pod network, on which CNI and kube-proxy the
\* cluster gets, and on the host ports of its ingress.
THEOREM SpecsFit == PlanningSpec => []SpecsFitTheirPlan
<1>1. IInv => SpecsFitTheirPlan
  BY ConfigOfCreated, NetworksOfCreated DEF IInv, SpecsFitTheirPlan
<1>. QED BY <1>1, AlwaysIInv, PTL

-----------------------------------------------------------------------------
(* The commands.                                                           *)

Fits(c, name, kernel) ==
    /\ Named(c) = IF c.is \in Global THEN {} ELSE {name}
    /\ \A seconds \in OwnWaits(c) : seconds < Deadline(c) \/ c.is = "KindCreate"
    /\ c.is = "CiliumInstall" => AgentStarts(c.version, kernel)

\* A command whose only flag names the cluster.
LEMMA PlainFits ==
    ASSUME NEW c, NEW name, NEW kernel, NEW flag \in {"--name", "container", "--context"},
           c.is \notin Global, c.is # "CiliumInstall", Flags(c) = {Flag(flag, name)}
    PROVE  Fits(c, name, kernel)
<1>1. flag \notin Waits
  BY DEF Waits
<1>2. Flag(flag, name).name = flag /\ Flag(flag, name).value = name
  BY DEF Flag
<1>3. Named(c) = {name} /\ OwnWaits(c) = {}
  BY <1>1, <1>2 DEF Named, OwnWaits
<1>. QED BY <1>3 DEF Fits

\* A command that also tells the tool how long to wait.
LEMMA PatientFits ==
    ASSUME NEW c, NEW name, NEW kernel, NEW flag \in {"--config", "--context", "--kube-context"},
           NEW wait \in Waits, NEW seconds, c.is \notin Global,
           Flags(c) = {Flag(flag, name), Flag(wait, seconds)},
           seconds < Deadline(c) \/ c.is = "KindCreate",
           c.is = "CiliumInstall" => AgentStarts(c.version, kernel)
    PROVE  Fits(c, name, kernel)
<1>1. flag \notin Waits
  BY DEF Waits
<1>2. /\ Flag(flag, name).name = flag /\ Flag(flag, name).value = name
      /\ Flag(wait, seconds).name = wait /\ Flag(wait, seconds).value = seconds
  BY DEF Flag
<1>3. Named(c) = {name} /\ OwnWaits(c) = {seconds}
  BY <1>1, <1>2 DEF Named, OwnWaits
<1>. QED BY <1>3 DEF Fits

\* The program that runs a command.
LEMMA Programs ==
    ASSUME NEW c
    PROVE  /\ c.is \in KindCommands => Flags(c) = KindFlags(c) /\ Deadline(c) = KindDeadline(c)
           /\ c.is \in DockerCommands => Flags(c) = DockerFlags(c) /\ Deadline(c) = DockerDeadline(c)
           /\ c.is \in KubectlCommands =>
                Flags(c) = KubectlFlags(c) /\ Deadline(c) = KubectlDeadline(c)
           /\ c.is \in HelmCommands => Flags(c) = HelmFlags(c) /\ Deadline(c) = HelmDeadline(c)
           /\ c.is \in CiliumCommands => Flags(c) = CiliumFlags(c) /\ Deadline(c) = CiliumDeadline(c)
<1>1. /\ KindCommands \cap DockerCommands = {} /\ KindCommands \cap KubectlCommands = {}
      /\ KindCommands \cap HelmCommands = {} /\ KindCommands \cap CiliumCommands = {}
      /\ DockerCommands \cap KubectlCommands = {} /\ DockerCommands \cap HelmCommands = {}
      /\ DockerCommands \cap CiliumCommands = {} /\ KubectlCommands \cap HelmCommands = {}
      /\ KubectlCommands \cap CiliumCommands = {} /\ HelmCommands \cap CiliumCommands = {}
  BY DEF KindCommands, DockerCommands, KubectlCommands, HelmCommands, CiliumCommands
<1>. QED BY <1>1 DEF Flags, Deadline

LEMMA KindFits ==
    ASSUME NEW name, NEW kernel,
           NEW i \in {"KindGetNodes", "KindDelete", "KindExportKubeconfig", "KindExportLogs"}
    PROVE  Fits([is |-> i, of |-> name], name, kernel)
<1>. DEFINE c == [is |-> i, of |-> name]
<1>1. c.is = i /\ c.of = name
  OBVIOUS
<1>. HIDE DEF c
<1>2. c.is \notin Global /\ c.is # "CiliumInstall" /\ Flags(c) = {Flag("--name", name)}
  BY <1>1, Programs DEF Global, KindCommands, KindFlags
<1>. QED BY <1>2, PlainFits DEF c

LEMMA DockerFits ==
    ASSUME NEW name, NEW kernel
    PROVE  Fits([is |-> "DockerLogs", of |-> name], name, kernel)
<1>. DEFINE c == [is |-> "DockerLogs", of |-> name]
<1>1. c.is = "DockerLogs" /\ c.of = name
  OBVIOUS
<1>. HIDE DEF c
<1>2. c.is \notin Global /\ c.is # "CiliumInstall" /\ Flags(c) = {Flag("container", name)}
  BY <1>1, Programs DEF Global, DockerCommands, DockerFlags
<1>. QED BY <1>2, PlainFits DEF c

LEMMA KubectlFits ==
    ASSUME NEW name, NEW kernel,
           NEW i \in {"KubectlApply", "KubectlGetCrd", "KubectlGetPodsByLabel", "KubectlLogs"}
    PROVE  Fits([is |-> i, of |-> name], name, kernel)
<1>. DEFINE c == [is |-> i, of |-> name]
<1>1. c.is = i /\ c.of = name
  OBVIOUS
<1>. HIDE DEF c
<1>2. c.is \notin Global /\ c.is # "CiliumInstall" /\ Flags(c) = {Flag("--context", name)}
  BY <1>1, Programs DEF Global, KubectlCommands, KubectlFlags, If
<1>. QED BY <1>2, PlainFits DEF c

LEMMA EnableFits ==
    ASSUME NEW name, NEW kernel, NEW i \in {"CiliumHubbleEnable", "CiliumClustermeshEnable"}
    PROVE  Fits([is |-> i, of |-> name], name, kernel)
<1>. DEFINE c == [is |-> i, of |-> name]
<1>1. c.is = i /\ c.of = name
  OBVIOUS
<1>. HIDE DEF c
<1>2. c.is \notin Global /\ c.is # "CiliumInstall" /\ Flags(c) = {Flag("--context", name)}
  BY <1>1, Programs DEF Global, CiliumCommands, CiliumFlags
<1>. QED BY <1>2, PlainFits DEF c

LEMMA CreateFits ==
    ASSUME NEW name, NEW kernel
    PROVE  Fits([is |-> "KindCreate", of |-> name, wait |-> TRUE], name, kernel)
<1>. DEFINE c == [is |-> "KindCreate", of |-> name, wait |-> TRUE]
<1>1. c.is = "KindCreate" /\ c.of = name /\ c.wait = TRUE
  OBVIOUS
<1>. HIDE DEF c
<1>2. c.is \notin Global /\ Flags(c) = {Flag("--config", name), Flag("--wait", KindWaitFlag)}
  BY <1>1, Programs DEF Global, KindCommands, KindFlags, If
<1>3. "--wait" \in Waits
  BY DEF Waits
<1>. QED BY <1>1, <1>2, <1>3, PatientFits DEF c

LEMMA NodesReadyFits ==
    ASSUME NEW name, NEW kernel
    PROVE  Fits(NodesReady(name), name, kernel)
<1>. DEFINE c == NodesReady(name)
<1>1. c.is = "KubectlWait" /\ c.of = name /\ c.wait = NodeReadyTimeout
  BY DEF NodesReady
<1>. HIDE DEF c
<1>2. /\ c.is \notin Global /\ Flags(c) = {Flag("--context", name), Flag("--timeout", NodeReadyTimeout)}
      /\ Deadline(c) = WaitTimeout
  BY <1>1, Programs DEF Global, KubectlCommands, KubectlFlags, KubectlDeadline, If
<1>3. "--timeout" \in Waits /\ NodeReadyTimeout < Deadline(c) /\ c.is # "CiliumInstall"
  BY <1>1, <1>2 DEF Waits, NodeReadyTimeout, WaitTimeout
<1>. QED BY <1>1, <1>2, <1>3, PatientFits DEF c

LEMMA CiliumReadyFits ==
    ASSUME NEW name, NEW kernel
    PROVE  Fits(CiliumReady(name), name, kernel)
<1>. DEFINE c == CiliumReady(name)
<1>1. c.is = "CiliumStatus" /\ c.of = name /\ c.wait = TRUE
  BY DEF CiliumReady
<1>. HIDE DEF c
<1>2. /\ c.is \notin Global /\ Flags(c) = {Flag("--context", name), Flag("--wait", DefaultWait)}
      /\ Deadline(c) = InstallTimeout
  BY <1>1, Programs DEF Global, CiliumCommands, CiliumFlags, CiliumDeadline, If
<1>3. "--wait" \in Waits /\ DefaultWait < Deadline(c)
  BY <1>2 DEF Waits, DefaultWait, InstallTimeout
<1>. QED BY <1>1, <1>2, <1>3, PatientFits DEF c

LEMMA CiliumInstallFits ==
    ASSUME NEW name, NEW kernel \in Kernels
    PROVE  Fits([is |-> "CiliumInstall", of |-> name, wait |-> TRUE,
                 version |-> CiliumVersionForKernel(kernel)], name, kernel)
<1>. DEFINE c == [is |-> "CiliumInstall", of |-> name, wait |-> TRUE,
                    version |-> CiliumVersionForKernel(kernel)]
<1>1. /\ c.is = "CiliumInstall" /\ c.of = name /\ c.wait = TRUE
      /\ c.version = CiliumVersionForKernel(kernel)
  OBVIOUS
<1>. HIDE DEF c
<1>2. /\ c.is \notin Global /\ Flags(c) = {Flag("--context", name), Flag("--wait", DefaultWait)}
      /\ Deadline(c) = InstallTimeout
  BY <1>1, Programs DEF Global, CiliumCommands, CiliumFlags, CiliumDeadline, If
<1>3. "--wait" \in Waits /\ DefaultWait < Deadline(c)
  BY <1>2 DEF Waits, DefaultWait, InstallTimeout
<1>4. AgentStarts(c.version, kernel)
  BY <1>1, PlanningAssumption DEF AgentStarts, CiliumVersionForKernel
<1>. QED BY <1>1, <1>2, <1>3, <1>4, PatientFits DEF c

LEMMA HelmFits ==
    ASSUME NEW name, NEW kernel
    PROVE  /\ Fits([is |-> "HelmInstall", of |-> name, wait |-> TRUE], name, kernel)
           /\ Fits([is |-> "HelmRepoAdd"], name, kernel)
<1>. DEFINE c == [is |-> "HelmInstall", of |-> name, wait |-> TRUE]
            d == [is |-> "HelmRepoAdd"]
<1>1. c.is = "HelmInstall" /\ c.of = name /\ c.wait = TRUE /\ d.is = "HelmRepoAdd"
  OBVIOUS
<1>. HIDE DEF c, d
<1>2. /\ c.is \notin Global
      /\ Flags(c) = {Flag("--kube-context", name), Flag("--wait", DefaultWait)}
      /\ Deadline(c) = InstallTimeout
  BY <1>1, Programs DEF Global, HelmCommands, HelmFlags, HelmInstallFlags, HelmDeadline, If
<1>3. "--wait" \in Waits /\ DefaultWait < Deadline(c) /\ c.is # "CiliumInstall"
  BY <1>1, <1>2 DEF Waits, DefaultWait, InstallTimeout
<1>4. Fits(c, name, kernel)
  BY <1>2, <1>3, PatientFits
<1>5. d.is \in Global /\ Flags(d) = {} /\ d.is # "CiliumInstall"
  BY <1>1, Programs DEF Global, HelmCommands, HelmFlags
<1>6. Fits(d, name, kernel)
  BY <1>5 DEF Fits, Named, OwnWaits
<1>. QED BY <1>4, <1>6 DEF c, d

LEMMA StepFits ==
    ASSUME NEW name, NEW cni, NEW kernel \in Kernels, NEW step \in StepSet,
           NEW c \in StepCommands(name, cni, kernel, step)
    PROVE  Fits(c, name, kernel)
<1>1. Fits(CiliumReady(name), name, kernel)
  BY CiliumReadyFits
<1>2. Fits([is |-> "CiliumInstall", of |-> name, wait |-> TRUE,
            version |-> CiliumVersionForKernel(kernel)], name, kernel)
  BY CiliumInstallFits
<1>3. /\ Fits([is |-> "KindCreate", of |-> name, wait |-> TRUE], name, kernel)
      /\ Fits([is |-> "KindExportKubeconfig", of |-> name], name, kernel)
      /\ Fits([is |-> "CiliumHubbleEnable", of |-> name], name, kernel)
      /\ Fits([is |-> "CiliumClustermeshEnable", of |-> name], name, kernel)
      /\ Fits([is |-> "HelmInstall", of |-> name, wait |-> TRUE], name, kernel)
      /\ Fits([is |-> "HelmRepoAdd"], name, kernel)
      /\ Fits(NodesReady(name), name, kernel)
      /\ Fits([is |-> "KubectlApply", of |-> name], name, kernel)
      /\ Fits([is |-> "KubectlGetCrd", of |-> name], name, kernel)
  BY CreateFits, KindFits, EnableFits, HelmFits, NodesReadyFits, KubectlFits
<1>4. \/ c = [is |-> "KindCreate", of |-> name, wait |-> TRUE]
      \/ c = [is |-> "KindExportKubeconfig", of |-> name]
      \/ c = [is |-> "CiliumInstall", of |-> name, wait |-> TRUE,
              version |-> CiliumVersionForKernel(kernel)]
      \/ c = CiliumReady(name) \/ c = NodesReady(name)
      \/ c = [is |-> "CiliumHubbleEnable", of |-> name]
      \/ c = [is |-> "CiliumClustermeshEnable", of |-> name]
      \/ c = [is |-> "HelmRepoAdd"] \/ c = [is |-> "HelmInstall", of |-> name, wait |-> TRUE]
      \/ c = [is |-> "KubectlApply", of |-> name] \/ c = [is |-> "KubectlGetCrd", of |-> name]
  BY DEF StepCommands
<1>. QED BY <1>1, <1>2, <1>3, <1>4

LEMMA CommandsOfCreated ==
    ASSUME FormInv
    PROVE  CommandsFitTheCluster
<1>1. SUFFICES ASSUME NEW s \in created, NEW kernel \in Kernels, NEW c \in CommandsOf(s, kernel)
               PROVE  Fits(c, s.name, kernel)
  BY DEF CommandsFitTheCluster, Fits
<1>2. CASE \E k \in DOMAIN StepsOf(s) : c \in StepCommands(s.name, s.cni, kernel, StepsOf(s)[k])
  <2>1. PICK k \in DOMAIN StepsOf(s) : c \in StepCommands(s.name, s.cni, kernel, StepsOf(s)[k])
    BY <1>2
  <2>2. StepsOf(s) \in Seq(StepSet)
    BY CreatedSpec DEF Part
  <2>3. StepsOf(s)[k] \in StepSet
    BY <2>2
  <2>. QED BY <2>1, <2>3, StepFits
<1>3. CASE c \in DiagnosisCommands(s.name) \cup LogCommands(s.name)
  BY <1>3, KubectlFits, DockerFits DEF DiagnosisCommands, LogCommands
<1>4. CASE c \in WorkerCommands(s.name)
  BY <1>4, KindFits DEF WorkerCommands
<1>5. \/ \E k \in DOMAIN StepsOf(s) : c \in StepCommands(s.name, s.cni, kernel, StepsOf(s)[k])
      \/ c \in DiagnosisCommands(s.name) \cup LogCommands(s.name)
      \/ c \in WorkerCommands(s.name)
  BY DEF CommandsOf
<1>. QED BY <1>2, <1>3, <1>4, <1>5

\* Every command that is run for a created cluster - by its plan, to find out
\* why it failed, by the worker or for its logs - names that cluster and no
\* other, and a tool that is told to wait gives up before its runner kills
\* it, but for `kind create`; and cilium's agent starts on the host's kernel.
THEOREM CommandsFit == PlanningSpec => []CommandsFitTheCluster
<1>1. IInv => CommandsFitTheCluster
  BY CommandsOfCreated DEF IInv
<1>. QED BY <1>1, AlwaysIInv, PTL

-----------------------------------------------------------------------------
(* The log of a panel.                                                     *)

Says == {"header", "mark", "begun", "done", "failed", "output", "error", "context", "usage", "empty",
         "command", "aborted", "started", "finished", "success", "failure"}
Lines == [says : Says, step : OpSteps \cup {NoStep}]

LEMMA AppendIs ==
    ASSUME NEW S, NEW s \in Seq(S), NEW x \in S
    PROVE  /\ Append(s, x) \in Seq(S) /\ Len(Append(s, x)) = Len(s) + 1 /\ Len(s) \in Nat
           /\ Append(s, x)[Len(s) + 1] = x /\ \A k \in 1..Len(s) : Append(s, x)[k] = s[k]
           /\ DOMAIN s = 1..Len(s) /\ DOMAIN Append(s, x) = 1..(Len(s) + 1)
  OBVIOUS

LEMMA SameSequence ==
    ASSUME NEW S, NEW s \in Seq(S), NEW t \in Seq(S), Len(s) = Len(t),
           \A k \in 1..Len(s) : s[k] = t[k]
    PROVE  s = t
  OBVIOUS

\* What is kept of a sequence of lines: all of it, or its last OutputCap lines.
LEMMA TailedIs ==
    ASSUME NEW S, NEW s \in Seq(S)
    PROVE  LET cut == IF Len(s) > OutputCap THEN Len(s) - OutputCap ELSE 0
           IN  /\ cut \in Nat /\ cut <= Len(s) /\ Tailed(s) \in Seq(S) /\ Len(Tailed(s)) = Len(s) - cut
               /\ \A k \in 1..(Len(s) - cut) : Tailed(s)[k] = s[k + cut]
<1>. DEFINE cut == IF Len(s) > OutputCap THEN Len(s) - OutputCap ELSE 0
<1>1. Len(s) \in Nat /\ OutputCap \in Nat /\ OutputCap > 0 /\ cut \in Nat /\ cut <= Len(s)
  BY OutputAssumption
<1>2. Tailed(s) = SubSeq(s, cut + 1, Len(s))
  BY <1>1 DEF Tailed
<1>. HIDE DEF cut
<1>3. /\ cut + 1 \in Int /\ Len(s) \in Int /\ \A i \in (cut + 1)..Len(s) : s[i] \in S
  <2>1. \A i \in (cut + 1)..Len(s) : i \in 1..Len(s)
    BY <1>1
  <2>. QED BY <1>1, <2>1
<1>4. /\ Tailed(s) \in Seq(S)
      /\ Len(Tailed(s)) = IF cut + 1 <= Len(s) THEN Len(s) - (cut + 1) + 1 ELSE 0
      /\ \A i \in 1..(Len(s) - (cut + 1) + 1) : Tailed(s)[i] = s[(cut + 1) + i - 1]
  BY <1>2, <1>3, SubSeqProperties
<1>5. Len(Tailed(s)) = Len(s) - cut
  BY <1>1, <1>4
<1>6. ASSUME NEW k \in 1..(Len(s) - cut) PROVE Tailed(s)[k] = s[k + cut]
  <2>1. k \in 1..(Len(s) - (cut + 1) + 1) /\ (cut + 1) + k - 1 = k + cut
    BY <1>1
  <2>. QED BY <1>4, <2>1
<1>. QED BY <1>1, <1>4, <1>5, <1>6 DEF cut

LEMMA TailedOfShort ==
    ASSUME NEW S, NEW s \in Seq(S), Len(s) <= OutputCap
    PROVE  Tailed(s) = s
<1>1. Len(s) \in Nat /\ OutputCap \in Nat /\ ~(Len(s) > OutputCap)
  BY OutputAssumption
<1>2. /\ Tailed(s) \in Seq(S) /\ Len(Tailed(s)) = Len(s) - 0
      /\ \A k \in 1..(Len(s) - 0) : Tailed(s)[k] = s[k + 0]
  BY <1>1, TailedIs
<1>3. Len(Tailed(s)) = Len(s) /\ \A k \in 1..Len(s) : Tailed(s)[k] = s[k]
  BY <1>1, <1>2
<1>. QED BY <1>2, <1>3, SameSequence

\* A line that is pushed keeps the log the end of the story.
LEMMA PushKeepsTail ==
    ASSUME NEW s \in Seq(Lines), NEW line \in Lines
    PROVE  PushLine(Tailed(s), line) = Tailed(Append(s, line))
<1>. DEFINE t == Tailed(s)
            u == Append(s, line)
            v == Tailed(u)
            n == Len(s)
            cut == IF n > OutputCap THEN n - OutputCap ELSE 0
            more == IF n + 1 > OutputCap THEN n + 1 - OutputCap ELSE 0
<1>0. n \in Nat /\ OutputCap \in Nat /\ OutputCap >= 1 /\ cut \in Nat /\ more \in Nat
  BY OutputAssumption
<1>1. /\ t \in Seq(Lines) /\ Len(t) = n - cut
      /\ \A k \in 1..(n - cut) : t[k] = s[k + cut]
  BY TailedIs
<1>2. /\ u \in Seq(Lines) /\ Len(u) = n + 1 /\ u[n + 1] = line /\ \A k \in 1..n : u[k] = s[k]
  BY AppendIs
<1>. HIDE DEF u
<1>3. /\ v \in Seq(Lines) /\ Len(v) = n + 1 - more
      /\ \A k \in 1..(n + 1 - more) : v[k] = u[k + more]
  <2>. DEFINE c == IF Len(u) > OutputCap THEN Len(u) - OutputCap ELSE 0
  <2>1. v \in Seq(Lines) /\ Len(v) = Len(u) - c /\ \A k \in 1..(Len(u) - c) : v[k] = u[k + c]
    BY <1>2, TailedIs
  <2>2. c = more
    BY <1>0, <1>2
  <2>. HIDE DEF v, more, c
  <2>. QED BY <1>0, <1>2, <2>1, <2>2
<1>. HIDE DEF t, v
<1>4. CASE Len(t) >= OutputCap
  <2>1. Len(t) = OutputCap /\ more = cut + 1 /\ n >= OutputCap /\ cut = n - OutputCap
    BY <1>0, <1>1, <1>4
  <2>2. t # <<>>
    BY <1>0, <2>1
  <2>3. /\ Tail(t) \in Seq(Lines) /\ Len(Tail(t)) = OutputCap - 1
        /\ \A k \in 1..(OutputCap - 1) : Tail(t)[k] = t[k + 1]
    BY <1>0, <1>1, <2>1, <2>2
  <2>. DEFINE w == Append(Tail(t), line)
  <2>4. /\ w \in Seq(Lines) /\ Len(w) = OutputCap - 1 + 1 /\ w[OutputCap - 1 + 1] = line
        /\ \A k \in 1..(OutputCap - 1) : w[k] = t[k + 1]
    BY <2>3, AppendIs
  <2>. HIDE DEF w
  <2>5. Len(w) = OutputCap /\ w[OutputCap] = line /\ Len(v) = OutputCap
    BY <1>0, <1>3, <2>1, <2>4
  <2>. HIDE DEF cut, more, n
  <2>6. ASSUME NEW k \in 1..OutputCap PROVE w[k] = v[k]
    <3>1. v[k] = u[k + more]
      BY <1>0, <1>3, <2>1
    <3>2. CASE k = OutputCap
      <4>1. k + more = n + 1
        BY <1>0, <2>1, <3>2
      <4>. QED BY <1>2, <2>5, <3>1, <3>2, <4>1
    <3>3. CASE k # OutputCap
      <4>1. k \in 1..(OutputCap - 1) /\ k + 1 \in 1..(n - cut) /\ k + more = k + 1 + cut
            /\ k + 1 + cut \in 1..n
        BY <1>0, <2>1, <3>3
      <4>. QED BY <1>1, <1>2, <2>4, <3>1, <4>1
    <3>. QED BY <3>2, <3>3
  <2>7. w = v
    BY <1>3, <2>4, <2>5, <2>6, SameSequence
  <2>. QED BY <1>4, <2>7 DEF PushLine, t, v, u, w
<1>5. CASE ~(Len(t) >= OutputCap)
  <2>1. Len(t) = n /\ more = 0 /\ cut = 0
    BY <1>0, <1>1, <1>5
  <2>. HIDE DEF cut, more
  <2>2. \A k \in 1..n : t[k] = s[k]
    BY <1>0, <1>1, <2>1
  <2>3. t = s
    BY <1>1, <2>1, <2>2, SameSequence
  <2>4. Len(v) = n + 1 /\ \A k \in 1..(n + 1) : v[k] = u[k]
    BY <1>0, <1>3, <2>1
  <2>5. v = u
    BY <1>2, <1>3, <2>4, SameSequence
  <2>. QED BY <1>5, <2>3, <2>5 DEF PushLine, t, v, u
<1>. QED BY <1>4, <1>5

LEMMA PushLineIs ==
    ASSUME NEW s \in Seq(Lines), NEW line \in Lines
    PROVE  /\ PushLine(s, line) \in Seq(Lines)
           /\ Len(s) <= OutputCap => Len(PushLine(s, line)) <= OutputCap
<1>1. OutputCap \in Nat /\ OutputCap >= 1 /\ Len(s) \in Nat
  BY OutputAssumption
<1>2. CASE Len(s) >= OutputCap
  <2>1. s # <<>>
    BY <1>1, <1>2
  <2>2. Tail(s) \in Seq(Lines) /\ Len(Tail(s)) = Len(s) - 1
    BY <2>1
  <2>3. Append(Tail(s), line) \in Seq(Lines) /\ Len(Append(Tail(s), line)) = Len(s) - 1 + 1
    BY <2>2, AppendIs
  <2>. QED BY <1>1, <1>2, <2>3 DEF PushLine
<1>3. CASE ~(Len(s) >= OutputCap)
  BY <1>1, <1>3, AppendIs DEF PushLine
<1>. QED BY <1>2, <1>3

LEMMA JoinIs ==
    ASSUME NEW S, NEW s \in Seq(S), NEW t \in Seq(S)
    PROVE  /\ s \o t \in Seq(S) /\ Len(s \o t) = Len(s) + Len(t)
           /\ Len(s) \in Nat /\ Len(t) \in Nat
           /\ \A k \in 1..Len(s) : (s \o t)[k] = s[k]
           /\ \A k \in 1..Len(t) : (s \o t)[Len(s) + k] = t[k]
  OBVIOUS

LEMMA JoinOne ==
    ASSUME NEW S, NEW s \in Seq(S), NEW a \in S
    PROVE  s \o <<a>> = Append(s, a)
  OBVIOUS

LEMMA JoinTwo ==
    ASSUME NEW S, NEW s \in Seq(S), NEW a \in S, NEW b \in S
    PROVE  s \o <<a, b>> = Append(Append(s, a), b)
<1>1. <<a>> \in Seq(S) /\ <<b>> \in Seq(S)
  OBVIOUS
<1>2. <<a, b>> = <<a>> \o <<b>>
  <2>. DEFINE t == <<a, b>>
              u == <<a>> \o <<b>>
  <2>1. t \in Seq(S) /\ Len(t) = 2 /\ t[1] = a /\ t[2] = b
    OBVIOUS
  <2>2. u = Append(<<a>>, b)
    BY <1>1, JoinOne
  <2>3. u \in Seq(S) /\ Len(u) = 2 /\ u[1] = a /\ u[2] = b
    BY <1>1, <2>2, AppendIs
  <2>. HIDE DEF t, u
  <2>4. \A k \in 1..2 : k = 1 \/ k = 2
    OBVIOUS
  <2>5. t = u
    BY <2>1, <2>3, <2>4, SameSequence
  <2>. QED BY <2>5 DEF t, u
<1>3. s \o (<<a>> \o <<b>>) = (s \o <<a>>) \o <<b>>
  BY <1>1, ConcatAssociative
<1>4. Append(s, a) \in Seq(S)
  BY AppendIs
<1>. QED BY <1>2, <1>3, <1>4, JoinOne

LEMMA JoinFour ==
    ASSUME NEW S, NEW s \in Seq(S), NEW a \in S, NEW b \in S, NEW c \in S, NEW d \in S
    PROVE  s \o <<a, b, c, d>> = Append(Append(Append(Append(s, a), b), c), d)
<1>1. <<a, b>> \in Seq(S) /\ <<c, d>> \in Seq(S)
  OBVIOUS
<1>2. <<a, b, c, d>> = <<a, b>> \o <<c, d>>
  <2>. DEFINE u == <<a, b>>
              v == <<c, d>>
              t == <<a, b, c, d>>
  <2>1. Len(u) = 2 /\ u[1] = a /\ u[2] = b /\ Len(v) = 2 /\ v[1] = c /\ v[2] = d
    OBVIOUS
  <2>2. t \in Seq(S) /\ Len(t) = 4 /\ t[1] = a /\ t[2] = b /\ t[3] = c /\ t[4] = d
    <3>1. Len(t) = 4 /\ DOMAIN t = 1..4
      OBVIOUS
    <3>2. t[1] = a /\ t[2] = b /\ t[3] = c /\ t[4] = d
      OBVIOUS
    <3>3. t \in Seq(S)
      OBVIOUS
    <3>. QED BY <3>1, <3>2, <3>3
  <2>. HIDE DEF u, v, t
  <2>3. /\ u \o v \in Seq(S) /\ Len(u \o v) = 2 + 2 /\ \A k \in 1..2 : (u \o v)[k] = u[k]
        /\ \A k \in 1..2 : (u \o v)[2 + k] = v[k]
    BY <1>1, <2>1, JoinIs DEF u, v
  <2>4. /\ (u \o v)[1] = a /\ (u \o v)[2] = b /\ (u \o v)[3] = c /\ (u \o v)[4] = d
        /\ Len(u \o v) = 4
    <3>1. 1 \in 1..2 /\ 2 \in 1..2 /\ 2 + 1 = 3 /\ 2 + 2 = 4
      OBVIOUS
    <3>2. (u \o v)[2 + 1] = v[1] /\ (u \o v)[2 + 2] = v[2]
      BY <2>3, <3>1
    <3>. QED BY <2>1, <2>3, <3>1, <3>2
  <2>5. \A k \in 1..4 : k = 1 \/ k = 2 \/ k = 3 \/ k = 4
    OBVIOUS
  <2>6. \A k \in 1..4 : t[k] = (u \o v)[k]
    BY <2>2, <2>4, <2>5
  <2>7. t = u \o v
    BY <2>2, <2>3, <2>4, <2>6, SameSequence
  <2>. QED BY <2>7 DEF t, u, v
<1>3. s \o (<<a, b>> \o <<c, d>>) = (s \o <<a, b>>) \o <<c, d>>
  BY <1>1, ConcatAssociative
<1>4. s \o <<a, b>> = Append(Append(s, a), b)
  BY JoinTwo
<1>5. Append(Append(s, a), b) \in Seq(S)
  BY AppendIs
<1>6. Append(Append(s, a), b) \o <<c, d>> = Append(Append(Append(Append(s, a), b), c), d)
  BY <1>5, JoinTwo
<1>. QED BY <1>2, <1>3, <1>4, <1>6

-----------------------------------------------------------------------------
(* The panel.                                                              *)

Statuses == {"none", "Running", "Done", "Failed"}
Rows == [id : OpSteps, status : {"Running", "Done", "Failed"}]
Panels == [styled : BOOLEAN, steps : Seq(Rows), output : Seq(Lines), header : BOOLEAN,
           pending : Nat]
InCap(p) == Len(p.output) <= OutputCap

LEMMA LineIs ==
    ASSUME NEW says \in Says, NEW step \in OpSteps \cup {NoStep}
    PROVE  /\ Line(says, step) \in Lines
           /\ Line(says, step).says = says /\ Line(says, step).step = step
  BY DEF Line, Lines

LEMMA PushIs ==
    ASSUME NEW p \in Panels, NEW line \in Lines
    PROVE  /\ Push(p, line) \in Panels /\ (InCap(p) => InCap(Push(p, line)))
           /\ Push(p, line).output = PushLine(p.output, line)
           /\ Push(p, line).styled = p.styled /\ Push(p, line).steps = p.steps
           /\ Push(p, line).header = p.header /\ Push(p, line).pending = p.pending
<1>1. /\ PushLine(p.output, line) \in Seq(Lines)
      /\ InCap(p) => Len(PushLine(p.output, line)) <= OutputCap
  BY PushLineIs DEF Panels, InCap
<1>2. /\ Push(p, line).output = PushLine(p.output, line)
      /\ Push(p, line).styled = p.styled /\ Push(p, line).steps = p.steps
      /\ Push(p, line).header = p.header /\ Push(p, line).pending = p.pending
  BY DEF Push, Panels
<1>3. Push(p, line) \in Panels
  BY <1>1 DEF Push, Panels
<1>. QED BY <1>1, <1>2, <1>3 DEF InCap

\* The output of a panel after a mark.
Marked(p, line) ==
    IF p.pending \in DOMAIN p.output THEN [p.output EXCEPT ![p.pending] = line]
    ELSE PushLine(p.output, line)

LEMMA MarkIs ==
    ASSUME NEW p \in Panels, NEW line \in Lines
    PROVE  /\ Mark(p, line) \in Panels /\ (InCap(p) => InCap(Mark(p, line)))
           /\ Mark(p, line).output = Marked(p, line)
           /\ Mark(p, line).styled = p.styled /\ Mark(p, line).steps = p.steps
           /\ Mark(p, line).header = p.header
<1>1. CASE p.pending \in DOMAIN p.output
  <2>. DEFINE marked == [p.output EXCEPT ![p.pending] = line]
  <2>1. Mark(p, line) = [p EXCEPT !.output = marked, !.pending = 0]
    BY <1>1 DEF Mark
  <2>2. marked \in Seq(Lines) /\ Len(marked) = Len(p.output)
    <3>1. p.output \in Seq(Lines)
      BY DEF Panels
    <3>. QED BY <1>1, <3>1
  <2>. HIDE DEF marked
  <2>3. /\ Mark(p, line).output = marked
        /\ Mark(p, line).styled = p.styled /\ Mark(p, line).steps = p.steps
        /\ Mark(p, line).header = p.header
    BY <2>1 DEF Panels
  <2>4. Mark(p, line) \in Panels
    <3>1. 0 \in Nat
      OBVIOUS
    <3>2. \A o \in Seq(Lines), n \in Nat : [p EXCEPT !.output = o, !.pending = n] \in Panels
      BY DEF Panels
    <3>. QED BY <2>1, <2>2, <3>1, <3>2
  <2>. QED BY <1>1, <2>2, <2>3, <2>4 DEF Marked, InCap, marked
<1>2. CASE p.pending \notin DOMAIN p.output
  <2>. DEFINE q == Push(p, line)
  <2>1. Mark(p, line) = [q EXCEPT !.pending = 0]
    BY <1>2 DEF Mark
  <2>2. /\ q \in Panels /\ (InCap(p) => InCap(q)) /\ q.output = PushLine(p.output, line)
        /\ q.styled = p.styled /\ q.steps = p.steps /\ q.header = p.header
    BY PushIs
  <2>. HIDE DEF q
  <2>3. /\ Mark(p, line).output = q.output
        /\ Mark(p, line).styled = q.styled /\ Mark(p, line).steps = q.steps
        /\ Mark(p, line).header = q.header
    BY <2>1, <2>2 DEF Panels
  <2>4. Mark(p, line) \in Panels
    <3>1. 0 \in Nat
      OBVIOUS
    <3>2. \A n \in Nat : [q EXCEPT !.pending = n] \in Panels
      BY <2>2 DEF Panels
    <3>. QED BY <2>1, <3>1, <3>2
  <2>. QED BY <1>2, <2>2, <2>3, <2>4 DEF Marked, InCap
<1>. QED BY <1>1, <1>2

LEMMA HeadedIs ==
    ASSUME NEW p \in Panels
    PROVE  /\ Headed(p) \in Panels /\ (InCap(p) => InCap(Headed(p)))
           /\ Headed(p).output = IF p.header THEN p.output
                                 ELSE PushLine(p.output, Line("header", NoStep))
           /\ Headed(p).styled = p.styled /\ Headed(p).steps = p.steps
           /\ Headed(p).header = TRUE
<1>1. CASE p.header
  BY <1>1 DEF Headed, Panels
<1>2. CASE ~p.header
  <2>. DEFINE q == Push(p, Line("header", NoStep))
  <2>1. Line("header", NoStep) \in Lines
    BY LineIs DEF Says
  <2>2. /\ q \in Panels /\ (InCap(p) => InCap(q))
        /\ q.output = PushLine(p.output, Line("header", NoStep))
        /\ q.styled = p.styled /\ q.steps = p.steps
    BY <2>1, PushIs
  <2>3. Headed(p) = [q EXCEPT !.header = TRUE]
    BY <1>2 DEF Headed
  <2>. HIDE DEF q
  <2>4. /\ Headed(p) \in Panels /\ Headed(p).output = q.output /\ Headed(p).styled = q.styled
        /\ Headed(p).steps = q.steps /\ Headed(p).header = TRUE
    BY <2>2, <2>3 DEF Panels
  <2>. QED BY <1>2, <2>2, <2>4 DEF InCap
<1>. QED BY <1>1, <1>2

LEMMA BeginIs ==
    ASSUME NEW p \in Panels, NEW id \in OpSteps
    PROVE  /\ Begin(p, id) \in Panels /\ (InCap(p) => InCap(Begin(p, id)))
           /\ Begin(p, id).output = PushLine(Headed(p).output, Line("begun", id))
           /\ Begin(p, id).styled = p.styled /\ Begin(p, id).steps = p.steps
           /\ Begin(p, id).header = TRUE /\ Begin(p, id).pending = Len(Headed(p).output) + 1
<1>. DEFINE h == Headed(p)
            q == Push(h, Line("begun", id))
<1>1. /\ h \in Panels /\ (InCap(p) => InCap(h)) /\ h.styled = p.styled /\ h.steps = p.steps
      /\ h.header = TRUE
  BY HeadedIs
<1>2. Len(h.output) + 1 \in Nat
  BY <1>1 DEF Panels
<1>. HIDE DEF h
<1>3. Line("begun", id) \in Lines
  BY LineIs DEF Says
<1>4. /\ q \in Panels /\ (InCap(h) => InCap(q)) /\ q.output = PushLine(h.output, Line("begun", id))
      /\ q.styled = h.styled /\ q.steps = h.steps /\ q.header = h.header
  BY <1>1, <1>3, PushIs
<1>5. Begin(p, id) = [q EXCEPT !.pending = Len(h.output) + 1]
  BY DEF Begin, h
<1>. HIDE DEF q
<1>6. /\ Begin(p, id) \in Panels /\ Begin(p, id).output = q.output
      /\ Begin(p, id).styled = q.styled /\ Begin(p, id).steps = q.steps
      /\ Begin(p, id).header = q.header /\ Begin(p, id).pending = Len(h.output) + 1
  BY <1>2, <1>4, <1>5 DEF Panels
<1>. QED BY <1>1, <1>4, <1>6 DEF InCap, h

LEMMA StatusIs ==
    /\ StatusOf("started") = "Running" /\ StatusOf("finished") = "Done"
    /\ StatusOf("failed") = "Failed"
  BY DEF StatusOf

LEMMA SetStepIs ==
    ASSUME NEW p \in Panels, NEW id \in OpSteps, NEW status \in {"Running", "Done", "Failed"}
    PROVE  LET q == SetStep(p, id, status)
               row == [id |-> id, status |-> status]
           IN  /\ q \in Panels /\ q.output = p.output /\ q.styled = p.styled
               /\ q.header = p.header /\ q.pending = p.pending
               /\ (\E k \in DOMAIN p.steps : p.steps[k].id = id) =>
                    q.steps = [k \in DOMAIN p.steps |-> IF p.steps[k].id = id THEN row ELSE p.steps[k]]
               /\ ~(\E k \in DOMAIN p.steps : p.steps[k].id = id) => q.steps = Append(p.steps, row)
<1>. DEFINE q == SetStep(p, id, status)
            row == [id |-> id, status |-> status]
            over == [k \in DOMAIN p.steps |-> IF p.steps[k].id = id THEN row ELSE p.steps[k]]
<1>1. row \in Rows /\ p.steps \in Seq(Rows)
  BY DEF Rows, Panels
<1>2. \A r \in Rows : r.id = id => [r EXCEPT !.status = status] = row
  BY DEF Rows
<1>. HIDE DEF row
<1>3. \A steps \in Seq(Rows) :
        /\ [p EXCEPT !.steps = steps] \in Panels /\ [p EXCEPT !.steps = steps].steps = steps
        /\ [p EXCEPT !.steps = steps].output = p.output
        /\ [p EXCEPT !.steps = steps].styled = p.styled
        /\ [p EXCEPT !.steps = steps].header = p.header
        /\ [p EXCEPT !.steps = steps].pending = p.pending
  <2>. TAKE steps \in Seq(Rows)
  <2>1. [p EXCEPT !.steps = steps] \in Panels
    BY DEF Panels
  <2>2. /\ [p EXCEPT !.steps = steps].steps = steps
        /\ [p EXCEPT !.steps = steps].output = p.output
        /\ [p EXCEPT !.steps = steps].styled = p.styled
        /\ [p EXCEPT !.steps = steps].header = p.header
        /\ [p EXCEPT !.steps = steps].pending = p.pending
    BY DEF Panels
  <2>. QED BY <2>1, <2>2
<1>4. CASE \E k \in DOMAIN p.steps : p.steps[k].id = id
  <2>1. over = [k \in DOMAIN p.steps |-> IF p.steps[k].id = id
                                         THEN [p.steps[k] EXCEPT !.status = status] ELSE p.steps[k]]
    BY <1>1, <1>2
  <2>2. q = [p EXCEPT !.steps = over]
    BY <1>4, <2>1 DEF SetStep
  <2>3. over \in Seq(Rows)
    BY <1>1
  <2>. HIDE DEF q, over
  <2>. QED BY <1>3, <1>4, <2>2, <2>3 DEF q, over, row
<1>5. CASE ~\E k \in DOMAIN p.steps : p.steps[k].id = id
  <2>1. q = [p EXCEPT !.steps = Append(p.steps, row)]
    BY <1>5 DEF SetStep, row
  <2>2. Append(p.steps, row) \in Seq(Rows)
    BY <1>1
  <2>. HIDE DEF q
  <2>. QED BY <1>3, <1>5, <2>1, <2>2 DEF q, row
<1>. QED BY <1>4, <1>5

\* What an event leaves of the log, whatever it makes of the timeline.
SameLog(p, q) ==
    /\ q.output = p.output /\ q.styled = p.styled /\ q.header = p.header /\ q.pending = p.pending

\* The timeline after an event of a step.
Row(p, id, status) == SetStep(p, id, status).steps

LEMMA ShownIs ==
    ASSUME NEW p \in Panels, NEW id \in OpSteps, NEW status \in {"Running", "Done", "Failed"}
    PROVE  LET q == SetStep(p, id, status)
           IN  q \in Panels /\ SameLog(p, q) /\ q.steps = Row(p, id, status) /\ (InCap(p) => InCap(q))
<1>. DEFINE q == SetStep(p, id, status)
<1>1. q.steps = Row(p, id, status)
  BY DEF Row
<1>2. /\ q \in Panels /\ q.output = p.output /\ q.styled = p.styled
      /\ q.header = p.header /\ q.pending = p.pending
  BY SetStepIs, ZenonT(30)
<1>. HIDE DEF q
<1>3. SameLog(p, q)
  BY <1>2 DEF SameLog
<1>4. InCap(p) => InCap(q)
  BY <1>2 DEF InCap
<1>. QED BY <1>1, <1>2, <1>3, <1>4 DEF q

LEMMA ApplyPlain ==
    ASSUME NEW p \in Panels, ~p.styled, InCap(p), NEW is \in OfStep \cup {"output"}, NEW id \in OpSteps
    PROVE  LET q == ApplyEvent(p, Event(is, id))
           IN  /\ q \in Panels /\ InCap(q) /\ ~q.styled
               /\ q.output = PushLine(p.output, Line(is, id))
               /\ q.steps = IF is \in OfStep THEN Row(p, id, StatusOf(is)) ELSE p.steps
<1>. DEFINE shown == IF is \in OfStep THEN SetStep(p, id, StatusOf(is)) ELSE p
<1>1. is \in Says
  BY DEF OfStep, Says
<1>2. Line(is, id) \in Lines
  BY <1>1, LineIs
<1>3. is \in OfStep => StatusOf(is) \in {"Running", "Done", "Failed"}
  BY StatusIs DEF OfStep
<1>4. /\ shown \in Panels /\ SameLog(p, shown) /\ InCap(shown)
      /\ shown.steps = IF is \in OfStep THEN Row(p, id, StatusOf(is)) ELSE p.steps
  BY <1>3, ShownIs DEF SameLog
<1>5. Event(is, id).is = is /\ Event(is, id).step = id
  BY DEF Event
<1>6. ApplyEvent(p, Event(is, id)) = Push(shown, Line(is, id))
  BY <1>4, <1>5 DEF ApplyEvent, SameLog
<1>. HIDE DEF shown
<1>. QED BY <1>2, <1>4, <1>6, PushIs DEF SameLog

LEMMA ApplyStarted ==
    ASSUME NEW p \in Panels, p.styled, InCap(p), NEW id \in OpSteps
    PROVE  LET q == ApplyEvent(p, Event("started", id))
               headed == IF p.header THEN p.output ELSE PushLine(p.output, Line("header", NoStep))
           IN  /\ q \in Panels /\ InCap(q) /\ q.styled /\ q.header
               /\ q.output = PushLine(headed, Line("begun", id)) /\ q.pending = Len(headed) + 1
               /\ q.steps = Row(p, id, "Running")
<1>. DEFINE shown == SetStep(p, id, "Running")
<1>1. /\ shown \in Panels /\ SameLog(p, shown) /\ InCap(shown)
      /\ shown.steps = Row(p, id, "Running")
  BY ShownIs
<1>2. ApplyEvent(p, Event("started", id)) = Begin(shown, id)
  <2>1. Event("started", id).is = "started" /\ Event("started", id).step = id
    BY DEF Event
  <2>2. "started" \in OfStep /\ shown.styled
    BY <1>1 DEF OfStep, SameLog
  <2>3. StyledLines(shown, Event("started", id)) = Begin(shown, id)
    BY <2>1 DEF StyledLines
  <2>. HIDE DEF shown
  <2>. QED BY <2>1, <2>2, <2>3, StatusIs DEF ApplyEvent, shown
<1>. HIDE DEF shown
<1>3. Headed(shown).output = IF p.header THEN p.output
                             ELSE PushLine(p.output, Line("header", NoStep))
  <2>1. Headed(shown).output = IF shown.header THEN shown.output
                               ELSE PushLine(shown.output, Line("header", NoStep))
    BY <1>1, HeadedIs
  <2>2. shown.header = p.header /\ shown.output = p.output
    BY <1>1 DEF SameLog
  <2>. QED BY <2>1, <2>2
<1>4. /\ Begin(shown, id) \in Panels /\ InCap(Begin(shown, id))
      /\ Begin(shown, id).output = PushLine(Headed(shown).output, Line("begun", id))
      /\ Begin(shown, id).styled = shown.styled /\ Begin(shown, id).steps = shown.steps
      /\ Begin(shown, id).header = TRUE
      /\ Begin(shown, id).pending = Len(Headed(shown).output) + 1
  BY <1>1, BeginIs
<1>. QED BY <1>1, <1>2, <1>3, <1>4 DEF SameLog

LEMMA ApplyOutput ==
    ASSUME NEW p \in Panels, p.styled, InCap(p), NEW id \in OpSteps
    PROVE  LET q == ApplyEvent(p, Event("output", id))
           IN  /\ q \in Panels /\ InCap(q) /\ q.styled /\ q.header = p.header
               /\ q.pending = p.pending /\ q.steps = p.steps
               /\ q.output = PushLine(p.output, Line("output", id))
<1>1. Event("output", id).is = "output" /\ Event("output", id).step = id
  BY DEF Event
<1>2. "output" \notin OfStep
  BY DEF OfStep
<1>3. ApplyEvent(p, Event("output", id)) = StyledLines(p, Event("output", id))
  BY <1>1, <1>2 DEF ApplyEvent
<1>4. StyledLines(p, Event("output", id)) = Push(p, Line("output", id))
  BY <1>1 DEF StyledLines
<1>5. Line("output", id) \in Lines
  BY LineIs DEF Says
<1>. QED BY <1>3, <1>4, <1>5, PushIs

LEMMA ApplyFinished ==
    ASSUME NEW p \in Panels, p.styled, InCap(p), NEW id \in OpSteps
    PROVE  LET q == ApplyEvent(p, Event("finished", id))
           IN  /\ q \in Panels /\ InCap(q) /\ q.styled /\ q.header = p.header
               /\ q.steps = Row(p, id, "Done") /\ q.output = Marked(p, Line("done", id))
<1>. DEFINE shown == SetStep(p, id, "Done")
<1>1. /\ shown \in Panels /\ SameLog(p, shown) /\ InCap(shown) /\ shown.steps = Row(p, id, "Done")
  BY ShownIs
<1>2. ApplyEvent(p, Event("finished", id)) = Mark(shown, Line("done", id))
  <2>1. Event("finished", id).is = "finished" /\ Event("finished", id).step = id
    BY DEF Event
  <2>2. "finished" \in OfStep /\ shown.styled
    BY <1>1 DEF OfStep, SameLog
  <2>3. StyledLines(shown, Event("finished", id)) = Mark(shown, Line("done", id))
    BY <2>1 DEF StyledLines
  <2>. HIDE DEF shown
  <2>. QED BY <2>1, <2>2, <2>3, StatusIs DEF ApplyEvent, shown
<1>. HIDE DEF shown
<1>3. Line("done", id) \in Lines
  BY LineIs DEF Says
<1>4. Marked(shown, Line("done", id)) = Marked(p, Line("done", id))
  BY <1>1 DEF SameLog, Marked
<1>5. LET m == Mark(shown, Line("done", id))
      IN  /\ m \in Panels /\ InCap(m) /\ m.output = Marked(shown, Line("done", id))
          /\ m.styled = shown.styled /\ m.steps = shown.steps /\ m.header = shown.header
  BY <1>1, <1>3, MarkIs
<1>. QED BY <1>1, <1>2, <1>4, <1>5 DEF SameLog

LEMMA ApplyFailed ==
    ASSUME NEW p \in Panels, p.styled, InCap(p), NEW id \in OpSteps
    PROVE  LET q == ApplyEvent(p, Event("failed", id))
           IN  /\ q \in Panels /\ InCap(q) /\ q.styled /\ q.header = p.header
               /\ q.steps = Row(p, id, "Failed")
               /\ q.output = PushLine(Marked(p, Line("failed", id)), Line("error", id))
<1>. DEFINE shown == SetStep(p, id, "Failed")
            m == Mark(shown, Line("failed", id))
<1>1. /\ shown \in Panels /\ SameLog(p, shown) /\ InCap(shown)
      /\ shown.steps = Row(p, id, "Failed")
  BY ShownIs
<1>2. ApplyEvent(p, Event("failed", id)) = Push(m, Line("error", id))
  <2>1. Event("failed", id).is = "failed" /\ Event("failed", id).step = id
    BY DEF Event
  <2>2. "failed" \in OfStep /\ shown.styled
    BY <1>1 DEF OfStep, SameLog
  <2>3. StyledLines(shown, Event("failed", id)) = Push(m, Line("error", id))
    BY <2>1 DEF StyledLines
  <2>. HIDE DEF shown, m
  <2>. QED BY <2>1, <2>2, <2>3, StatusIs DEF ApplyEvent, shown
<1>. HIDE DEF shown
<1>3. Line("failed", id) \in Lines /\ Line("error", id) \in Lines
  BY LineIs DEF Says
<1>4. Marked(shown, Line("failed", id)) = Marked(p, Line("failed", id))
  BY <1>1 DEF SameLog, Marked
<1>5. /\ m \in Panels /\ InCap(m) /\ m.output = Marked(shown, Line("failed", id))
      /\ m.styled = shown.styled /\ m.steps = shown.steps /\ m.header = shown.header
  BY <1>1, <1>3, MarkIs
<1>. HIDE DEF m
<1>6. LET q == Push(m, Line("error", id))
      IN  /\ q \in Panels /\ InCap(q) /\ q.output = PushLine(m.output, Line("error", id))
          /\ q.styled = m.styled /\ q.steps = m.steps /\ q.header = m.header
  BY <1>3, <1>5, PushIs
<1>. QED BY <1>1, <1>2, <1>4, <1>5, <1>6 DEF SameLog

LEMMA ApplyFailure ==
    ASSUME NEW p \in Panels, p.styled, InCap(p)
    PROVE  LET q == ApplyEvent(p, Event("failure", NoStep))
           IN  /\ q \in Panels /\ InCap(q) /\ q.styled /\ q.header = p.header /\ q.steps = p.steps
               /\ q.output = PushLine(p.output, Line("aborted", NoStep))
<1>1. Event("failure", NoStep).is = "failure" /\ "failure" \notin OfStep
  BY DEF Event, OfStep
<1>2. ApplyEvent(p, Event("failure", NoStep)) = StyledLines(p, Event("failure", NoStep))
  BY <1>1 DEF ApplyEvent
<1>3. StyledLines(p, Event("failure", NoStep)) = Push(p, Line("aborted", NoStep))
  BY <1>1 DEF StyledLines
<1>4. Line("aborted", NoStep) \in Lines
  BY LineIs DEF Says
<1>. QED BY <1>2, <1>3, <1>4, PushIs

LEMMA ApplySuccess ==
    ASSUME NEW p \in Panels, p.styled, InCap(p)
    PROVE  LET q == ApplyEvent(p, Event("success", NoStep))
           IN  /\ q \in Panels /\ InCap(q) /\ q.styled /\ q.header = p.header /\ q.steps = p.steps
               /\ q.output = PushLine(PushLine(PushLine(PushLine(p.output,
                               Line("context", NoStep)), Line("usage", NoStep)),
                               Line("empty", NoStep)), Line("command", NoStep))
<1>. DEFINE a == Push(p, Line("context", NoStep))
            b == Push(a, Line("usage", NoStep))
            c == Push(b, Line("empty", NoStep))
            d == Push(c, Line("command", NoStep))
<1>1. Event("success", NoStep).is = "success" /\ "success" \notin OfStep
  BY DEF Event, OfStep
<1>2. ApplyEvent(p, Event("success", NoStep)) = StyledLines(p, Event("success", NoStep))
  BY <1>1 DEF ApplyEvent
<1>3. StyledLines(p, Event("success", NoStep)) = d
  BY <1>1 DEF StyledLines
<1>4. /\ Line("context", NoStep) \in Lines /\ Line("usage", NoStep) \in Lines
      /\ Line("empty", NoStep) \in Lines /\ Line("command", NoStep) \in Lines
  BY LineIs DEF Says
<1>5. /\ a \in Panels /\ InCap(a) /\ a.output = PushLine(p.output, Line("context", NoStep))
      /\ a.styled = p.styled /\ a.steps = p.steps /\ a.header = p.header
  BY <1>4, PushIs
<1>. HIDE DEF a
<1>6. /\ b \in Panels /\ InCap(b) /\ b.output = PushLine(a.output, Line("usage", NoStep))
      /\ b.styled = a.styled /\ b.steps = a.steps /\ b.header = a.header
  BY <1>4, <1>5, PushIs
<1>. HIDE DEF b
<1>7. /\ c \in Panels /\ InCap(c) /\ c.output = PushLine(b.output, Line("empty", NoStep))
      /\ c.styled = b.styled /\ c.steps = b.steps /\ c.header = b.header
  BY <1>4, <1>6, PushIs
<1>. HIDE DEF c
<1>8. /\ d \in Panels /\ InCap(d) /\ d.output = PushLine(c.output, Line("command", NoStep))
      /\ d.styled = c.styled /\ d.steps = c.steps /\ d.header = c.header
  BY <1>4, <1>7, PushIs
<1>. HIDE DEF d
<1>. QED BY <1>2, <1>3, <1>5, <1>6, <1>7, <1>8

-----------------------------------------------------------------------------
(* The story.                                                              *)

ShownLine(line, status) ==
    IF line.says = "mark" THEN Line(Shown(status[line.step]), line.step) ELSE line
StoryWith(story, status) == [k \in DOMAIN story |-> ShownLine(story[k], status)]

\* The marks are of different steps, which have begun.
IsMark(line, id) == line.says = "mark" /\ line.step = id
Marks(story, status) ==
    \A k \in DOMAIN story : story[k].says = "mark" =>
        /\ story[k].step \in OpSteps /\ status[story[k].step] # "none"
        /\ \A j \in DOMAIN story : IsMark(story[j], story[k].step) => j = k

LEMMA ShownFacts ==
    /\ Shown("Running") = "begun" /\ Shown("Done") = "done" /\ Shown("Failed") = "failed"
    /\ \A status \in Statuses : status # "none" => Shown(status) \in Says
<1>1. Shown("Running") = "begun" /\ Shown("Done") = "done" /\ Shown("Failed") = "failed"
  BY DEF Shown
<1>. QED BY <1>1 DEF Statuses, Says

LEMMA StoryIs ==
    ASSUME NEW story \in Seq(Lines), NEW status \in [OpSteps -> Statuses], Marks(story, status)
    PROVE  /\ StoryWith(story, status) \in Seq(Lines)
           /\ Len(StoryWith(story, status)) = Len(story)
           /\ \A k \in 1..Len(story) : StoryWith(story, status)[k] = ShownLine(story[k], status)
<1>1. DOMAIN story = 1..Len(story) /\ Len(story) \in Nat
  OBVIOUS
<1>2. ASSUME NEW k \in 1..Len(story) PROVE ShownLine(story[k], status) \in Lines
  <2>1. story[k] \in Lines
    BY <1>1
  <2>2. CASE story[k].says = "mark"
    <3>1. story[k].step \in OpSteps /\ status[story[k].step] # "none"
      BY <1>1, <2>2 DEF Marks
    <3>2. Shown(status[story[k].step]) \in Says
      BY <3>1, ShownFacts
    <3>3. Line(Shown(status[story[k].step]), story[k].step) \in Lines
      BY <3>1, <3>2, LineIs
    <3>. QED BY <2>2, <3>3 DEF ShownLine
  <2>3. CASE story[k].says # "mark"
    BY <2>1, <2>3 DEF ShownLine
  <2>. QED BY <2>2, <2>3
<1>3. StoryWith(story, status) = [k \in 1..Len(story) |-> ShownLine(story[k], status)]
  BY <1>1 DEF StoryWith
<1>. QED BY <1>1, <1>2, <1>3

LEMMA StoryGrows ==
    ASSUME NEW story \in Seq(Lines), NEW status \in [OpSteps -> Statuses], NEW line \in Lines,
           Marks(story, status),
           line.says = "mark" =>
             /\ line.step \in OpSteps /\ status[line.step] # "none"
             /\ \A k \in DOMAIN story : ~IsMark(story[k], line.step)
    PROVE  /\ Marks(Append(story, line), status)
           /\ StoryWith(Append(story, line), status)
                = Append(StoryWith(story, status), ShownLine(line, status))
           /\ ShownLine(line, status) \in Lines
<1>. DEFINE more == Append(story, line)
            n == Len(story)
            a == StoryWith(more, status)
            b == Append(StoryWith(story, status), ShownLine(line, status))
<1>1. /\ more \in Seq(Lines) /\ n \in Nat /\ Len(more) = n + 1 /\ more[n + 1] = line
      /\ \A k \in 1..n : more[k] = story[k]
      /\ DOMAIN more = 1..(n + 1) /\ DOMAIN story = 1..n
  BY AppendIs
<1>. HIDE DEF more
<1>2. \A k \in 1..(n + 1) : k \in 1..n \/ k = n + 1
  BY <1>1
<1>3. Marks(more, status)
  <2>. SUFFICES ASSUME NEW k \in 1..(n + 1), more[k].says = "mark"
                PROVE  /\ more[k].step \in OpSteps /\ status[more[k].step] # "none"
                       /\ \A j \in 1..(n + 1) : IsMark(more[j], more[k].step) => j = k
    BY <1>1 DEF Marks
  <2>. HIDE DEF n
  <2>1. CASE k \in 1..n
    <3>1. /\ more[k].step \in OpSteps /\ status[more[k].step] # "none"
          /\ \A j \in 1..n : IsMark(more[j], more[k].step) => j = k
      BY <1>1, <2>1 DEF Marks
    <3>2. IsMark(more[n + 1], more[k].step) => FALSE
      BY <1>1, <2>1 DEF IsMark
    <3>. QED BY <1>2, <3>1, <3>2
  <2>2. CASE k = n + 1
    <3>1. more[k] = line
      BY <1>1, <2>2
    <3>2. \A j \in 1..n : ~IsMark(more[j], more[k].step)
      BY <1>1, <3>1
    <3>. QED BY <1>2, <2>2, <3>1, <3>2
  <2>. QED BY <1>2, <2>1, <2>2
<1>4. ShownLine(line, status) \in Lines
  <2>1. CASE line.says = "mark"
    <3>1. Shown(status[line.step]) \in Says
      BY <2>1, ShownFacts
    <3>. QED BY <2>1, <3>1, LineIs DEF ShownLine
  <2>2. CASE line.says # "mark"
    BY <2>2 DEF ShownLine
  <2>. QED BY <2>1, <2>2
<1>5. /\ a \in Seq(Lines) /\ Len(a) = n + 1
      /\ \A k \in 1..(n + 1) : a[k] = ShownLine(more[k], status)
  BY <1>1, <1>3, StoryIs
<1>6. /\ StoryWith(story, status) \in Seq(Lines) /\ Len(StoryWith(story, status)) = n
      /\ \A k \in 1..n : StoryWith(story, status)[k] = ShownLine(story[k], status)
  BY StoryIs
<1>7. /\ b \in Seq(Lines) /\ Len(b) = n + 1 /\ b[n + 1] = ShownLine(line, status)
      /\ \A k \in 1..n : b[k] = StoryWith(story, status)[k]
  BY <1>4, <1>6, AppendIs
<1>. HIDE DEF a, b, n
<1>8. \A k \in 1..(n + 1) : a[k] = b[k]
  BY <1>1, <1>2, <1>5, <1>6, <1>7
<1>9. a = b
  BY <1>5, <1>7, <1>8, SameSequence
<1>. QED BY <1>3, <1>4, <1>9 DEF a, b, more

\* A step without a mark changes nothing of the story.
LEMMA StoryOfOthers ==
    ASSUME NEW story \in Seq(Lines), NEW status \in [OpSteps -> Statuses], Marks(story, status),
           NEW id \in OpSteps, \A k \in DOMAIN story : ~IsMark(story[k], id),
           NEW new, \A other \in OpSteps : other # id => new[other] = status[other]
    PROVE  Marks(story, new) /\ StoryWith(story, new) = StoryWith(story, status)
<1>1. \A k \in DOMAIN story : story[k].says = "mark" => new[story[k].step] = status[story[k].step]
  BY DEF IsMark, Marks
<1>2. Marks(story, new)
  BY <1>1 DEF Marks
<1>3. \A k \in DOMAIN story : ShownLine(story[k], new) = ShownLine(story[k], status)
  BY <1>1 DEF ShownLine
<1>. QED BY <1>2, <1>3 DEF StoryWith

\* A step that ends takes the line of its mark.
LEMMA StoryOfEnd ==
    ASSUME NEW story \in Seq(Lines), NEW status \in [OpSteps -> Statuses], Marks(story, status),
           NEW id \in OpSteps, NEW to \in {"Running", "Done", "Failed"},
           NEW new, new[id] = to, \A other \in OpSteps : other # id => new[other] = status[other]
    PROVE  Marks(story, new)
<1>1. to # "none"
  OBVIOUS
<1>. QED BY <1>1 DEF Marks

LEMMA StoryOfEndShows ==
    ASSUME NEW story \in Seq(Lines), NEW status \in [OpSteps -> Statuses], Marks(story, status),
           NEW id \in OpSteps, NEW to \in {"Running", "Done", "Failed"},
           NEW new, new[id] = to, \A other \in OpSteps : other # id => new[other] = status[other],
           NEW at \in DOMAIN story, story[at] = Line("mark", id)
    PROVE  /\ StoryWith(story, new)[at] = Line(Shown(to), id)
           /\ \A k \in DOMAIN story : k # at =>
                StoryWith(story, new)[k] = StoryWith(story, status)[k]
<1>1. to # "none"
  OBVIOUS
<1>2. IsMark(story[at], id)
  BY DEF IsMark, Line
<1>3. ShownLine(story[at], new) = Line(Shown(to), id)
  BY <1>1, <1>2 DEF ShownLine, IsMark
<1>4. ASSUME NEW k \in DOMAIN story, k # at
      PROVE  ShownLine(story[k], new) = ShownLine(story[k], status)
  <2>1. story[k].says = "mark" => story[k].step \in OpSteps /\ story[k].step # id
    BY <1>2, <1>4 DEF Marks, IsMark
  <2>. QED BY <1>1, <2>1 DEF ShownLine
<1>. QED BY <1>3, <1>4 DEF StoryWith

Tolds == [begun : Seq(OpSteps), status : [OpSteps -> Statuses], story : Seq(Lines)]

LEMMA TellIs ==
    ASSUME NEW t \in Tolds, NEW is \in OfStep \cup {"output"}, NEW id \in OpSteps
    PROVE  LET u == Tell(t, Event(is, id))
           IN  /\ u.begun = IF is = "started" THEN Append(t.begun, id) ELSE t.begun
               /\ u.status \in [OpSteps -> Statuses]
               /\ \A other \in OpSteps : other # id => u.status[other] = t.status[other]
               /\ is \in OfStep => u.status[id] = StatusOf(is)
               /\ is \notin OfStep => u.status = t.status
               /\ u.story = t.story \o StoryOf(t, Event(is, id))
               /\ u.story \in Seq(Lines) => u \in Tolds
<1>. DEFINE u == Tell(t, Event(is, id))
<1>1. Event(is, id).is = is /\ Event(is, id).step = id
  BY DEF Event
<1>2. /\ u.begun = IF is = "started" THEN Append(t.begun, id) ELSE t.begun
      /\ u.status = IF is \in OfStep THEN [t.status EXCEPT ![id] = StatusOf(is)] ELSE t.status
      /\ u.story = t.story \o StoryOf(t, Event(is, id))
  BY <1>1 DEF Tell
<1>3. u = [begun |-> u.begun, status |-> u.status, story |-> u.story]
  BY DEF Tell
<1>. HIDE DEF u
<1>4. u.begun \in Seq(OpSteps)
  BY <1>2 DEF Tolds
<1>5. /\ u.status \in [OpSteps -> Statuses]
      /\ \A other \in OpSteps : other # id => u.status[other] = t.status[other]
      /\ is \in OfStep => u.status[id] = StatusOf(is)
      /\ is \notin OfStep => u.status = t.status
  <2>1. is \in OfStep => StatusOf(is) \in Statuses
    BY StatusIs DEF OfStep, Statuses
  <2>. QED BY <1>2, <2>1 DEF Tolds
<1>6. u.story \in Seq(Lines) => u \in Tolds
  BY <1>3, <1>4, <1>5 DEF Tolds
<1>. QED BY <1>2, <1>5, <1>6 DEF u

LEMMA TellEnd ==
    ASSUME NEW t \in Tolds, NEW is \in {"success", "failure"}
    PROVE  LET u == Tell(t, Event(is, NoStep))
           IN  /\ u.begun = t.begun /\ u.status = t.status
               /\ u.story = t.story \o StoryOf(t, Event(is, NoStep))
               /\ u.story \in Seq(Lines) => u \in Tolds
<1>. DEFINE u == Tell(t, Event(is, NoStep))
<1>1. Event(is, NoStep).is = is /\ is # "started" /\ is \notin OfStep
  BY DEF Event, OfStep
<1>2. u = [begun |-> t.begun, status |-> t.status, story |-> t.story \o StoryOf(t, Event(is, NoStep))]
  BY <1>1 DEF Tell
<1>. HIDE DEF u
<1>. QED BY <1>2 DEF Tolds, u

LEMMA StoryOfIs ==
    ASSUME NEW t, NEW id
    PROVE  /\ ~Styled(op.kind) => \A is : StoryOf(t, Event(is, id)) = <<Line(is, id)>>
           /\ Styled(op.kind) =>
                /\ StoryOf(t, Event("started", id)) =
                     IF t.begun = <<>> THEN <<Line("header", NoStep), Line("mark", id)>>
                     ELSE <<Line("mark", id)>>
                /\ StoryOf(t, Event("output", id)) = <<Line("output", id)>>
                /\ StoryOf(t, Event("finished", id)) = <<>>
                /\ StoryOf(t, Event("failed", id)) = <<Line("error", id)>>
                /\ StoryOf(t, Event("success", id)) =
                     <<Line("context", NoStep), Line("usage", NoStep), Line("empty", NoStep),
                       Line("command", NoStep)>>
                /\ StoryOf(t, Event("failure", id)) = <<Line("aborted", NoStep)>>
<1>1. \A is : Event(is, id).is = is /\ Event(is, id).step = id
  BY DEF Event
<1>2. ASSUME ~Styled(op.kind) PROVE \A is : StoryOf(t, Event(is, id)) = <<Line(is, id)>>
  BY <1>1, <1>2 DEF StoryOf
<1>3. ASSUME Styled(op.kind)
      PROVE  /\ StoryOf(t, Event("started", id)) =
                     IF t.begun = <<>> THEN <<Line("header", NoStep), Line("mark", id)>>
                     ELSE <<Line("mark", id)>>
             /\ StoryOf(t, Event("output", id)) = <<Line("output", id)>>
             /\ StoryOf(t, Event("finished", id)) = <<>>
             /\ StoryOf(t, Event("failed", id)) = <<Line("error", id)>>
             /\ StoryOf(t, Event("success", id)) =
                     <<Line("context", NoStep), Line("usage", NoStep), Line("empty", NoStep),
                       Line("command", NoStep)>>
             /\ StoryOf(t, Event("failure", id)) = <<Line("aborted", NoStep)>>
  <2>1. StoryOf(t, Event("started", id)) =
                     IF t.begun = <<>> THEN <<Line("header", NoStep), Line("mark", id)>>
                     ELSE <<Line("mark", id)>>
    BY <1>1, <1>3 DEF StoryOf
  <2>2. StoryOf(t, Event("output", id)) = <<Line("output", id)>>
    BY <1>1, <1>3 DEF StoryOf
  <2>3. StoryOf(t, Event("finished", id)) = <<>>
    BY <1>1, <1>3 DEF StoryOf
  <2>4. StoryOf(t, Event("failed", id)) = <<Line("error", id)>>
    BY <1>1, <1>3 DEF StoryOf
  <2>5. StoryOf(t, Event("success", id)) =
                     <<Line("context", NoStep), Line("usage", NoStep), Line("empty", NoStep),
                       Line("command", NoStep)>>
    BY <1>1, <1>3 DEF StoryOf
  <2>6. StoryOf(t, Event("failure", id)) = <<Line("aborted", NoStep)>>
    BY <1>1, <1>3 DEF StoryOf
  <2>. QED BY <2>1, <2>2, <2>3, <2>4, <2>5, <2>6
<1>. QED BY <1>2, <1>3

-----------------------------------------------------------------------------
(* The timeline.                                                           *)

Begun(t) ==
    /\ \A id \in OpSteps : t.status[id] # "none" <=> \E k \in DOMAIN t.begun : t.begun[k] = id
    /\ \A j, k \in DOMAIN t.begun : t.begun[j] = t.begun[k] => j = k
RowsTrue(rows, t) ==
    \A k \in DOMAIN rows : rows[k].status # "Running" => rows[k].status = t.status[rows[k].id]
Timeline(t) == [k \in DOMAIN t.begun |-> [id |-> t.begun[k], status |-> t.status[t.begun[k]]]]

LEMMA RowFields ==
    ASSUME NEW row, NEW id, NEW status, row = [id |-> id, status |-> status]
    PROVE  row.id = id /\ row.status = status
  OBVIOUS

LEMMA BegunStarts ==
    ASSUME NEW t \in Tolds, NEW id \in OpSteps, NEW u, Begun(t), t.status[id] = "none",
           u.begun = Append(t.begun, id), u.status[id] = "Running",
           \A other \in OpSteps : other # id => u.status[other] = t.status[other]
    PROVE  Begun(u)
<1>. DEFINE n == Len(t.begun)
<1>1. /\ n \in Nat /\ DOMAIN t.begun = 1..n /\ DOMAIN u.begun = 1..(n + 1) /\ u.begun[n + 1] = id
      /\ \A k \in 1..n : u.begun[k] = t.begun[k] /\ t.begun[k] \in OpSteps
  <2>1. t.begun \in Seq(OpSteps)
    BY DEF Tolds
  <2>. QED BY <2>1, AppendIs
<1>. HIDE DEF n
<1>3. \A k \in 1..(n + 1) : k \in 1..n \/ k = n + 1
  BY <1>1
<1>4. \A k \in 1..n : t.begun[k] # id
  BY <1>1 DEF Begun
<1>5. Begun(u)
  <2>1. ASSUME NEW x \in OpSteps
        PROVE  u.status[x] # "none" <=> \E k \in 1..(n + 1) : u.begun[k] = x
    <3>1. n + 1 \in 1..(n + 1) /\ \A k \in 1..n : k \in 1..(n + 1)
      BY <1>1
    <3>2. CASE x = id
      BY <1>1, <3>1, <3>2
    <3>3. CASE x # id
      <4>1. t.status[x] # "none" <=> \E k \in 1..n : t.begun[k] = x
        BY <1>1 DEF Begun
      <4>. QED BY <1>1, <1>3, <3>1, <3>3, <4>1
    <3>. QED BY <3>2, <3>3
  <2>2. \A j, k \in 1..(n + 1) : u.begun[j] = u.begun[k] => j = k
    <3>1. \A j, k \in 1..n : t.begun[j] = t.begun[k] => j = k
      BY <1>1 DEF Begun
    <3>. QED BY <1>1, <1>3, <1>4, <3>1
  <2>. QED BY <1>1, <2>1, <2>2 DEF Begun
<1>. QED BY <1>5

LEMMA TimelineStarts ==
    ASSUME NEW p \in Panels, NEW t \in Tolds, NEW id \in OpSteps, NEW u,
           Begun(t), RowsTrue(p.steps, t), t.status[id] = "none",
           u.begun = Append(t.begun, id), u.status[id] = "Running",
           \A other \in OpSteps : other # id => u.status[other] = t.status[other]
    PROVE  /\ Begun(u) /\ RowsTrue(p.steps, u) /\ RowsTrue(Row(p, id, "Running"), u)
           /\ p.steps = Timeline(t) => Row(p, id, "Running") = Timeline(u)
<1>. DEFINE row == [id |-> id, status |-> "Running"]
            q == Row(p, id, "Running")
            n == Len(t.begun)
<1>1. /\ n \in Nat /\ DOMAIN t.begun = 1..n /\ DOMAIN u.begun = 1..(n + 1) /\ u.begun[n + 1] = id
      /\ \A k \in 1..n : u.begun[k] = t.begun[k] /\ t.begun[k] \in OpSteps
  <2>1. t.begun \in Seq(OpSteps)
    BY DEF Tolds
  <2>. QED BY <2>1, AppendIs
<1>2. /\ u.status[id] = "Running"
      /\ \A other \in OpSteps : other # id => u.status[other] = t.status[other]
  OBVIOUS
<1>. HIDE DEF n
<1>3. \A k \in 1..(n + 1) : k \in 1..n \/ k = n + 1
  BY <1>1
<1>4. \A k \in 1..n : t.begun[k] # id
  BY <1>1 DEF Begun
<1>5. Begun(u)
  BY BegunStarts
<1>6. p.steps \in Seq(Rows) /\ \A k \in DOMAIN p.steps : p.steps[k] \in Rows
  <2>1. p.steps \in Seq(Rows)
    BY DEF Panels
  <2>. QED BY <2>1
<1>7. RowsTrue(p.steps, u)
  <2>. SUFFICES ASSUME NEW k \in DOMAIN p.steps, p.steps[k].status # "Running"
                PROVE  p.steps[k].status = u.status[p.steps[k].id]
    BY DEF RowsTrue
  <2>1. p.steps[k].status = t.status[p.steps[k].id]
    BY DEF RowsTrue
  <2>2. p.steps[k].id \in OpSteps /\ p.steps[k].status # "none"
    BY <1>6 DEF Rows
  <2>. QED BY <1>2, <2>1, <2>2
<1>8. /\ (\E k \in DOMAIN p.steps : p.steps[k].id = id) =>
           q = [k \in DOMAIN p.steps |-> IF p.steps[k].id = id THEN row ELSE p.steps[k]]
      /\ ~(\E k \in DOMAIN p.steps : p.steps[k].id = id) => q = Append(p.steps, row)
  BY SetStepIs DEF Row
<1>9. row \in Rows /\ row.id = id /\ row.status = "Running"
  BY DEF Rows
<1>. HIDE DEF q, row
<1>10. RowsTrue(q, u)
  <2>1. CASE \E k \in DOMAIN p.steps : p.steps[k].id = id
    BY <1>7, <1>8, <1>9, <2>1 DEF RowsTrue
  <2>2. CASE ~\E k \in DOMAIN p.steps : p.steps[k].id = id
    <3>1. /\ DOMAIN q = 1..(Len(p.steps) + 1) /\ q[Len(p.steps) + 1] = row /\ Len(p.steps) \in Nat
          /\ \A k \in 1..Len(p.steps) : q[k] = p.steps[k]
          /\ DOMAIN p.steps = 1..Len(p.steps)
      BY <1>6, <1>8, <1>9, <2>2, AppendIs
    <3>2. \A k \in 1..(Len(p.steps) + 1) : k \in 1..Len(p.steps) \/ k = Len(p.steps) + 1
      BY <3>1
    <3>. QED BY <1>7, <1>9, <3>1, <3>2 DEF RowsTrue
  <2>. QED BY <2>1, <2>2
<1>11. ASSUME p.steps = Timeline(t) PROVE q = Timeline(u)
  <2>1. /\ DOMAIN p.steps = 1..n
        /\ \A k \in 1..n : p.steps[k] = [id |-> t.begun[k], status |-> t.status[t.begun[k]]]
    BY <1>1, <1>11 DEF Timeline
  <2>2. Len(p.steps) = n
    BY <1>1, <1>6, <2>1
  <2>3. ASSUME NEW k \in 1..n PROVE p.steps[k].id = t.begun[k]
    <3>1. p.steps[k] = [id |-> t.begun[k], status |-> t.status[t.begun[k]]]
      BY <2>1
    <3>. QED BY <3>1, RowFields
  <2>4. q = Append(p.steps, row)
    BY <1>4, <1>8, <2>1, <2>3
  <2>5. /\ q \in Seq(Rows) /\ Len(q) = n + 1 /\ q[n + 1] = row /\ \A k \in 1..n : q[k] = p.steps[k]
        /\ DOMAIN q = 1..(n + 1)
    BY <1>6, <1>9, <2>2, <2>4, AppendIs
  <2>6. Timeline(u) = [k \in 1..(n + 1) |-> [id |-> u.begun[k], status |-> u.status[u.begun[k]]]]
    BY <1>1 DEF Timeline
  <2>7. ASSUME NEW k \in 1..(n + 1)
        PROVE  q[k] = [id |-> u.begun[k], status |-> u.status[u.begun[k]]]
    <3>1. CASE k \in 1..n
      <4>1. u.status[t.begun[k]] = t.status[t.begun[k]]
        BY <1>1, <1>2, <1>4, <3>1
      <4>. QED BY <1>1, <2>1, <2>5, <3>1, <4>1
    <3>2. CASE k = n + 1
      BY <1>1, <1>2, <2>5, <3>2 DEF row
    <3>. QED BY <1>3, <3>1, <3>2
  <2>8. q = [k \in 1..(n + 1) |-> q[k]]
    BY <2>5
  <2>. QED BY <2>6, <2>7, <2>8
<1>. QED BY <1>5, <1>7, <1>10, <1>11 DEF q

LEMMA BegunEnds ==
    ASSUME NEW t, NEW id \in OpSteps, NEW to \in {"Done", "Failed"}, NEW u,
           Begun(t), t.status[id] = "Running", u.begun = t.begun, u.status[id] = to,
           \A other \in OpSteps : other # id => u.status[other] = t.status[other]
    PROVE  Begun(u)
<1>1. to # "none"
  OBVIOUS
<1>2. \A x \in OpSteps : u.status[x] # "none" <=> t.status[x] # "none"
  BY <1>1
<1>. QED BY <1>2 DEF Begun

LEMMA TimelineEnds ==
    ASSUME NEW p \in Panels, NEW t \in Tolds, NEW id \in OpSteps, NEW to \in {"Done", "Failed"},
           NEW u, Begun(t), RowsTrue(p.steps, t), t.status[id] = "Running",
           u.begun = t.begun, u.status[id] = to,
           \A other \in OpSteps : other # id => u.status[other] = t.status[other]
    PROVE  /\ Begun(u) /\ RowsTrue(p.steps, u) /\ RowsTrue(Row(p, id, to), u)
           /\ p.steps = Timeline(t) => Row(p, id, to) = Timeline(u)
<1>. DEFINE row == [id |-> id, status |-> to]
            q == Row(p, id, to)
<1>1. \A k \in DOMAIN t.begun : t.begun[k] \in OpSteps
  <2>1. t.begun \in Seq(OpSteps)
    BY DEF Tolds
  <2>. QED BY <2>1
<1>2. /\ u.status[id] = to
      /\ \A other \in OpSteps : other # id => u.status[other] = t.status[other]
  OBVIOUS
<1>3. Begun(u)
  BY BegunEnds
<1>4. p.steps \in Seq(Rows) /\ \A k \in DOMAIN p.steps : p.steps[k] \in Rows
  <2>1. p.steps \in Seq(Rows)
    BY DEF Panels
  <2>. QED BY <2>1
<1>5. RowsTrue(p.steps, u)
  <2>. SUFFICES ASSUME NEW k \in DOMAIN p.steps, p.steps[k].status # "Running"
                PROVE  p.steps[k].status = u.status[p.steps[k].id]
    BY DEF RowsTrue
  <2>1. p.steps[k].status = t.status[p.steps[k].id]
    BY DEF RowsTrue
  <2>2. p.steps[k].id \in OpSteps
    BY <1>4 DEF Rows
  <2>. QED BY <1>2, <2>1, <2>2
<1>6. /\ (\E k \in DOMAIN p.steps : p.steps[k].id = id) =>
           q = [k \in DOMAIN p.steps |-> IF p.steps[k].id = id THEN row ELSE p.steps[k]]
      /\ ~(\E k \in DOMAIN p.steps : p.steps[k].id = id) => q = Append(p.steps, row)
  <2>1. to \in {"Running", "Done", "Failed"}
    OBVIOUS
  <2>. QED BY <2>1, SetStepIs DEF Row
<1>7. row \in Rows /\ row.id = id /\ row.status = to
  BY DEF Rows
<1>. HIDE DEF q, row
<1>8. RowsTrue(q, u)
  <2>1. CASE \E k \in DOMAIN p.steps : p.steps[k].id = id
    BY <1>2, <1>5, <1>6, <1>7, <2>1 DEF RowsTrue
  <2>2. CASE ~\E k \in DOMAIN p.steps : p.steps[k].id = id
    <3>1. /\ DOMAIN q = 1..(Len(p.steps) + 1) /\ q[Len(p.steps) + 1] = row /\ Len(p.steps) \in Nat
          /\ \A k \in 1..Len(p.steps) : q[k] = p.steps[k]
          /\ DOMAIN p.steps = 1..Len(p.steps)
      BY <1>4, <1>6, <1>7, <2>2, AppendIs
    <3>2. \A k \in 1..(Len(p.steps) + 1) : k \in 1..Len(p.steps) \/ k = Len(p.steps) + 1
      BY <3>1
    <3>. QED BY <1>2, <1>5, <1>7, <3>1, <3>2 DEF RowsTrue
  <2>. QED BY <2>1, <2>2
<1>9. ASSUME p.steps = Timeline(t) PROVE q = Timeline(u)
  <2>1. /\ DOMAIN p.steps = DOMAIN t.begun
        /\ \A k \in DOMAIN t.begun :
             p.steps[k] = [id |-> t.begun[k], status |-> t.status[t.begun[k]]]
    BY <1>9 DEF Timeline
  <2>2. ASSUME NEW k \in DOMAIN t.begun PROVE p.steps[k].id = t.begun[k]
    <3>1. p.steps[k] = [id |-> t.begun[k], status |-> t.status[t.begun[k]]]
      BY <2>1
    <3>. QED BY <3>1, RowFields
  <2>3. \E k \in DOMAIN p.steps : p.steps[k].id = id
    <3>1. \E k \in DOMAIN t.begun : t.begun[k] = id
      BY DEF Begun
    <3>. QED BY <2>1, <2>2, <3>1
  <2>4. q = [k \in DOMAIN t.begun |-> IF t.begun[k] = id THEN row ELSE p.steps[k]]
    BY <1>6, <2>1, <2>2, <2>3
  <2>5. ASSUME NEW k \in DOMAIN t.begun
        PROVE  (IF t.begun[k] = id THEN row ELSE p.steps[k])
                 = [id |-> t.begun[k], status |-> u.status[t.begun[k]]]
    <3>1. CASE t.begun[k] = id
      BY <1>2, <3>1 DEF row
    <3>2. CASE t.begun[k] # id
      BY <1>1, <1>2, <2>1, <3>2
    <3>. QED BY <3>1, <3>2
  <2>. QED BY <2>4, <2>5 DEF Timeline
<1>. QED BY <1>3, <1>5, <1>8, <1>9 DEF q
-----------------------------------------------------------------------------
(* The run of an operation, what is told of it and what its panel shows.   *)

OpKind == [kind : OpKinds, at : Nat, is : {"idle", "between", "running", "failed", "over"},
           lines : Nat]

\* The operation is at one of its steps while it runs it.
OpRight(o) ==
    /\ o \in OpKind
    /\ o.is # "idle" => o.at >= 1
    /\ o.is \in {"running", "failed"} => o.at <= Len(StepIds(o.kind))
    /\ o.is = "failed" => Styled(o.kind)

Plain(story) == \A k \in DOMAIN story : story[k].says # "mark"
EndsInStep(story) == story # <<>> => story[Len(story)].step # NoStep
FitIn(story) == \A k \in DOMAIN story : story[k].step # NoStep => k <= OutputCap

\* What is told of the steps agrees with where the operation is.
Ahead(o, t, from) ==
    \A j \in DOMAIN StepIds(o.kind) : j >= from => t.status[StepIds(o.kind)[j]] = "none"
ToldRight(o, t) ==
    /\ t \in Tolds /\ Begun(t) /\ Marks(t.story, t.status)
    /\ o.is = "idle" => t = NothingTold
    /\ o.is = "between" => Ahead(o, t, o.at)
    /\ o.is = "running" => Ahead(o, t, o.at + 1) /\ t.status[StepIds(o.kind)[o.at]] = "Running"
    /\ ~Styled(o.kind) => Plain(t.story)
    /\ Styled(o.kind) /\ o.is # "over" => EndsInStep(t.story)

\* What the panel shows, whatever the bus lost, and what it shows if nothing was lost.
PanelRight(p, o, t) ==
    p \in Panels /\ InCap(p) /\ p.styled = Styled(o.kind) /\ RowsTrue(p.steps, t)
LogRight(p, t) == p.output = Tailed(StoryWith(t.story, t.status))
PendingRight(p, o, t) ==
    p.pending \in DOMAIN t.story /\ t.story[p.pending] = Line("mark", StepIds(o.kind)[o.at])
PanelTells(p, o, t) ==
    /\ p.steps = Timeline(t)
    /\ ~Styled(o.kind) => LogRight(p, t)
    /\ Styled(o.kind) => (p.header <=> t.begun # <<>>)
    /\ Styled(o.kind) /\ FitIn(t.story) => LogRight(p, t)
    /\ Styled(o.kind) /\ FitIn(t.story) /\ o.is = "running" => PendingRight(p, o, t)

PanelInv ==
    /\ OpRight(op) /\ ToldRight(op, told) /\ PanelRight(panel, op, told) /\ lost \in Nat
    /\ lost = 0 => PanelTells(panel, op, told)

-----------------------------------------------------------------------------
(* The steps of an operation.                                              *)

LEMMA StepsHaveNames ==
    \A id \in OpSteps : id # NoStep
<1>1. ASSUME NEW k \in DOMAIN DestroySteps PROVE DestroySteps[k] # NoStep
  <2>1. DOMAIN DestroySteps = 1..3
    BY DEF DestroySteps
  <2>2. k = 1 \/ k = 2 \/ k = 3
    BY <2>1
  <2>3. /\ DestroySteps[1] = "destroy-kind" /\ DestroySteps[2] = "remove-kubeconfig"
        /\ DestroySteps[3] = "remove-record"
    BY DEF DestroySteps
  <2>. QED BY <2>2, <2>3 DEF NoStep
<1>2. \A k \in DOMAIN PlanIds : PlanIds[k] # NoStep
  BY OutputAssumption
<1>. QED BY <1>1, <1>2 DEF OpSteps

Distinct(s) == \A j, k \in 1..Len(s) : s[j] = s[k] => j = k

LEMMA JoinDistinct ==
    ASSUME NEW S, NEW s \in Seq(S), NEW t \in Seq(S), Distinct(s), Distinct(t),
           \A j \in 1..Len(s), k \in 1..Len(t) : s[j] # t[k]
    PROVE  s \o t \in Seq(S) /\ Distinct(s \o t)
<1>. DEFINE u == s \o t
            m == Len(s)
            n == Len(t)
<1>1. /\ u \in Seq(S) /\ Len(u) = m + n /\ m \in Nat /\ n \in Nat
      /\ \A k \in 1..m : u[k] = s[k]
      /\ \A k \in 1..n : u[m + k] = t[k]
  BY JoinIs
<1>. HIDE DEF u
<1>2. ASSUME NEW k \in 1..(m + n)
      PROVE  \/ k \in 1..m /\ u[k] = s[k]
             \/ k - m \in 1..n /\ u[k] = t[k - m]
  <2>. HIDE DEF m, n
  <2>1. CASE k <= m
    BY <1>1, <2>1
  <2>2. CASE ~(k <= m)
    <3>1. k - m \in 1..n /\ m + (k - m) = k
      BY <1>1, <2>2
    <3>2. u[m + (k - m)] = t[k - m]
      BY <1>1, <3>1
    <3>. QED BY <3>1, <3>2
  <2>. QED BY <2>1, <2>2
<1>3. Distinct(u)
  <2>. SUFFICES ASSUME NEW j \in 1..(m + n), NEW k \in 1..(m + n), u[j] = u[k]
                PROVE  j = k
    BY <1>1 DEF Distinct
  <2>1. CASE j \in 1..m /\ u[j] = s[j] /\ k \in 1..m /\ u[k] = s[k]
    BY <2>1 DEF Distinct
  <2>2. CASE j - m \in 1..n /\ u[j] = t[j - m] /\ k - m \in 1..n /\ u[k] = t[k - m]
    <3>1. j - m = k - m
      BY <2>2 DEF Distinct
    <3>. QED BY <1>1, <3>1
  <2>3. ~(j \in 1..m /\ u[j] = s[j] /\ k - m \in 1..n /\ u[k] = t[k - m])
    OBVIOUS
  <2>4. ~(j - m \in 1..n /\ u[j] = t[j - m] /\ k \in 1..m /\ u[k] = s[k])
    OBVIOUS
  <2>. QED BY <1>2, <2>1, <2>2, <2>3, <2>4
<1>. QED BY <1>1, <1>3 DEF u

LEMMA StepIdsAre ==
    ASSUME NEW kind \in OpKinds
    PROVE  StepIds(kind) \in Seq(OpSteps) /\ Distinct(StepIds(kind))
<1>1. /\ Len(DestroySteps) = 3 /\ DOMAIN DestroySteps = 1..3 /\ DestroySteps[1] = "destroy-kind"
      /\ DestroySteps[2] = "remove-kubeconfig" /\ DestroySteps[3] = "remove-record"
  BY DEF DestroySteps
<1>2. DestroySteps \in Seq(OpSteps) /\ Distinct(DestroySteps)
  <2>1. \A k \in 1..3 : DestroySteps[k] \in OpSteps
    BY <1>1 DEF OpSteps
  <2>2. DestroySteps = [k \in 1..3 |-> DestroySteps[k]]
    BY DEF DestroySteps
  <2>3. DestroySteps \in Seq(OpSteps)
    BY <1>1, <2>1, <2>2
  <2>4. \A k \in 1..3 : k = 1 \/ k = 2 \/ k = 3
    OBVIOUS
  <2>. QED BY <1>1, <2>3, <2>4 DEF Distinct
<1>3. PlanIds \in Seq(OpSteps) /\ Distinct(PlanIds) /\ DOMAIN PlanIds = 1..Len(PlanIds)
  <2>1. PlanIds \in Seq(STRING) /\ Len(PlanIds) \in Nat /\ DOMAIN PlanIds = 1..Len(PlanIds)
    BY OutputAssumption
  <2>2. \A k \in 1..Len(PlanIds) : PlanIds[k] \in OpSteps
    BY <2>1 DEF OpSteps
  <2>3. PlanIds = [k \in 1..Len(PlanIds) |-> PlanIds[k]]
    BY <2>1
  <2>4. PlanIds \in Seq(OpSteps)
    BY <2>1, <2>2, <2>3
  <2>5. Distinct(PlanIds)
    BY <2>1, OutputAssumption DEF Distinct
  <2>. QED BY <2>1, <2>4, <2>5
<1>4. \A j \in 1..3, k \in 1..Len(PlanIds) : DestroySteps[j] # PlanIds[k]
  BY <1>1, <1>3, OutputAssumption
<1>5. <<>> \in Seq(OpSteps) /\ Len(<<>>) = 0 /\ Distinct(<<>>)
  BY DEF Distinct
<1>6. CASE kind = "create"
  <2>1. StepIds(kind) = <<>> \o PlanIds
    BY <1>6 DEF StepIds, DestroyIds
  <2>2. \A j \in 1..Len(<<>>), k \in 1..Len(PlanIds) : <<>>[j] # PlanIds[k]
    BY <1>5
  <2>. QED BY <1>3, <1>5, <2>1, <2>2, JoinDistinct
<1>7. CASE kind = "recreate"
  <2>. DEFINE two == SubSeq(DestroySteps, 1, 2)
  <2>1. StepIds(kind) = two \o PlanIds
    BY <1>7 DEF StepIds, DestroyIds
  <2>2. /\ two \in Seq(OpSteps) /\ Len(two) = 2 /\ two[1] = DestroySteps[1]
        /\ two[2] = DestroySteps[2]
    <3>1. \A i \in 1..2 : DestroySteps[i] \in OpSteps
      BY <1>1 DEF OpSteps
    <3>2. /\ two \in Seq(OpSteps) /\ Len(two) = IF 1 <= 2 THEN 2 - 1 + 1 ELSE 0
          /\ \A i \in 1..(2 - 1 + 1) : two[i] = DestroySteps[1 + i - 1]
      BY <3>1, SubSeqProperties
    <3>3. 1 \in 1..(2 - 1 + 1) /\ 2 \in 1..(2 - 1 + 1) /\ 1 + 1 - 1 = 1 /\ 1 + 2 - 1 = 2
      OBVIOUS
    <3>4. two[1] = DestroySteps[1 + 1 - 1] /\ two[2] = DestroySteps[1 + 2 - 1]
      BY <3>2, <3>3
    <3>. QED BY <3>2, <3>3, <3>4
  <2>. HIDE DEF two
  <2>3. \A j \in 1..2 : j = 1 \/ j = 2
    OBVIOUS
  <2>4. Distinct(two)
    BY <1>1, <2>2, <2>3 DEF Distinct
  <2>5. \A j \in 1..2, k \in 1..Len(PlanIds) : two[j] # PlanIds[k]
    BY <1>4, <2>2, <2>3
  <2>. QED BY <1>3, <2>1, <2>2, <2>4, <2>5, JoinDistinct
<1>8. CASE kind = "destroy"
  <2>1. StepIds(kind) = DestroySteps \o <<>>
    BY <1>8 DEF StepIds, DestroyIds
  <2>2. \A j \in 1..Len(DestroySteps), k \in 1..Len(<<>>) : DestroySteps[j] # <<>>[k]
    BY <1>5
  <2>. QED BY <1>2, <1>5, <2>1, <2>2, JoinDistinct
<1>. QED BY <1>6, <1>7, <1>8 DEF OpKinds

-----------------------------------------------------------------------------
(* What one more line makes of the story and of the log.                   *)

LEMMA FitStory ==
    ASSUME NEW story \in Seq(Lines), FitIn(story), EndsInStep(story)
    PROVE  Len(story) <= OutputCap
<1>1. Len(story) \in Nat /\ OutputCap \in Nat /\ DOMAIN story = 1..Len(story)
  BY OutputAssumption
<1>2. CASE story = <<>>
  BY <1>1, <1>2
<1>3. CASE story # <<>>
  <2>1. Len(story) \in 1..Len(story)
    BY <1>1, <1>3
  <2>. QED BY <1>1, <1>3, <2>1 DEF FitIn, EndsInStep
<1>. QED BY <1>2, <1>3

LEMMA GrowIs ==
    ASSUME NEW story \in Seq(Lines), NEW line \in Lines
    PROVE  /\ Append(story, line) \in Seq(Lines)
           /\ FitIn(Append(story, line)) => FitIn(story)
           /\ line.step # NoStep => EndsInStep(Append(story, line))
           /\ Plain(story) /\ line.says # "mark" => Plain(Append(story, line))
<1>. DEFINE more == Append(story, line)
            n == Len(story)
<1>1. /\ more \in Seq(Lines) /\ n \in Nat /\ Len(more) = n + 1 /\ more[n + 1] = line
      /\ \A k \in 1..n : more[k] = story[k]
      /\ DOMAIN more = 1..(n + 1) /\ DOMAIN story = 1..n
  BY AppendIs
<1>. HIDE DEF more, n
<1>2. \A k \in 1..n : k \in 1..(n + 1)
  BY <1>1
<1>3. \A k \in 1..(n + 1) : k \in 1..n \/ k = n + 1
  BY <1>1
<1>4. FitIn(more) => FitIn(story)
  BY <1>1, <1>2 DEF FitIn
<1>5. line.step # NoStep => EndsInStep(more)
  BY <1>1 DEF EndsInStep
<1>6. Plain(story) /\ line.says # "mark" => Plain(more)
  BY <1>1, <1>3 DEF Plain
<1>. QED BY <1>1, <1>4, <1>5, <1>6 DEF more

LEMMA PlainStory ==
    ASSUME NEW story \in Seq(Lines), NEW status, Plain(story)
    PROVE  Marks(story, status) /\ StoryWith(story, status) = story
<1>1. Marks(story, status)
  BY DEF Marks, Plain
<1>2. \A k \in DOMAIN story : ShownLine(story[k], status) = story[k]
  BY DEF ShownLine, Plain
<1>3. story = [k \in DOMAIN story |-> story[k]]
  OBVIOUS
<1>. QED BY <1>1, <1>2, <1>3 DEF StoryWith

\* A line that is no mark: the log stays the end of the story.
LEMMA LogPushed ==
    ASSUME NEW story \in Seq(Lines), NEW status \in [OpSteps -> Statuses], Marks(story, status),
           NEW line \in Lines, line.says # "mark",
           NEW output, output = Tailed(StoryWith(story, status))
    PROVE  /\ Marks(Append(story, line), status)
           /\ PushLine(output, line) = Tailed(StoryWith(Append(story, line), status))
<1>1. /\ Marks(Append(story, line), status)
      /\ StoryWith(Append(story, line), status) = Append(StoryWith(story, status), line)
  <2>1. ShownLine(line, status) = line
    BY DEF ShownLine
  <2>. QED BY <2>1, StoryGrows
<1>2. StoryWith(story, status) \in Seq(Lines)
  BY StoryIs
<1>. QED BY <1>1, <1>2, PushKeepsTail

\* The statuses once a step has begun.
Begins(status, id, new) ==
    /\ status[id] = "none" /\ new[id] = "Running"
    /\ \A other \in OpSteps : other # id => new[other] = status[other]

\* The mark of a step that begins, shown as the line on which it begins.
LEMMA LogBegun ==
    ASSUME NEW story \in Seq(Lines), NEW status \in [OpSteps -> Statuses], Marks(story, status),
           NEW id \in OpSteps, NEW new \in [OpSteps -> Statuses], Begins(status, id, new)
    PROVE  /\ Marks(Append(story, Line("mark", id)), new)
           /\ StoryWith(Append(story, Line("mark", id)), new)
                = Append(StoryWith(story, status), Line("begun", id))
<1>. DEFINE mark == Line("mark", id)
            more == Append(story, mark)
<1>0. /\ status[id] = "none" /\ new[id] = "Running"
      /\ \A other \in OpSteps : other # id => new[other] = status[other]
  BY DEF Begins
<1>1. mark \in Lines /\ mark.says = "mark" /\ mark.step = id
  BY LineIs DEF Says
<1>2. \A k \in DOMAIN story : ~IsMark(story[k], id)
  BY <1>0 DEF Marks, IsMark
<1>3. Marks(story, new) /\ StoryWith(story, new) = StoryWith(story, status)
  BY <1>0, <1>2, StoryOfOthers
<1>4. new[id] # "none"
  BY <1>0
<1>. HIDE DEF mark
<1>5. ShownLine(mark, new) = Line("begun", id)
  BY <1>0, <1>1, <1>4, ShownFacts DEF ShownLine
<1>6. Marks(more, new) /\ StoryWith(more, new) = Append(StoryWith(story, new), Line("begun", id))
  BY <1>1, <1>2, <1>3, <1>4, <1>5, StoryGrows
<1>. QED BY <1>3, <1>6 DEF mark

LEMMA MarkIsThere ==
    ASSUME NEW story \in Seq(Lines), NEW id \in OpSteps
    PROVE  LET more == Append(story, Line("mark", id))
           IN  /\ more \in Seq(Lines) /\ EndsInStep(more)
               /\ more[Len(story) + 1] = Line("mark", id) /\ Len(more) = Len(story) + 1
               /\ Len(story) + 1 \in DOMAIN more
<1>. DEFINE mark == Line("mark", id)
<1>1. mark \in Lines /\ mark.step = id /\ id # NoStep
  BY LineIs, StepsHaveNames DEF Says
<1>. HIDE DEF mark
<1>2. Append(story, mark) \in Seq(Lines) /\ EndsInStep(Append(story, mark))
  BY <1>1, GrowIs
<1>3. /\ Append(story, mark)[Len(story) + 1] = mark /\ Len(Append(story, mark)) = Len(story) + 1
      /\ Len(story) + 1 \in DOMAIN Append(story, mark)
  BY <1>1, AppendIs
<1>. QED BY <1>2, <1>3 DEF mark

\* A step ends: its mark is on the line of its place, and nothing was cut.
LEMMA LogEnded ==
    ASSUME NEW story \in Seq(Lines), NEW status \in [OpSteps -> Statuses], Marks(story, status),
           NEW id \in OpSteps, NEW to \in {"Done", "Failed"}, NEW p \in Panels,
           Len(story) <= OutputCap, p.output = Tailed(StoryWith(story, status)),
           p.pending \in DOMAIN story, story[p.pending] = Line("mark", id),
           NEW new \in [OpSteps -> Statuses], new[id] = to,
           \A other \in OpSteps : other # id => new[other] = status[other]
    PROVE  Marked(p, Line(Shown(to), id)) = Tailed(StoryWith(story, new))
<1>. DEFINE at == p.pending
<1>1. /\ StoryWith(story, status) \in Seq(Lines) /\ Len(StoryWith(story, status)) = Len(story)
  BY StoryIs
<1>2. p.output = StoryWith(story, status)
  BY <1>1, TailedOfShort
<1>3. at \in DOMAIN p.output
  BY <1>2 DEF StoryWith
<1>4. to \in {"Running", "Done", "Failed"}
  OBVIOUS
<1>5. at \in DOMAIN story /\ story[at] = Line("mark", id) /\ DOMAIN story = 1..Len(story)
  OBVIOUS
<1>. HIDE DEF at
<1>6. Marks(story, new)
  BY <1>4, StoryOfEnd
<1>7. /\ StoryWith(story, new)[at] = Line(Shown(to), id)
      /\ \A k \in DOMAIN story : k # at => StoryWith(story, new)[k] = StoryWith(story, status)[k]
  BY <1>4, <1>5, StoryOfEndShows
<1>8. StoryWith(story, new) \in Seq(Lines) /\ Len(StoryWith(story, new)) = Len(story)
  BY <1>6, StoryIs
<1>9. Tailed(StoryWith(story, new)) = StoryWith(story, new)
  BY <1>8, TailedOfShort
<1>. DEFINE marked == [p.output EXCEPT ![at] = Line(Shown(to), id)]
<1>10. Marked(p, Line(Shown(to), id)) = marked
  BY <1>3 DEF Marked, at
<1>11. /\ Line(Shown(to), id) \in Lines
  <2>1. to \in Statuses /\ to # "none" /\ id \in OpSteps \cup {NoStep}
    BY DEF Statuses
  <2>2. Shown(to) \in Says
    BY <2>1, ShownFacts
  <2>. QED BY <2>1, <2>2, LineIs
<1>12. /\ marked \in Seq(Lines) /\ Len(marked) = Len(story) /\ marked[at] = Line(Shown(to), id)
       /\ \A k \in 1..Len(story) : k # at => marked[k] = p.output[k]
  BY <1>1, <1>2, <1>5, <1>11
<1>. HIDE DEF marked
<1>13. \A k \in 1..Len(story) : marked[k] = StoryWith(story, new)[k]
  BY <1>2, <1>5, <1>7, <1>12
<1>14. marked = StoryWith(story, new)
  BY <1>8, <1>12, <1>13, SameSequence
<1>. QED BY <1>9, <1>10, <1>14

-----------------------------------------------------------------------------
(* What is told, step by step.                                             *)

\* The operation after one of its steps.
Moved(o, is, at) == o \in OpKind /\ o.kind = op.kind /\ o.is = is /\ o.at = at

LEMMA OpIsAt ==
    ASSUME OpRight(op), op.is \in {"between", "running"}, op.at <= Len(StepIds(op.kind))
    PROVE  /\ op.kind \in OpKinds /\ op.at \in Nat
           /\ StepIds(op.kind) \in Seq(OpSteps) /\ Distinct(StepIds(op.kind))
           /\ DOMAIN StepIds(op.kind) = 1..Len(StepIds(op.kind))
           /\ op.at \in DOMAIN StepIds(op.kind) /\ Current \in OpSteps
           /\ Current = StepIds(op.kind)[op.at]
<1>1. op.kind \in OpKinds /\ op.at \in Nat /\ op.at >= 1
  BY DEF OpRight, OpKind
<1>2. /\ StepIds(op.kind) \in Seq(OpSteps) /\ Distinct(StepIds(op.kind))
      /\ DOMAIN StepIds(op.kind) = 1..Len(StepIds(op.kind)) /\ Len(StepIds(op.kind)) \in Nat
  BY <1>1, StepIdsAre
<1>3. op.at \in DOMAIN StepIds(op.kind)
  BY <1>1, <1>2
<1>. QED BY <1>1, <1>2, <1>3 DEF Current

LEMMA AheadMoves ==
    ASSUME NEW o, o.kind \in OpKinds, NEW t, NEW v, v.kind = o.kind, NEW u,
           NEW at \in DOMAIN StepIds(o.kind), Ahead(o, t, at + 1),
           \A other \in OpSteps : other # StepIds(o.kind)[at] => u.status[other] = t.status[other]
    PROVE  Ahead(v, u, at + 1)
<1>1. /\ StepIds(o.kind) \in Seq(OpSteps) /\ Distinct(StepIds(o.kind))
      /\ DOMAIN StepIds(o.kind) = 1..Len(StepIds(o.kind)) /\ Len(StepIds(o.kind)) \in Nat
  BY StepIdsAre
<1>. SUFFICES ASSUME NEW j \in DOMAIN StepIds(o.kind), j >= at + 1
              PROVE  u.status[StepIds(o.kind)[j]] = "none"
  BY DEF Ahead
<1>2. j # at /\ t.status[StepIds(o.kind)[j]] = "none"
  BY <1>1 DEF Ahead
<1>3. StepIds(o.kind)[j] \in OpSteps /\ StepIds(o.kind)[j] # StepIds(o.kind)[at]
  BY <1>1, <1>2 DEF Distinct
<1>. QED BY <1>2, <1>3

\* What is told of a step that begins.
ToldBegun(u, id) ==
    LET first == Append(told.story, Line("header", NoStep))
        base == IF told.begun = <<>> THEN first ELSE told.story
    IN  /\ u.begun = Append(told.begun, id) /\ told.status[id] = "none"
        /\ u.status[id] = "Running" /\ u.status \in [OpSteps -> Statuses]
        /\ \A other \in OpSteps : other # id => u.status[other] = told.status[other]
        /\ ~Styled(op.kind) => u.story = Append(told.story, Line("started", id))
        /\ Styled(op.kind) => u.story = Append(base, Line("mark", id))

\* A story and the lines that an event adds to it.
LEMMA StoryAdds ==
    ASSUME NEW t \in Tolds, NEW id \in OpSteps
    PROVE  /\ ~Styled(op.kind) => \A is \in OfStep \cup {"output"} :
                t.story \o StoryOf(t, Event(is, id)) = Append(t.story, Line(is, id))
           /\ Styled(op.kind) =>
                /\ t.story \o StoryOf(t, Event("started", id)) =
                     Append(IF t.begun = <<>> THEN Append(t.story, Line("header", NoStep))
                            ELSE t.story, Line("mark", id))
                /\ t.story \o StoryOf(t, Event("output", id)) = Append(t.story, Line("output", id))
                /\ t.story \o StoryOf(t, Event("finished", id)) = t.story
                /\ t.story \o StoryOf(t, Event("failed", id)) = Append(t.story, Line("error", id))
<1>1. t.story \in Seq(Lines)
  BY DEF Tolds
<1>2. \A is \in OfStep \cup {"output"} : Line(is, id) \in Lines
  BY LineIs DEF Says, OfStep
<1>3. /\ Line("header", NoStep) \in Lines /\ Line("mark", id) \in Lines
      /\ Line("output", id) \in Lines /\ Line("error", id) \in Lines
  BY LineIs DEF Says
<1>4. \A line \in Lines : t.story \o <<line>> = Append(t.story, line)
  BY <1>1, JoinOne
<1>5. ASSUME ~Styled(op.kind), NEW is \in OfStep \cup {"output"}
      PROVE  t.story \o StoryOf(t, Event(is, id)) = Append(t.story, Line(is, id))
  <2>1. StoryOf(t, Event(is, id)) = <<Line(is, id)>>
    BY <1>5, StoryOfIs
  <2>. QED BY <1>2, <1>4, <2>1
<1>6. ASSUME Styled(op.kind)
      PROVE  t.story \o StoryOf(t, Event("started", id)) =
               Append(IF t.begun = <<>> THEN Append(t.story, Line("header", NoStep))
                      ELSE t.story, Line("mark", id))
  <2>1. CASE t.begun = <<>>
    <3>1. StoryOf(t, Event("started", id)) = <<Line("header", NoStep), Line("mark", id)>>
      BY <1>6, <2>1, StoryOfIs
    <3>2. t.story \o <<Line("header", NoStep), Line("mark", id)>>
            = Append(Append(t.story, Line("header", NoStep)), Line("mark", id))
      BY <1>1, <1>3, JoinTwo
    <3>. QED BY <2>1, <3>1, <3>2
  <2>2. CASE t.begun # <<>>
    <3>1. StoryOf(t, Event("started", id)) = <<Line("mark", id)>>
      BY <1>6, <2>2, StoryOfIs
    <3>. QED BY <1>3, <1>4, <2>2, <3>1
  <2>. QED BY <2>1, <2>2
<1>7. ASSUME Styled(op.kind)
      PROVE  t.story \o StoryOf(t, Event("output", id)) = Append(t.story, Line("output", id))
  <2>1. StoryOf(t, Event("output", id)) = <<Line("output", id)>>
    BY <1>7, StoryOfIs
  <2>. QED BY <1>3, <1>4, <2>1
<1>8. ASSUME Styled(op.kind) PROVE t.story \o StoryOf(t, Event("finished", id)) = t.story
  <2>1. StoryOf(t, Event("finished", id)) = <<>>
    BY <1>8, StoryOfIs
  <2>. QED BY <1>1, <2>1
<1>9. ASSUME Styled(op.kind)
      PROVE  t.story \o StoryOf(t, Event("failed", id)) = Append(t.story, Line("error", id))
  <2>1. StoryOf(t, Event("failed", id)) = <<Line("error", id)>>
    BY <1>9, StoryOfIs
  <2>. QED BY <1>3, <1>4, <2>1
<1>. QED BY <1>5, <1>6, <1>7, <1>8, <1>9

LEMMA ToldStarted ==
    ASSUME OpRight(op), ToldRight(op, told), MoreSteps,
           NEW o, Moved(o, "running", op.at), NEW u, u = Tell(told, Event("started", Current))
    PROVE  OpRight(o) /\ ToldRight(o, u) /\ ToldBegun(u, Current)
<1>. DEFINE id == Current
            S == StepIds(op.kind)
            header == Line("header", NoStep)
            base == IF told.begun = <<>> THEN Append(told.story, header) ELSE told.story
<1>1. op.is = "between" /\ op.at <= Len(S)
  BY DEF MoreSteps
<1>2. /\ op.kind \in OpKinds /\ op.at \in Nat /\ op.at \in DOMAIN S /\ id = S[op.at]
      /\ id \in OpSteps
  BY <1>1, OpIsAt
<1>3. o.kind = op.kind /\ o.is = "running" /\ o.at = op.at /\ o \in OpKind
  BY DEF Moved
<1>4. OpRight(o)
  BY <1>1, <1>2, <1>3 DEF OpRight
<1>5. /\ told \in Tolds /\ Begun(told) /\ Marks(told.story, told.status)
      /\ told.story \in Seq(Lines) /\ told.status \in [OpSteps -> Statuses]
  BY DEF ToldRight, Tolds
<1>6. ~Styled(op.kind) => Plain(told.story)
  BY DEF ToldRight
<1>7. Ahead(op, told, op.at)
  BY <1>1 DEF ToldRight
<1>8. told.status[id] = "none"
  BY <1>2, <1>7 DEF Ahead
<1>9. Ahead(op, told, op.at + 1)
  <2>1. ASSUME NEW j \in DOMAIN S, j >= op.at + 1 PROVE told.status[S[j]] = "none"
    <3>1. j >= op.at
      <4>1. S \in Seq(OpSteps) /\ Len(S) \in Nat /\ j \in 1..Len(S)
        BY <1>2, StepIdsAre
      <4>. QED BY <1>2, <2>1, <4>1
    <3>. QED BY <1>7, <3>1 DEF Ahead
  <2>. QED BY <2>1 DEF Ahead
<1>10. "started" \in OfStep
  BY DEF OfStep
<1>. HIDE DEF S
<1>11. /\ u.begun = Append(told.begun, id) /\ u.status \in [OpSteps -> Statuses]
       /\ \A other \in OpSteps : other # id => u.status[other] = told.status[other]
       /\ u.status[id] = "Running"
  BY <1>2, <1>5, <1>10, TellIs, StatusIs
<1>12. /\ u.story = told.story \o StoryOf(told, Event("started", id))
       /\ u.story \in Seq(Lines) => u \in Tolds
  BY <1>2, <1>5, <1>10, TellIs
<1>. HIDE DEF id
<1>13. ~Styled(op.kind) => u.story = Append(told.story, Line("started", id))
  BY <1>2, <1>5, <1>10, <1>12, StoryAdds
<1>14. Styled(op.kind) => u.story = Append(base, Line("mark", id))
  BY <1>2, <1>5, <1>12, StoryAdds
<1>15. base \in Seq(Lines) /\ Marks(base, told.status)
  <2>1. header \in Lines /\ header.says # "mark"
    BY LineIs DEF Says
  <2>2. Append(told.story, header) \in Seq(Lines)
    BY <1>5, <2>1, GrowIs
  <2>3. Marks(Append(told.story, header), told.status)
    BY <1>5, <2>1, StoryGrows
  <2>. QED BY <1>5, <2>2, <2>3
<1>. HIDE DEF base
<1>16. ASSUME Styled(op.kind)
       PROVE  u.story \in Seq(Lines) /\ Marks(u.story, u.status) /\ EndsInStep(u.story)
  <2>. DEFINE more == Append(base, Line("mark", id))
  <2>1. more \in Seq(Lines) /\ EndsInStep(more)
    BY <1>2, <1>15, MarkIsThere
  <2>2. Marks(more, u.status)
    <3>1. Begins(told.status, id, u.status) /\ id \in OpSteps
      BY <1>2, <1>8, <1>11 DEF Begins
    <3>2. told.status \in [OpSteps -> Statuses] /\ u.status \in [OpSteps -> Statuses]
      BY <1>5, <1>11
    <3>. QED BY <1>15, <3>1, <3>2, LogBegun
  <2>. QED BY <1>14, <1>16, <2>1, <2>2
<1>17. ASSUME ~Styled(op.kind)
       PROVE  u.story \in Seq(Lines) /\ Marks(u.story, u.status) /\ Plain(u.story)
  <2>1. Line("started", id) \in Lines /\ Line("started", id).says # "mark"
    BY <1>2, LineIs DEF Says
  <2>2. u.story \in Seq(Lines) /\ Plain(u.story)
    BY <1>5, <1>6, <1>13, <1>17, <2>1, GrowIs
  <2>. QED BY <2>2, PlainStory
<1>18. u \in Tolds
  BY <1>12, <1>16, <1>17
<1>19. Begun(u)
  BY <1>2, <1>5, <1>8, <1>11, BegunStarts, SMTT(30)
<1>20. Ahead(o, u, op.at + 1)
  <2>1. /\ op.kind \in OpKinds /\ o.kind = op.kind /\ op.at \in DOMAIN StepIds(op.kind)
        /\ \A other \in OpSteps : other # StepIds(op.kind)[op.at] =>
             u.status[other] = told.status[other]
    BY <1>2, <1>3, <1>11 DEF S
  <2>. QED BY <1>9, <2>1, AheadMoves
<1>21. u.status[StepIds(o.kind)[o.at]] = "Running"
  BY <1>2, <1>3, <1>11 DEF S
<1>22. ToldRight(o, u)
  BY <1>3, <1>16, <1>17, <1>18, <1>19, <1>20, <1>21 DEF ToldRight
<1>23. ToldBegun(u, id)
  BY <1>8, <1>11, <1>13, <1>14 DEF ToldBegun, base
<1>. QED BY <1>4, <1>22, <1>23 DEF id

LEMMA RunningIs ==
    ASSUME OpRight(op), ToldRight(op, told), op.is = "running"
    PROVE  /\ op.kind \in OpKinds /\ op.at \in Nat /\ op.at >= 1
           /\ op.at <= Len(StepIds(op.kind)) /\ op.at \in DOMAIN StepIds(op.kind)
           /\ Current = StepIds(op.kind)[op.at] /\ Current \in OpSteps
           /\ told \in Tolds /\ Begun(told) /\ Marks(told.story, told.status)
           /\ told.story \in Seq(Lines) /\ told.status \in [OpSteps -> Statuses]
           /\ told.status[Current] = "Running" /\ Ahead(op, told, op.at + 1)
           /\ ~Styled(op.kind) => Plain(told.story)
           /\ Styled(op.kind) => EndsInStep(told.story)
<1>1. op.at <= Len(StepIds(op.kind)) /\ op.at >= 1
  BY DEF OpRight
<1>2. /\ op.kind \in OpKinds /\ op.at \in Nat /\ op.at \in DOMAIN StepIds(op.kind)
      /\ Current = StepIds(op.kind)[op.at] /\ Current \in OpSteps
  BY <1>1, OpIsAt
<1>3. /\ told \in Tolds /\ Begun(told) /\ Marks(told.story, told.status)
      /\ told.story \in Seq(Lines) /\ told.status \in [OpSteps -> Statuses]
      /\ ~Styled(op.kind) => Plain(told.story)
      /\ Styled(op.kind) => EndsInStep(told.story)
  BY DEF ToldRight, Tolds
<1>4. Ahead(op, told, op.at + 1) /\ told.status[StepIds(op.kind)[op.at]] = "Running"
  BY DEF ToldRight
<1>. QED BY <1>1, <1>2, <1>3, <1>4

\* A line that a step prints.
ToldOf(u, id) ==
    /\ u.begun = told.begun /\ u.status = told.status
    /\ u.story = Append(told.story, Line("output", id))

LEMMA ToldOutput ==
    ASSUME OpRight(op), ToldRight(op, told), op.is = "running",
           NEW o, Moved(o, "running", op.at), NEW u, u = Tell(told, Event("output", Current))
    PROVE  OpRight(o) /\ ToldRight(o, u) /\ ToldOf(u, Current)
<1>. DEFINE id == Current
            line == Line("output", id)
<1>1. /\ op.kind \in OpKinds /\ op.at \in Nat /\ op.at >= 1 /\ id \in OpSteps
      /\ op.at <= Len(StepIds(op.kind)) /\ id = StepIds(op.kind)[op.at]
  BY RunningIs
<1>2. /\ told \in Tolds /\ Begun(told) /\ Marks(told.story, told.status)
      /\ told.story \in Seq(Lines) /\ told.status \in [OpSteps -> Statuses]
  BY RunningIs
<1>3. /\ told.status[id] = "Running" /\ Ahead(op, told, op.at + 1)
      /\ ~Styled(op.kind) => Plain(told.story)
  BY RunningIs
<1>4. o.kind = op.kind /\ o.is = "running" /\ o.at = op.at /\ o \in OpKind
  BY DEF Moved
<1>5. OpRight(o)
  BY <1>1, <1>4 DEF OpRight
<1>6. "output" \notin OfStep
  BY DEF OfStep
<1>7. /\ u.begun = told.begun /\ u.status = told.status
      /\ u.story = told.story \o StoryOf(told, Event("output", id))
      /\ u.story \in Seq(Lines) => u \in Tolds
  <2>1. Event("output", id).is = "output"
    BY DEF Event
  <2>2. u = [begun |-> told.begun, status |-> told.status,
             story |-> told.story \o StoryOf(told, Event("output", id))]
    BY <1>6, <2>1 DEF Tell
  <2>. QED BY <1>2, <2>2 DEF Tolds
<1>. HIDE DEF id
<1>8. u.story = Append(told.story, line)
  BY <1>1, <1>2, <1>7, StoryAdds
<1>9. line \in Lines /\ line.says # "mark" /\ line.step = id /\ id # NoStep
  BY <1>1, LineIs, StepsHaveNames DEF Says
<1>. HIDE DEF line
<1>10. /\ u.story \in Seq(Lines) /\ EndsInStep(u.story)
       /\ ~Styled(op.kind) => Plain(u.story)
  BY <1>2, <1>3, <1>8, <1>9, GrowIs
<1>11. Marks(u.story, u.status)
  BY <1>2, <1>7, <1>8, <1>9, StoryGrows
<1>12. Begun(u)
  BY <1>2, <1>7 DEF Begun
<1>13. Ahead(o, u, op.at + 1)
  BY <1>3, <1>4, <1>7 DEF Ahead
<1>14. u.status[StepIds(o.kind)[o.at]] = "Running"
  BY <1>1, <1>3, <1>4, <1>7
<1>15. ToldRight(o, u)
  BY <1>4, <1>7, <1>10, <1>11, <1>12, <1>13, <1>14 DEF ToldRight
<1>. QED BY <1>5, <1>7, <1>8, <1>15 DEF ToldOf, id, line

\* The end of a step.
ToldEnd(u, id, to) ==
    /\ u.begun = told.begun /\ u.status \in [OpSteps -> Statuses] /\ u.status[id] = to
    /\ \A other \in OpSteps : other # id => u.status[other] = told.status[other]

LEMMA TellEnds ==
    ASSUME OpRight(op), ToldRight(op, told), op.is = "running", NEW is \in {"finished", "failed"},
           NEW u, u = Tell(told, Event(is, Current))
    PROVE  /\ ToldEnd(u, Current, StatusOf(is)) /\ Begun(u) /\ Marks(told.story, u.status)
           /\ u.story = told.story \o StoryOf(told, Event(is, Current))
           /\ u.story \in Seq(Lines) => u \in Tolds
           /\ \A v : v.kind = op.kind => Ahead(v, u, op.at + 1)
<1>. DEFINE id == Current
<1>1. /\ op.kind \in OpKinds /\ id \in OpSteps /\ op.at \in DOMAIN StepIds(op.kind)
      /\ id = StepIds(op.kind)[op.at]
  BY RunningIs
<1>2. /\ told \in Tolds /\ Begun(told) /\ Marks(told.story, told.status)
      /\ told.story \in Seq(Lines) /\ told.status \in [OpSteps -> Statuses]
      /\ told.status[id] = "Running" /\ Ahead(op, told, op.at + 1)
  BY RunningIs
<1>3. /\ is \in OfStep /\ is # "started" /\ StatusOf(is) \in {"Done", "Failed"}
  BY StatusIs DEF OfStep
<1>4. /\ u.begun = told.begun /\ u.status \in [OpSteps -> Statuses] /\ u.status[id] = StatusOf(is)
      /\ \A other \in OpSteps : other # id => u.status[other] = told.status[other]
  BY <1>1, <1>2, <1>3, TellIs
<1>5. /\ u.story = told.story \o StoryOf(told, Event(is, id))
      /\ u.story \in Seq(Lines) => u \in Tolds
  BY <1>1, <1>2, <1>3, TellIs
<1>. HIDE DEF id
<1>6. Begun(u)
  BY <1>1, <1>2, <1>3, <1>4, BegunEnds
<1>7. Marks(told.story, u.status)
  <2>1. StatusOf(is) \in {"Running", "Done", "Failed"}
    BY <1>3
  <2>. QED BY <1>1, <1>2, <1>4, <2>1, StoryOfEnd
<1>8. ASSUME NEW v, v.kind = op.kind PROVE Ahead(v, u, op.at + 1)
  <2>1. \A other \in OpSteps : other # StepIds(op.kind)[op.at] =>
          u.status[other] = told.status[other]
    BY <1>1, <1>4
  <2>. QED BY <1>1, <1>2, <1>8, <2>1, AheadMoves
<1>. QED BY <1>4, <1>5, <1>6, <1>7, <1>8 DEF ToldEnd, id

LEMMA ToldFinished ==
    ASSUME OpRight(op), ToldRight(op, told), op.is = "running",
           NEW o, Moved(o, "between", op.at + 1), NEW u, u = Tell(told, Event("finished", Current))
    PROVE  /\ OpRight(o) /\ ToldRight(o, u) /\ ToldEnd(u, Current, "Done")
           /\ Styled(op.kind) => u.story = told.story
           /\ ~Styled(op.kind) => u.story = Append(told.story, Line("finished", Current))
<1>. DEFINE id == Current
            line == Line("finished", id)
<1>1. op.kind \in OpKinds /\ op.at \in Nat /\ op.at >= 1 /\ id \in OpSteps
  BY RunningIs
<1>2. /\ told \in Tolds /\ told.story \in Seq(Lines)
      /\ ~Styled(op.kind) => Plain(told.story)
      /\ Styled(op.kind) => EndsInStep(told.story)
  BY RunningIs
<1>3. o.kind = op.kind /\ o.is = "between" /\ o.at = op.at + 1 /\ o \in OpKind
  BY DEF Moved
<1>4. OpRight(o)
  BY <1>1, <1>3 DEF OpRight
<1>5. /\ ToldEnd(u, id, "Done") /\ Begun(u) /\ Marks(told.story, u.status)
      /\ u.story = told.story \o StoryOf(told, Event("finished", id))
      /\ u.story \in Seq(Lines) => u \in Tolds
      /\ Ahead(o, u, op.at + 1)
  BY <1>3, TellEnds, StatusIs
<1>. HIDE DEF id
<1>6. Styled(op.kind) => u.story = told.story
  BY <1>1, <1>2, <1>5, StoryAdds
<1>7. ~Styled(op.kind) => u.story = Append(told.story, line)
  <2>1. "finished" \in OfStep
    BY DEF OfStep
  <2>. QED BY <1>1, <1>2, <1>5, <2>1, StoryAdds
<1>8. line \in Lines /\ line.says # "mark"
  BY <1>1, LineIs DEF Says
<1>. HIDE DEF line
<1>9. ASSUME ~Styled(op.kind)
      PROVE  u.story \in Seq(Lines) /\ Plain(u.story) /\ Marks(u.story, u.status)
  <2>1. u.story \in Seq(Lines) /\ Plain(u.story)
    BY <1>2, <1>7, <1>8, <1>9, GrowIs
  <2>. QED BY <2>1, PlainStory
<1>10. u \in Tolds /\ Marks(u.story, u.status)
  BY <1>2, <1>5, <1>6, <1>9
<1>11. Styled(op.kind) => EndsInStep(u.story)
  BY <1>2, <1>6
<1>12. ToldRight(o, u)
  BY <1>3, <1>5, <1>9, <1>10, <1>11 DEF ToldRight
<1>. QED BY <1>4, <1>5, <1>6, <1>7, <1>12 DEF id, line

LEMMA ToldFailed ==
    ASSUME OpRight(op), ToldRight(op, told), op.is = "running",
           NEW is \in {"failed", "over"}, is = "failed" => Styled(op.kind),
           NEW o, Moved(o, is, op.at), NEW u, u = Tell(told, Event("failed", Current))
    PROVE  /\ OpRight(o) /\ ToldRight(o, u) /\ ToldEnd(u, Current, "Failed")
           /\ Styled(op.kind) => u.story = Append(told.story, Line("error", Current))
           /\ ~Styled(op.kind) => u.story = Append(told.story, Line("failed", Current))
<1>. DEFINE id == Current
            line == Line(IF Styled(op.kind) THEN "error" ELSE "failed", id)
<1>1. /\ op.kind \in OpKinds /\ op.at \in Nat /\ op.at >= 1 /\ id \in OpSteps
      /\ op.at <= Len(StepIds(op.kind))
  BY RunningIs
<1>2. /\ told \in Tolds /\ told.story \in Seq(Lines)
      /\ ~Styled(op.kind) => Plain(told.story)
  BY RunningIs
<1>3. /\ o.kind = op.kind /\ o.at = op.at /\ o \in OpKind /\ o.is \in {"failed", "over"}
      /\ o.is = "failed" => Styled(op.kind)
  BY DEF Moved
<1>4. OpRight(o)
  BY <1>1, <1>3 DEF OpRight
<1>5. /\ ToldEnd(u, id, "Failed") /\ Begun(u) /\ Marks(told.story, u.status)
      /\ u.story = told.story \o StoryOf(told, Event("failed", id))
      /\ u.story \in Seq(Lines) => u \in Tolds
  BY TellEnds, StatusIs
<1>. HIDE DEF id
<1>6. u.story = Append(told.story, line)
  <2>1. "failed" \in OfStep
    BY DEF OfStep
  <2>2. Styled(op.kind) => u.story = Append(told.story, Line("error", id))
    BY <1>1, <1>2, <1>5, StoryAdds
  <2>3. ~Styled(op.kind) => u.story = Append(told.story, Line("failed", id))
    BY <1>1, <1>2, <1>5, <2>1, StoryAdds
  <2>. QED BY <2>2, <2>3
<1>7. line \in Lines /\ line.says # "mark" /\ line.step = id /\ id # NoStep
  <2>1. /\ Line("error", id) \in Lines /\ Line("error", id).says = "error"
        /\ Line("failed", id) \in Lines /\ Line("failed", id).says = "failed"
        /\ Line("error", id).step = id /\ Line("failed", id).step = id
    BY <1>1, LineIs DEF Says
  <2>2. id # NoStep
    BY <1>1, StepsHaveNames
  <2>. QED BY <2>1, <2>2
<1>8. line = IF Styled(op.kind) THEN Line("error", id) ELSE Line("failed", id)
  OBVIOUS
<1>. HIDE DEF line
<1>9. /\ u.story \in Seq(Lines) /\ EndsInStep(u.story)
      /\ ~Styled(op.kind) => Plain(u.story)
  BY <1>2, <1>6, <1>7, GrowIs
<1>10. Marks(u.story, u.status)
  <2>1. u.status \in [OpSteps -> Statuses]
    BY <1>5 DEF ToldEnd
  <2>. QED BY <1>2, <1>5, <1>6, <1>7, <2>1, StoryGrows
<1>11. ToldRight(o, u)
  BY <1>3, <1>5, <1>9, <1>10 DEF ToldRight
<1>. QED BY <1>4, <1>5, <1>6, <1>8, <1>11 DEF id

\* The end of the run of a plan: four lines, or one.
Ends(story, is) ==
    IF is = "success"
    THEN Append(Append(Append(Append(story, Line("context", NoStep)), Line("usage", NoStep)),
                       Line("empty", NoStep)), Line("command", NoStep))
    ELSE Append(story, Line("aborted", NoStep))

ToldAtEnd(u, is) ==
    u.begun = told.begun /\ u.status = told.status /\ u.story = Ends(told.story, is)

LEMMA EndLinesAre ==
    /\ Line("context", NoStep) \in Lines /\ Line("context", NoStep).says # "mark"
    /\ Line("usage", NoStep) \in Lines /\ Line("usage", NoStep).says # "mark"
    /\ Line("empty", NoStep) \in Lines /\ Line("empty", NoStep).says # "mark"
    /\ Line("command", NoStep) \in Lines /\ Line("command", NoStep).says # "mark"
    /\ Line("aborted", NoStep) \in Lines /\ Line("aborted", NoStep).says # "mark"
  BY LineIs DEF Says

LEMMA ToldOver ==
    ASSUME OpRight(op), ToldRight(op, told), Styled(op.kind), op.is \in {"between", "failed"},
           NEW is \in {"success", "failure"}, NEW o, Moved(o, "over", op.at),
           NEW u, u = Tell(told, Event(is, NoStep))
    PROVE  OpRight(o) /\ ToldRight(o, u) /\ ToldAtEnd(u, is)
<1>1. OpRight(o) /\ o.kind = op.kind /\ o.is = "over"
  BY DEF OpRight, Moved
<1>2. /\ told \in Tolds /\ Begun(told) /\ Marks(told.story, told.status)
      /\ told.story \in Seq(Lines) /\ told.status \in [OpSteps -> Statuses]
  BY DEF ToldRight, Tolds
<1>3. /\ u.begun = told.begun /\ u.status = told.status
      /\ u.story = told.story \o StoryOf(told, Event(is, NoStep))
      /\ u.story \in Seq(Lines) => u \in Tolds
  BY <1>2, TellEnd
<1>4. /\ u.story = Ends(told.story, is) /\ u.story \in Seq(Lines)
      /\ Marks(u.story, u.status)
  <2>1. CASE is = "success"
    <3>. DEFINE a == Append(told.story, Line("context", NoStep))
                b == Append(a, Line("usage", NoStep))
                c == Append(b, Line("empty", NoStep))
                d == Append(c, Line("command", NoStep))
    <3>1. StoryOf(told, Event("success", NoStep)) =
            <<Line("context", NoStep), Line("usage", NoStep), Line("empty", NoStep),
              Line("command", NoStep)>>
      BY StoryOfIs
    <3>2. u.story = d
      <4>1. told.story \o <<Line("context", NoStep), Line("usage", NoStep),
                            Line("empty", NoStep), Line("command", NoStep)>> = d
        <5>. DEFINE w == Line("context", NoStep)
                    x == Line("usage", NoStep)
                    y == Line("empty", NoStep)
                    z == Line("command", NoStep)
        <5>1. /\ told.story \in Seq(Lines) /\ w \in Lines /\ x \in Lines /\ y \in Lines
              /\ z \in Lines
          BY <1>2, EndLinesAre
        <5>. HIDE DEF w, x, y, z
        <5>2. told.story \o <<w, x, y, z>> = Append(Append(Append(Append(told.story, w), x), y), z)
          BY <5>1, JoinFour, SMTT(30)
        <5>. QED BY <5>2 DEF w, x, y, z
      <4>. HIDE DEF d
      <4>. QED BY <1>3, <2>1, <3>1, <4>1
    <3>3. a \in Seq(Lines) /\ Marks(a, told.status)
      BY <1>2, EndLinesAre, GrowIs, StoryGrows
    <3>. HIDE DEF a
    <3>4. b \in Seq(Lines) /\ Marks(b, told.status)
      BY <1>2, <3>3, EndLinesAre, GrowIs, StoryGrows
    <3>. HIDE DEF b
    <3>5. c \in Seq(Lines) /\ Marks(c, told.status)
      BY <1>2, <3>4, EndLinesAre, GrowIs, StoryGrows
    <3>. HIDE DEF c
    <3>6. d \in Seq(Lines) /\ Marks(d, told.status)
      BY <1>2, <3>5, EndLinesAre, GrowIs, StoryGrows
    <3>. QED BY <1>3, <2>1, <3>2, <3>6 DEF Ends, a, b, c
  <2>2. CASE is = "failure"
    <3>1. StoryOf(told, Event("failure", NoStep)) = <<Line("aborted", NoStep)>>
      BY StoryOfIs
    <3>2. u.story = Append(told.story, Line("aborted", NoStep))
      BY <1>2, <1>3, <2>2, <3>1, EndLinesAre, JoinOne
    <3>3. u.story \in Seq(Lines) /\ Marks(u.story, told.status)
      BY <1>2, <3>2, EndLinesAre, GrowIs, StoryGrows
    <3>. QED BY <1>3, <2>2, <3>2, <3>3 DEF Ends
  <2>. QED BY <2>1, <2>2
<1>5. Begun(u)
  BY <1>2, <1>3 DEF Begun
<1>6. ToldRight(o, u)
  BY <1>1, <1>3, <1>4, <1>5 DEF ToldRight
<1>. QED BY <1>1, <1>3, <1>4, <1>6 DEF ToldAtEnd

-----------------------------------------------------------------------------
(* What the panel shows, step by step.                                     *)

LEMMA PlainLog ==
    ASSUME NEW story \in Seq(Lines), Plain(story), NEW status, NEW new,
           NEW line \in Lines, line.says # "mark",
           NEW output, output = Tailed(StoryWith(story, status))
    PROVE  PushLine(output, line) = Tailed(StoryWith(Append(story, line), new))
<1>1. Append(story, line) \in Seq(Lines) /\ Plain(Append(story, line))
  BY GrowIs
<1>2. StoryWith(Append(story, line), new) = Append(story, line) /\ StoryWith(story, status) = story
  BY <1>1, PlainStory
<1>. QED BY <1>2, PushKeepsTail

\* The panel is right of what is told, if it is of the steps.
LEMMA PanelStays ==
    ASSUME PanelRight(panel, op, told), NEW o, o.kind = op.kind, NEW u, RowsTrue(panel.steps, u)
    PROVE  PanelRight(panel, o, u)
  BY DEF PanelRight

LEMMA SameTimeline ==
    ASSUME NEW t, NEW u, u.begun = t.begun, u.status = t.status
    PROVE  /\ Timeline(u) = Timeline(t)
           /\ \A rows : RowsTrue(rows, t) => RowsTrue(rows, u)
  BY DEF Timeline, RowsTrue

LEMMA PanelStarted ==
    ASSUME OpRight(op), ToldRight(op, told), PanelRight(panel, op, told), MoreSteps,
           NEW o, Moved(o, "running", op.at), NEW u, ToldRight(o, u), ToldBegun(u, Current),
           NEW q, q = ApplyEvent(panel, Event("started", Current))
    PROVE  /\ PanelRight(q, o, u) /\ PanelRight(panel, o, u)
           /\ PanelTells(panel, op, told) => PanelTells(q, o, u)
<1>. DEFINE id == Current
            header == Line("header", NoStep)
            base == IF told.begun = <<>> THEN Append(told.story, header) ELSE told.story
            headed == IF panel.header THEN panel.output ELSE PushLine(panel.output, header)
<1>1. op.is = "between" /\ op.at <= Len(StepIds(op.kind))
  BY DEF MoreSteps
<1>2. id \in OpSteps /\ id = StepIds(op.kind)[op.at]
  BY <1>1, OpIsAt
<1>3. o.kind = op.kind /\ o.is = "running" /\ o.at = op.at
  BY DEF Moved
<1>4. /\ panel \in Panels /\ InCap(panel) /\ panel.styled = Styled(op.kind)
      /\ RowsTrue(panel.steps, told)
  BY DEF PanelRight
<1>5. /\ told \in Tolds /\ Begun(told) /\ Marks(told.story, told.status)
      /\ told.story \in Seq(Lines) /\ told.status \in [OpSteps -> Statuses]
      /\ told.begun \in Seq(OpSteps)
  BY DEF ToldRight, Tolds
<1>6. ~Styled(op.kind) => Plain(told.story)
  BY DEF ToldRight
<1>7. /\ u.begun = Append(told.begun, id) /\ told.status[id] = "none"
      /\ u.status[id] = "Running" /\ u.status \in [OpSteps -> Statuses]
      /\ \A other \in OpSteps : other # id => u.status[other] = told.status[other]
  BY DEF ToldBegun
<1>8. /\ ~Styled(op.kind) => u.story = Append(told.story, Line("started", id))
      /\ Styled(op.kind) => u.story = Append(base, Line("mark", id))
  BY DEF ToldBegun
<1>. HIDE DEF id
<1>9. /\ RowsTrue(panel.steps, u) /\ RowsTrue(Row(panel, id, "Running"), u)
      /\ panel.steps = Timeline(told) => Row(panel, id, "Running") = Timeline(u)
  BY <1>2, <1>4, <1>5, <1>7, TimelineStarts, SMTT(30)
<1>10. CASE ~Styled(op.kind)
  <2>1. ~panel.styled
    BY <1>4, <1>10
  <2>2. "started" \in OfStep
    BY DEF OfStep
  <2>3. /\ q \in Panels /\ InCap(q) /\ ~q.styled
        /\ q.output = PushLine(panel.output, Line("started", id))
        /\ q.steps = Row(panel, id, "Running")
    BY <1>2, <1>4, <2>1, <2>2, ApplyPlain, StatusIs DEF id
  <2>4. Line("started", id) \in Lines /\ Line("started", id).says # "mark"
    BY <1>2, LineIs DEF Says
  <2>5. LogRight(panel, told) => LogRight(q, u)
    <3>. DEFINE line == Line("started", id)
    <3>1. u.story = Append(told.story, line) /\ q.output = PushLine(panel.output, line)
      BY <1>8, <1>10, <2>3
    <3>2. Plain(told.story) /\ line \in Lines /\ line.says # "mark"
      BY <1>6, <1>10, <2>4
    <3>. HIDE DEF line
    <3>3. ASSUME panel.output = Tailed(StoryWith(told.story, told.status))
          PROVE  PushLine(panel.output, line)
                   = Tailed(StoryWith(Append(told.story, line), u.status))
      BY <1>5, <3>2, <3>3, PlainLog
    <3>. QED BY <3>1, <3>3 DEF LogRight
  <2>6. q.styled = Styled(o.kind)
    <3>1. q.styled \in BOOLEAN /\ Styled(o.kind) \in BOOLEAN
      BY <2>3 DEF Panels, Styled
    <3>. QED BY <1>3, <1>10, <2>3, <3>1
  <2>7. PanelRight(q, o, u)
    BY <1>9, <2>3, <2>6 DEF PanelRight
  <2>8. PanelRight(panel, o, u)
    BY <1>3, <1>9, PanelStays
  <2>9. ASSUME PanelTells(panel, op, told) PROVE PanelTells(q, o, u)
    <3>1. panel.steps = Timeline(told) /\ LogRight(panel, told)
      BY <1>10, <2>9 DEF PanelTells
    <3>2. ~Styled(o.kind)
      BY <1>3, <1>10
    <3>. QED BY <1>9, <2>3, <2>5, <3>1, <3>2 DEF PanelTells
  <2>. QED BY <2>7, <2>8, <2>9
<1>11. CASE Styled(op.kind)
  <2>1. panel.styled
    BY <1>4, <1>11
  <2>2. /\ q \in Panels /\ InCap(q) /\ q.styled /\ q.header
        /\ q.output = PushLine(headed, Line("begun", id)) /\ q.pending = Len(headed) + 1
        /\ q.steps = Row(panel, id, "Running")
    BY <1>2, <1>4, <2>1, ApplyStarted DEF id
  <2>3. q.styled = Styled(o.kind)
    <3>1. q.styled \in BOOLEAN /\ Styled(o.kind) \in BOOLEAN
      BY <2>2 DEF Panels, Styled
    <3>. QED BY <1>3, <1>11, <2>2, <3>1
  <2>4. PanelRight(q, o, u)
    BY <1>9, <2>2, <2>3 DEF PanelRight
  <2>5. PanelRight(panel, o, u)
    BY <1>3, <1>9, PanelStays
  <2>6. header \in Lines /\ header.says # "mark"
    BY LineIs DEF Says
  <2>7. Line("mark", id) \in Lines
    BY <1>2, LineIs DEF Says
  <2>8. base \in Seq(Lines) /\ Marks(base, told.status) /\ (FitIn(base) => FitIn(told.story))
    <3>1. /\ Append(told.story, header) \in Seq(Lines)
          /\ FitIn(Append(told.story, header)) => FitIn(told.story)
      BY <1>5, <2>6, GrowIs
    <3>2. Marks(Append(told.story, header), told.status)
      BY <1>5, <2>6, StoryGrows
    <3>. QED BY <1>5, <3>1, <3>2
  <2>9. ASSUME PanelTells(panel, op, told) PROVE PanelTells(q, o, u)
    <3>1. /\ panel.steps = Timeline(told) /\ (panel.header <=> told.begun # <<>>)
          /\ FitIn(told.story) => LogRight(panel, told)
      BY <1>11, <2>9 DEF PanelTells
    <3>2. u.begun # <<>>
      BY <1>2, <1>5, <1>7
    <3>3. FitIn(u.story) => FitIn(base)
      <4>. HIDE DEF base
      <4>. QED BY <1>8, <1>11, <2>7, <2>8, GrowIs
    <3>4. ASSUME FitIn(u.story) PROVE LogRight(q, u) /\ PendingRight(q, o, u)
      <4>1. LogRight(panel, told)
        BY <2>8, <3>1, <3>3, <3>4
      <4>2. headed = Tailed(StoryWith(base, told.status))
        <5>1. CASE told.begun = <<>>
          <6>1. headed = PushLine(panel.output, header) /\ base = Append(told.story, header)
            BY <3>1, <5>1
          <6>2. panel.output = Tailed(StoryWith(told.story, told.status))
            BY <4>1 DEF LogRight
          <6>. HIDE DEF headed, base, header
          <6>. QED BY <1>5, <2>6, <6>1, <6>2, LogPushed
        <5>2. CASE told.begun # <<>>
          BY <3>1, <4>1, <5>2 DEF LogRight
        <5>. QED BY <5>1, <5>2
      <4>. HIDE DEF headed, base
      <4>. DEFINE more == Append(base, Line("mark", id))
      <4>3. /\ more \in Seq(Lines) /\ EndsInStep(more) /\ more[Len(base) + 1] = Line("mark", id)
            /\ Len(more) = Len(base) + 1 /\ Len(base) + 1 \in DOMAIN more
        BY <1>2, <2>8, MarkIsThere
      <4>4. PushLine(headed, Line("begun", id)) = Tailed(StoryWith(more, u.status))
        <5>1. base \in Seq(Lines) /\ Marks(base, told.status)
          BY <2>8
        <5>2. StoryWith(more, u.status) = Append(StoryWith(base, told.status), Line("begun", id))
          <6>1. Begins(told.status, id, u.status) /\ id \in OpSteps
            BY <1>2, <1>7 DEF Begins
          <6>2. told.status \in [OpSteps -> Statuses] /\ u.status \in [OpSteps -> Statuses]
            BY <1>5, <1>7
          <6>. QED BY <5>1, <6>1, <6>2, LogBegun
        <5>3. StoryWith(base, told.status) \in Seq(Lines)
          BY <1>5, <5>1, StoryIs
        <5>4. Line("begun", id) \in Lines
          BY <1>2, LineIs DEF Says
        <5>. QED BY <4>2, <5>2, <5>3, <5>4, PushKeepsTail
      <4>5. u.story = more
        BY <1>8, <1>11
      <4>. HIDE DEF more
      <4>6. LogRight(q, u)
        BY <2>2, <4>5, <4>4 DEF LogRight
      <4>7. Len(base) + 1 <= OutputCap /\ Len(base) \in Nat
        BY <2>8, <3>4, <4>3, <4>5, FitStory
      <4>8. Len(headed) = Len(base)
        <5>1. /\ StoryWith(base, told.status) \in Seq(Lines)
              /\ Len(StoryWith(base, told.status)) = Len(base)
          BY <1>5, <2>8, StoryIs
        <5>2. Len(base) <= OutputCap
          BY <4>7, OutputAssumption
        <5>. QED BY <4>2, <5>1, <5>2, TailedOfShort
      <4>9. Line("mark", StepIds(o.kind)[o.at]) = Line("mark", id)
        BY <1>2, <1>3
      <4>10. PendingRight(q, o, u)
        BY <2>2, <4>3, <4>5, <4>8, <4>9 DEF PendingRight
      <4>. QED BY <4>6, <4>10
    <3>. QED BY <1>3, <1>9, <1>11, <2>2, <3>1, <3>2, <3>4 DEF PanelTells
  <2>. QED BY <2>4, <2>5, <2>9
<1>. QED BY <1>10, <1>11

LEMMA StyledAre ==
    ASSUME NEW q \in Panels, NEW kind \in OpKinds, q.styled <=> Styled(kind)
    PROVE  q.styled = Styled(kind)
<1>1. q.styled \in BOOLEAN /\ Styled(kind) \in BOOLEAN
  BY DEF Panels, Styled
<1>. QED BY <1>1

LEMMA PanelOutput ==
    ASSUME OpRight(op), ToldRight(op, told), PanelRight(panel, op, told), op.is = "running",
           NEW o, Moved(o, "running", op.at), NEW u, ToldOf(u, Current),
           NEW q, q = ApplyEvent(panel, Event("output", Current))
    PROVE  /\ PanelRight(q, o, u) /\ PanelRight(panel, o, u)
           /\ PanelTells(panel, op, told) => PanelTells(q, o, u)
<1>. DEFINE id == Current
            line == Line("output", id)
<1>1. op.kind \in OpKinds /\ id \in OpSteps /\ o.kind = op.kind /\ o.is = "running" /\ o.at = op.at
  BY RunningIs DEF Moved
<1>2. /\ panel \in Panels /\ InCap(panel) /\ panel.styled = Styled(op.kind)
      /\ RowsTrue(panel.steps, told)
  BY DEF PanelRight
<1>3. /\ Marks(told.story, told.status) /\ told.story \in Seq(Lines)
      /\ told.status \in [OpSteps -> Statuses] /\ (~Styled(op.kind) => Plain(told.story))
  BY RunningIs
<1>4. u.begun = told.begun /\ u.status = told.status /\ u.story = Append(told.story, line)
  BY DEF ToldOf
<1>5. line \in Lines /\ line.says # "mark"
  BY <1>1, LineIs DEF Says
<1>6. Timeline(u) = Timeline(told) /\ RowsTrue(panel.steps, u)
  BY <1>2, <1>4, SameTimeline
<1>7. /\ q \in Panels /\ InCap(q) /\ (q.styled <=> panel.styled) /\ q.steps = panel.steps
      /\ q.output = PushLine(panel.output, line)
      /\ panel.styled => q.header = panel.header /\ q.pending = panel.pending
  <2>1. CASE ~panel.styled
    <3>1. "output" \notin OfStep
      BY DEF OfStep
    <3>2. /\ q \in Panels /\ InCap(q) /\ ~q.styled /\ q.output = PushLine(panel.output, line)
          /\ q.steps = IF "output" \in OfStep THEN Row(panel, id, StatusOf("output"))
                       ELSE panel.steps
      BY <1>1, <1>2, <2>1, ApplyPlain
    <3>. QED BY <2>1, <3>1, <3>2
  <2>2. CASE panel.styled
    BY <1>1, <1>2, <2>2, ApplyOutput
  <2>. QED BY <2>1, <2>2
<1>. HIDE DEF line
<1>8. PanelRight(q, o, u)
  <2>1. q.styled = Styled(o.kind)
    BY <1>1, <1>2, <1>7, StyledAre
  <2>. QED BY <1>6, <1>7, <2>1 DEF PanelRight
<1>9. PanelRight(panel, o, u)
  BY <1>1, <1>6, PanelStays
<1>10. LogRight(panel, told) => LogRight(q, u)
  BY <1>3, <1>4, <1>5, <1>7, LogPushed DEF LogRight
<1>11. FitIn(u.story) => FitIn(told.story)
  BY <1>3, <1>4, <1>5, GrowIs
<1>12. PendingRight(panel, op, told) /\ panel.styled => PendingRight(q, o, u)
  <2>1. /\ \A k \in 1..Len(told.story) : u.story[k] = told.story[k]
        /\ DOMAIN told.story = 1..Len(told.story) /\ DOMAIN u.story = 1..(Len(told.story) + 1)
        /\ Len(told.story) \in Nat
    BY <1>3, <1>4, <1>5, AppendIs
  <2>2. \A k \in DOMAIN told.story : k \in DOMAIN u.story
    BY <2>1
  <2>. QED BY <1>1, <1>7, <2>1, <2>2 DEF PendingRight
<1>13. ASSUME PanelTells(panel, op, told) PROVE PanelTells(q, o, u)
  <2>1. q.steps = Timeline(u)
    BY <1>6, <1>7, <1>13 DEF PanelTells
  <2>2. ~Styled(op.kind) => LogRight(q, u)
    BY <1>10, <1>13 DEF PanelTells
  <2>3. Styled(op.kind) => (q.header <=> u.begun # <<>>)
    BY <1>2, <1>4, <1>7, <1>13 DEF PanelTells
  <2>4. Styled(op.kind) /\ FitIn(u.story) => LogRight(q, u)
    BY <1>10, <1>11, <1>13 DEF PanelTells
  <2>5. Styled(op.kind) /\ FitIn(u.story) => PendingRight(q, o, u)
    BY <1>2, <1>11, <1>12, <1>13 DEF PanelTells
  <2>. QED BY <1>1, <2>1, <2>2, <2>3, <2>4, <2>5 DEF PanelTells
<1>. QED BY <1>8, <1>9, <1>13

\* The end of a step: its row, and its mark on the line of its own place.
LEMMA PanelEnds ==
    ASSUME OpRight(op), ToldRight(op, told), PanelRight(panel, op, told), op.is = "running",
           NEW to \in {"Done", "Failed"}, NEW u, ToldEnd(u, Current, to)
    PROVE  /\ RowsTrue(panel.steps, u) /\ RowsTrue(Row(panel, Current, to), u)
           /\ panel.steps = Timeline(told) => Row(panel, Current, to) = Timeline(u)
           /\ PanelTells(panel, op, told) /\ Styled(op.kind) /\ FitIn(told.story) =>
                Marked(panel, Line(Shown(to), Current)) = Tailed(StoryWith(told.story, u.status))
<1>. DEFINE id == Current
<1>1. id \in OpSteps /\ id = StepIds(op.kind)[op.at]
  BY RunningIs
<1>2. panel \in Panels /\ RowsTrue(panel.steps, told)
  BY DEF PanelRight
<1>3. /\ told \in Tolds /\ Begun(told) /\ Marks(told.story, told.status)
      /\ told.story \in Seq(Lines) /\ told.status \in [OpSteps -> Statuses]
      /\ told.status[id] = "Running"
  BY RunningIs
<1>4. Styled(op.kind) => EndsInStep(told.story)
  BY RunningIs
<1>5. /\ u.begun = told.begun /\ u.status \in [OpSteps -> Statuses] /\ u.status[id] = to
      /\ \A other \in OpSteps : other # id => u.status[other] = told.status[other]
  BY DEF ToldEnd
<1>. HIDE DEF id
<1>6. /\ RowsTrue(panel.steps, u) /\ RowsTrue(Row(panel, id, to), u)
      /\ panel.steps = Timeline(told) => Row(panel, id, to) = Timeline(u)
  BY <1>1, <1>2, <1>3, <1>5, TimelineEnds, SMTT(30)
<1>7. ASSUME PanelTells(panel, op, told), Styled(op.kind), FitIn(told.story)
      PROVE  Marked(panel, Line(Shown(to), id)) = Tailed(StoryWith(told.story, u.status))
  <2>1. Len(told.story) <= OutputCap
    BY <1>3, <1>4, <1>7, FitStory
  <2>2. panel.output = Tailed(StoryWith(told.story, told.status))
    BY <1>7 DEF PanelTells, LogRight
  <2>3. panel.pending \in DOMAIN told.story /\ told.story[panel.pending] = Line("mark", id)
    BY <1>1, <1>7 DEF PanelTells, PendingRight
  <2>. QED BY <1>1, <1>2, <1>3, <1>5, <2>1, <2>2, <2>3, LogEnded, SMTT(30)
<1>. QED BY <1>6, <1>7 DEF id

LEMMA PanelFinished ==
    ASSUME OpRight(op), ToldRight(op, told), PanelRight(panel, op, told), op.is = "running",
           NEW o, Moved(o, "between", op.at + 1), NEW u, ToldEnd(u, Current, "Done"),
           Styled(op.kind) => u.story = told.story,
           ~Styled(op.kind) => u.story = Append(told.story, Line("finished", Current)),
           NEW q, q = ApplyEvent(panel, Event("finished", Current))
    PROVE  /\ PanelRight(q, o, u) /\ PanelRight(panel, o, u)
           /\ PanelTells(panel, op, told) => PanelTells(q, o, u)
<1>. DEFINE id == Current
            line == Line("finished", id)
<1>1. op.kind \in OpKinds /\ id \in OpSteps /\ o.kind = op.kind /\ o.is = "between"
  BY RunningIs DEF Moved
<1>2. panel \in Panels /\ InCap(panel) /\ panel.styled = Styled(op.kind)
  BY DEF PanelRight
<1>3. /\ told.story \in Seq(Lines) /\ told.status \in [OpSteps -> Statuses]
      /\ (~Styled(op.kind) => Plain(told.story))
  BY RunningIs
<1>4. u.begun = told.begun
  BY DEF ToldEnd
<1>5. /\ RowsTrue(panel.steps, u) /\ RowsTrue(Row(panel, id, "Done"), u)
      /\ panel.steps = Timeline(told) => Row(panel, id, "Done") = Timeline(u)
  BY PanelEnds
<1>6. PanelTells(panel, op, told) /\ Styled(op.kind) /\ FitIn(told.story) =>
        Marked(panel, Line("done", id)) = Tailed(StoryWith(told.story, u.status))
  BY PanelEnds, ShownFacts
<1>7. /\ q \in Panels /\ InCap(q) /\ (q.styled <=> panel.styled) /\ q.steps = Row(panel, id, "Done")
      /\ ~panel.styled => q.output = PushLine(panel.output, line)
      /\ panel.styled => q.header = panel.header /\ q.output = Marked(panel, Line("done", id))
  <2>1. CASE ~panel.styled
    <3>1. "finished" \in OfStep
      BY DEF OfStep
    <3>2. /\ q \in Panels /\ InCap(q) /\ ~q.styled /\ q.output = PushLine(panel.output, line)
          /\ q.steps = Row(panel, id, StatusOf("finished"))
      BY <1>1, <1>2, <2>1, <3>1, ApplyPlain
    <3>. QED BY <2>1, <3>2, StatusIs
  <2>2. CASE panel.styled
    BY <1>1, <1>2, <2>2, ApplyFinished
  <2>. QED BY <2>1, <2>2
<1>8. line \in Lines /\ line.says # "mark"
  BY <1>1, LineIs DEF Says
<1>9. ~Styled(op.kind) => u.story = Append(told.story, line)
  OBVIOUS
<1>. HIDE DEF line, id
<1>10. PanelRight(q, o, u)
  <2>1. q.styled = Styled(o.kind)
    BY <1>1, <1>2, <1>7, StyledAre
  <2>. QED BY <1>5, <1>7, <2>1 DEF PanelRight
<1>11. PanelRight(panel, o, u)
  BY <1>1, <1>5, PanelStays
<1>12. ASSUME PanelTells(panel, op, told) PROVE PanelTells(q, o, u)
  <2>1. q.steps = Timeline(u)
    BY <1>5, <1>7, <1>12 DEF PanelTells
  <2>2. ASSUME ~Styled(op.kind) PROVE LogRight(q, u)
    <3>1. panel.output = Tailed(StoryWith(told.story, told.status)) /\ Plain(told.story)
      BY <1>3, <1>12, <2>2 DEF PanelTells, LogRight
    <3>2. PushLine(panel.output, line) = Tailed(StoryWith(Append(told.story, line), u.status))
      BY <1>3, <1>8, <3>1, PlainLog
    <3>. QED BY <1>2, <1>7, <1>9, <2>2, <3>2 DEF LogRight
  <2>3. Styled(op.kind) => (q.header <=> u.begun # <<>>)
    BY <1>2, <1>4, <1>7, <1>12 DEF PanelTells
  <2>4. Styled(op.kind) /\ FitIn(u.story) => LogRight(q, u)
    BY <1>2, <1>6, <1>7, <1>12 DEF LogRight
  <2>. QED BY <1>1, <2>1, <2>2, <2>3, <2>4 DEF PanelTells
<1>. QED BY <1>10, <1>11, <1>12

LEMMA PanelFailed ==
    ASSUME OpRight(op), ToldRight(op, told), PanelRight(panel, op, told), op.is = "running",
           NEW is \in {"failed", "over"}, NEW o, Moved(o, is, op.at), NEW u,
           ToldEnd(u, Current, "Failed"), Marks(told.story, u.status),
           Styled(op.kind) => u.story = Append(told.story, Line("error", Current)),
           ~Styled(op.kind) => u.story = Append(told.story, Line("failed", Current)),
           NEW q, q = ApplyEvent(panel, Event("failed", Current))
    PROVE  /\ PanelRight(q, o, u) /\ PanelRight(panel, o, u)
           /\ PanelTells(panel, op, told) => PanelTells(q, o, u)
<1>. DEFINE id == Current
            line == Line("failed", id)
            error == Line("error", id)
<1>1. op.kind \in OpKinds /\ id \in OpSteps /\ o.kind = op.kind /\ o.is # "running"
  BY RunningIs DEF Moved
<1>2. panel \in Panels /\ InCap(panel) /\ panel.styled = Styled(op.kind)
  BY DEF PanelRight
<1>3. /\ told.story \in Seq(Lines) /\ told.status \in [OpSteps -> Statuses]
      /\ (~Styled(op.kind) => Plain(told.story))
  BY RunningIs
<1>4. u.begun = told.begun /\ u.status \in [OpSteps -> Statuses]
  BY DEF ToldEnd
<1>5. /\ RowsTrue(panel.steps, u) /\ RowsTrue(Row(panel, id, "Failed"), u)
      /\ panel.steps = Timeline(told) => Row(panel, id, "Failed") = Timeline(u)
  BY PanelEnds
<1>6. PanelTells(panel, op, told) /\ Styled(op.kind) /\ FitIn(told.story) =>
        Marked(panel, line) = Tailed(StoryWith(told.story, u.status))
  BY PanelEnds, ShownFacts
<1>7. /\ q \in Panels /\ InCap(q) /\ (q.styled <=> panel.styled)
      /\ q.steps = Row(panel, id, "Failed")
      /\ ~panel.styled => q.output = PushLine(panel.output, line)
      /\ panel.styled => q.header = panel.header /\ q.output = PushLine(Marked(panel, line), error)
  <2>1. CASE ~panel.styled
    <3>1. "failed" \in OfStep
      BY DEF OfStep
    <3>2. /\ q \in Panels /\ InCap(q) /\ ~q.styled /\ q.output = PushLine(panel.output, line)
          /\ q.steps = Row(panel, id, StatusOf("failed"))
      BY <1>1, <1>2, <2>1, <3>1, ApplyPlain
    <3>. QED BY <2>1, <3>2, StatusIs
  <2>2. CASE panel.styled
    BY <1>1, <1>2, <2>2, ApplyFailed
  <2>. QED BY <2>1, <2>2
<1>8. line \in Lines /\ line.says # "mark" /\ error \in Lines /\ error.says # "mark"
  BY <1>1, LineIs DEF Says
<1>9. /\ ~Styled(op.kind) => u.story = Append(told.story, line)
      /\ Styled(op.kind) => u.story = Append(told.story, error)
  OBVIOUS
<1>. HIDE DEF line, error, id
<1>10. PanelRight(q, o, u)
  <2>1. q.styled = Styled(o.kind)
    BY <1>1, <1>2, <1>7, StyledAre
  <2>. QED BY <1>5, <1>7, <2>1 DEF PanelRight
<1>11. PanelRight(panel, o, u)
  BY <1>1, <1>5, PanelStays
<1>12. ASSUME PanelTells(panel, op, told) PROVE PanelTells(q, o, u)
  <2>1. q.steps = Timeline(u)
    BY <1>5, <1>7, <1>12 DEF PanelTells
  <2>2. ASSUME ~Styled(op.kind) PROVE LogRight(q, u)
    <3>1. panel.output = Tailed(StoryWith(told.story, told.status)) /\ Plain(told.story)
      BY <1>3, <1>12, <2>2 DEF PanelTells, LogRight
    <3>2. PushLine(panel.output, line) = Tailed(StoryWith(Append(told.story, line), u.status))
      BY <1>3, <1>8, <3>1, PlainLog
    <3>. QED BY <1>2, <1>7, <1>9, <2>2, <3>2 DEF LogRight
  <2>3. Styled(op.kind) => (q.header <=> u.begun # <<>>)
    BY <1>2, <1>4, <1>7, <1>12 DEF PanelTells
  <2>4. ASSUME Styled(op.kind), FitIn(u.story) PROVE LogRight(q, u)
    <3>1. u.story = Append(told.story, error)
      BY <1>9, <2>4
    <3>2. FitIn(told.story)
      BY <1>3, <1>8, <2>4, <3>1, GrowIs
    <3>3. Marked(panel, line) = Tailed(StoryWith(told.story, u.status))
      BY <1>6, <1>12, <2>4, <3>2
    <3>4. PushLine(Marked(panel, line), error)
            = Tailed(StoryWith(Append(told.story, error), u.status))
      BY <1>3, <1>4, <1>8, <3>3, LogPushed
    <3>. QED BY <1>2, <1>7, <2>4, <3>1, <3>4 DEF LogRight
  <2>. QED BY <1>1, <2>1, <2>2, <2>3, <2>4 DEF PanelTells
<1>. QED BY <1>10, <1>11, <1>12

LEMMA EndsAre ==
    ASSUME NEW story \in Seq(Lines), NEW status \in [OpSteps -> Statuses], Marks(story, status),
           NEW is \in {"success", "failure"}, NEW p \in Panels, InCap(p), p.styled,
           NEW q, q = ApplyEvent(p, Event(is, NoStep))
    PROVE  /\ q \in Panels /\ InCap(q) /\ q.styled /\ q.header = p.header /\ q.steps = p.steps
           /\ FitIn(Ends(story, is)) => FitIn(story)
           /\ p.output = Tailed(StoryWith(story, status)) =>
                q.output = Tailed(StoryWith(Ends(story, is), status))
<1>1. CASE is = "failure"
  <2>. DEFINE line == Line("aborted", NoStep)
  <2>1. /\ q \in Panels /\ InCap(q) /\ q.styled /\ q.header = p.header /\ q.steps = p.steps
        /\ q.output = PushLine(p.output, line)
    BY <1>1, ApplyFailure
  <2>2. Ends(story, is) = Append(story, line)
    BY <1>1 DEF Ends
  <2>3. line \in Lines /\ line.says # "mark"
    BY EndLinesAre
  <2>. HIDE DEF line
  <2>4. FitIn(Append(story, line)) => FitIn(story)
    BY <2>3, GrowIs
  <2>5. ASSUME p.output = Tailed(StoryWith(story, status))
        PROVE  PushLine(p.output, line) = Tailed(StoryWith(Append(story, line), status))
    BY <2>3, <2>5, LogPushed
  <2>. QED BY <2>1, <2>2, <2>4, <2>5
<1>2. CASE is = "success"
  <2>. DEFINE a == Append(story, Line("context", NoStep))
              b == Append(a, Line("usage", NoStep))
              c == Append(b, Line("empty", NoStep))
              d == Append(c, Line("command", NoStep))
              w == PushLine(p.output, Line("context", NoStep))
              x == PushLine(w, Line("usage", NoStep))
              y == PushLine(x, Line("empty", NoStep))
              z == PushLine(y, Line("command", NoStep))
  <2>1. /\ q \in Panels /\ InCap(q) /\ q.styled /\ q.header = p.header /\ q.steps = p.steps
        /\ q.output = z
    BY <1>2, ApplySuccess
  <2>2. Ends(story, is) = d
    BY <1>2 DEF Ends
  <2>3. /\ a \in Seq(Lines) /\ Marks(a, status) /\ (FitIn(a) => FitIn(story))
        /\ p.output = Tailed(StoryWith(story, status)) => w = Tailed(StoryWith(a, status))
    BY EndLinesAre, GrowIs, LogPushed, StoryGrows
  <2>. HIDE DEF a, w
  <2>4. /\ b \in Seq(Lines) /\ Marks(b, status) /\ (FitIn(b) => FitIn(a))
        /\ w = Tailed(StoryWith(a, status)) => x = Tailed(StoryWith(b, status))
    BY <2>3, EndLinesAre, GrowIs, LogPushed, StoryGrows
  <2>. HIDE DEF b, x
  <2>5. /\ c \in Seq(Lines) /\ Marks(c, status) /\ (FitIn(c) => FitIn(b))
        /\ x = Tailed(StoryWith(b, status)) => y = Tailed(StoryWith(c, status))
    BY <2>4, EndLinesAre, GrowIs, LogPushed, StoryGrows
  <2>. HIDE DEF c, y
  <2>6. /\ FitIn(d) => FitIn(c)
        /\ y = Tailed(StoryWith(c, status)) => z = Tailed(StoryWith(d, status))
    BY <2>5, EndLinesAre, GrowIs, LogPushed
  <2>. HIDE DEF d, z
  <2>. QED BY <2>1, <2>2, <2>3, <2>4, <2>5, <2>6
<1>. QED BY <1>1, <1>2

LEMMA PanelOver ==
    ASSUME OpRight(op), ToldRight(op, told), PanelRight(panel, op, told), Styled(op.kind),
           NEW is \in {"success", "failure"}, NEW o, Moved(o, "over", op.at),
           NEW u, ToldAtEnd(u, is), NEW q, q = ApplyEvent(panel, Event(is, NoStep))
    PROVE  /\ PanelRight(q, o, u) /\ PanelRight(panel, o, u)
           /\ PanelTells(panel, op, told) => PanelTells(q, o, u)
<1>1. op.kind \in OpKinds /\ o.kind = op.kind /\ o.is # "running"
  BY DEF OpRight, OpKind, Moved
<1>2. /\ panel \in Panels /\ InCap(panel) /\ panel.styled = Styled(op.kind)
      /\ RowsTrue(panel.steps, told)
  BY DEF PanelRight
<1>3. /\ Marks(told.story, told.status) /\ told.story \in Seq(Lines)
      /\ told.status \in [OpSteps -> Statuses]
  BY DEF ToldRight, Tolds
<1>4. u.begun = told.begun /\ u.status = told.status /\ u.story = Ends(told.story, is)
  BY DEF ToldAtEnd
<1>5. Timeline(u) = Timeline(told) /\ RowsTrue(panel.steps, u)
  BY <1>2, <1>4, SameTimeline
<1>6. /\ q \in Panels /\ InCap(q) /\ q.styled /\ q.header = panel.header /\ q.steps = panel.steps
      /\ FitIn(Ends(told.story, is)) => FitIn(told.story)
      /\ panel.output = Tailed(StoryWith(told.story, told.status)) =>
           q.output = Tailed(StoryWith(Ends(told.story, is), told.status))
  <2>1. panel.styled
    BY <1>2
  <2>. QED BY <1>2, <1>3, <2>1, EndsAre, SMTT(30)
<1>7. PanelRight(q, o, u)
  <2>1. q.styled = Styled(o.kind)
    BY <1>1, <1>6, StyledAre
  <2>. QED BY <1>5, <1>6, <2>1 DEF PanelRight
<1>8. PanelRight(panel, o, u)
  BY <1>1, <1>5, PanelStays
<1>9. ASSUME PanelTells(panel, op, told) PROVE PanelTells(q, o, u)
  <2>1. q.steps = Timeline(u)
    BY <1>5, <1>6, <1>9 DEF PanelTells
  <2>2. q.header <=> u.begun # <<>>
    BY <1>4, <1>6, <1>9 DEF PanelTells
  <2>3. FitIn(u.story) => LogRight(q, u)
    BY <1>4, <1>6, <1>9 DEF PanelTells, LogRight
  <2>. QED BY <1>1, <2>1, <2>2, <2>3 DEF PanelTells
<1>. QED BY <1>7, <1>8, <1>9

-----------------------------------------------------------------------------
(* The invariant.                                                          *)

LEMMA NothingIsTold ==
    ASSUME NEW o, OpRight(o), o.is \in {"idle", "between"}
    PROVE  ToldRight(o, NothingTold) /\ PanelRight(NewPanel(o.kind), o, NothingTold)
           /\ PanelTells(NewPanel(o.kind), o, NothingTold)
<1>. DEFINE p == NewPanel(o.kind)
<1>1. o.kind \in OpKinds
  BY DEF OpRight, OpKind
<1>2. /\ NothingTold.begun = <<>> /\ NothingTold.story = <<>>
      /\ NothingTold.status \in [OpSteps -> Statuses]
      /\ \A id \in OpSteps : NothingTold.status[id] = "none"
      /\ NothingTold \in Tolds
  BY DEF NothingTold, Tolds, Statuses
<1>3. DOMAIN <<>> = {}
  OBVIOUS
<1>4. Begun(NothingTold) /\ Marks(NothingTold.story, NothingTold.status)
  BY <1>2, <1>3 DEF Begun, Marks
<1>5. Ahead(o, NothingTold, o.at)
  <2>1. \A j \in DOMAIN StepIds(o.kind) : StepIds(o.kind)[j] \in OpSteps
    BY <1>1, StepIdsAre
  <2>. QED BY <1>2, <2>1 DEF Ahead
<1>6. Plain(NothingTold.story) /\ EndsInStep(NothingTold.story)
  BY <1>2, <1>3 DEF Plain, EndsInStep
<1>7. ToldRight(o, NothingTold)
  BY <1>2, <1>4, <1>5, <1>6 DEF ToldRight
<1>8. /\ p.styled = Styled(o.kind) /\ p.steps = <<>> /\ p.output = <<>> /\ p.header = FALSE
      /\ p.pending = 0 /\ p \in Panels
  BY DEF NewPanel, Panels, Styled
<1>. HIDE DEF p
<1>9. InCap(p)
  BY <1>8, OutputAssumption DEF InCap
<1>10. RowsTrue(p.steps, NothingTold)
  BY <1>3, <1>8 DEF RowsTrue
<1>11. Timeline(NothingTold) = <<>>
  BY <1>2 DEF Timeline
<1>12. LogRight(p, NothingTold)
  <2>1. StoryWith(<<>>, NothingTold.status) = <<>>
    BY DEF StoryWith
  <2>2. Tailed(<<>>) = <<>>
    <3>1. <<>> \in Seq(Lines) /\ Len(<<>>) <= OutputCap
      BY OutputAssumption
    <3>. QED BY <3>1, TailedOfShort
  <2>. QED BY <1>2, <1>8, <2>1, <2>2 DEF LogRight
<1>13. PanelTells(p, o, NothingTold)
  BY <1>2, <1>8, <1>11, <1>12 DEF PanelTells
<1>. QED BY <1>7, <1>8, <1>9, <1>10, <1>13 DEF PanelRight, p

LEMMA PanelInvStarts ==
    OutputInit => PanelInv
<1>. SUFFICES ASSUME OutputInit PROVE PanelInv
  OBVIOUS
<1>1. /\ op.kind = "create" /\ op.is = "idle" /\ op \in OpKind
  BY DEF OutputInit, Idle, OpKind, OpKinds
<1>2. OpRight(op)
  BY <1>1 DEF OpRight
<1>3. panel = NewPanel(op.kind) /\ told = NothingTold /\ lost = 0
  BY <1>1 DEF OutputInit, Idle
<1>. QED BY <1>1, <1>2, <1>3, NothingIsTold DEF PanelInv

\* An event that is sent, whether it reaches the panel or not.
LEMMA SendKeeps ==
    ASSUME PanelInv, NEW e, Send(e), OpRight(op'), ToldRight(op', told'),
           PanelRight(ApplyEvent(panel, e), op', told'), PanelRight(panel, op', told'),
           PanelTells(panel, op, told) => PanelTells(ApplyEvent(panel, e), op', told')
    PROVE  PanelInv'
<1>1. lost \in Nat /\ (lost = 0 => PanelTells(panel, op, told))
  BY DEF PanelInv
<1>2. CASE panel' = ApplyEvent(panel, e) /\ lost' = lost
  BY <1>1, <1>2 DEF PanelInv
<1>3. CASE lost' = lost + 1 /\ panel' = panel
  <2>1. lost' \in Nat /\ lost' # 0
    BY <1>1, <1>3
  <2>. QED BY <1>3, <2>1 DEF PanelInv
<1>. QED BY <1>2, <1>3 DEF Send

LEMMA PanelInvKept ==
    PanelInv /\ OutputNext => PanelInv'
<1>. SUFFICES ASSUME PanelInv, OutputNext PROVE PanelInv'
  OBVIOUS
<1>1. /\ OpRight(op) /\ ToldRight(op, told) /\ PanelRight(panel, op, told) /\ lost \in Nat
      /\ op \in OpKind
  BY DEF PanelInv, OpRight
<1>2. \A is \in {"idle", "between", "running", "failed", "over"}, n \in Nat :
        Moved([op EXCEPT !.is = is, !.lines = n], is, op.at)
  BY <1>1 DEF Moved, OpKind
<1>3. \A is \in {"idle", "between", "running", "failed", "over"} :
        Moved([op EXCEPT !.is = is], is, op.at)
  BY <1>1 DEF Moved, OpKind
<1>4. ASSUME NEW kind \in OpKinds, StartOp(kind) PROVE PanelInv'
  <2>1. /\ op'.kind = kind /\ op'.at = 1 /\ op'.is = "between" /\ op' \in OpKind
        /\ panel' = NewPanel(kind) /\ told' = told /\ lost' = lost /\ op.is = "idle"
    BY <1>4 DEF StartOp, OpKind
  <2>2. told' = NothingTold
    BY <1>1, <2>1 DEF ToldRight
  <2>3. OpRight(op')
    BY <2>1 DEF OpRight
  <2>. QED BY <1>1, <2>1, <2>2, <2>3, NothingIsTold DEF PanelInv
<1>5. ASSUME Aborted PROVE PanelInv'
  <2>1. /\ op' = [op EXCEPT !.is = "over"] /\ Send(Event("failure", NoStep))
        /\ op.is = "between" /\ Styled(op.kind)
    BY <1>5 DEF Aborted, MoreSteps, InPlan, Styled
  <2>2. Moved(op', "over", op.at) /\ told' = Tell(told, Event("failure", NoStep))
    BY <1>3, <2>1 DEF Send
  <2>3. OpRight(op') /\ ToldRight(op', told') /\ ToldAtEnd(told', "failure")
    BY <1>1, <2>1, <2>2, ToldOver
  <2>. QED BY <1>1, <2>1, <2>2, <2>3, PanelOver, SendKeeps
<1>6. ASSUME StepStarted PROVE PanelInv'
  <2>1. /\ op' = [op EXCEPT !.is = "running", !.lines = 0] /\ Send(Event("started", Current))
        /\ MoreSteps
    BY <1>6 DEF StepStarted
  <2>2. Moved(op', "running", op.at) /\ told' = Tell(told, Event("started", Current))
    BY <1>2, <2>1 DEF Send
  <2>3. OpRight(op') /\ ToldRight(op', told') /\ ToldBegun(told', Current)
    BY <1>1, <2>1, <2>2, ToldStarted
  <2>. QED BY <1>1, <2>1, <2>2, <2>3, PanelStarted, SendKeeps
<1>7. ASSUME StepOutput PROVE PanelInv'
  <2>1. /\ op' = [op EXCEPT !.lines = @ + 1] /\ Send(Event("output", Current))
        /\ op.is = "running"
    BY <1>7 DEF StepOutput
  <2>2. Moved(op', "running", op.at)
    BY <1>1, <2>1 DEF Moved, OpKind
  <2>3. told' = Tell(told, Event("output", Current))
    BY <2>1 DEF Send
  <2>4. OpRight(op') /\ ToldRight(op', told') /\ ToldOf(told', Current)
    BY <1>1, <2>1, <2>2, <2>3, ToldOutput
  <2>. QED BY <1>1, <2>1, <2>2, <2>4, PanelOutput, SendKeeps
<1>8. ASSUME StepFinished PROVE PanelInv'
  <2>1. /\ op' = [op EXCEPT !.is = "between", !.at = @ + 1] /\ Send(Event("finished", Current))
        /\ op.is = "running"
    BY <1>8 DEF StepFinished
  <2>2. Moved(op', "between", op.at + 1)
    <3>1. op.at + 1 \in Nat
      BY <1>1 DEF OpKind
    <3>2. \A n \in Nat : Moved([op EXCEPT !.is = "between", !.at = n], "between", n)
      BY <1>1 DEF Moved, OpKind
    <3>. QED BY <2>1, <3>1, <3>2
  <2>3. told' = Tell(told, Event("finished", Current))
    BY <2>1 DEF Send
  <2>4. /\ OpRight(op') /\ ToldRight(op', told') /\ ToldEnd(told', Current, "Done")
        /\ Styled(op.kind) => told'.story = told.story
        /\ ~Styled(op.kind) => told'.story = Append(told.story, Line("finished", Current))
    BY <1>1, <2>1, <2>2, <2>3, ToldFinished
  <2>. QED BY <1>1, <2>1, <2>2, <2>4, PanelFinished, SendKeeps
<1>9. ASSUME StepFailed PROVE PanelInv'
  <2>1. /\ op' = [op EXCEPT !.is = IF InPlan(op.kind, op.at) THEN "failed" ELSE "over"]
        /\ Send(Event("failed", Current)) /\ op.is = "running"
    BY <1>9 DEF StepFailed
  <2>2. PICK is \in {"failed", "over"} :
          Moved(op', is, op.at) /\ (is = "failed" => Styled(op.kind))
    <3>1. InPlan(op.kind, op.at) => Styled(op.kind)
      BY DEF InPlan, Styled
    <3>. QED BY <1>3, <2>1, <3>1
  <2>3. told' = Tell(told, Event("failed", Current))
    BY <2>1 DEF Send
  <2>4. /\ OpRight(op') /\ ToldRight(op', told') /\ ToldEnd(told', Current, "Failed")
        /\ Styled(op.kind) => told'.story = Append(told.story, Line("error", Current))
        /\ ~Styled(op.kind) => told'.story = Append(told.story, Line("failed", Current))
    BY <1>1, <2>1, <2>2, <2>3, ToldFailed
  <2>5. Marks(told.story, told'.status)
    BY <1>1, <2>1, <2>3, TellEnds
  <2>6. LET q == ApplyEvent(panel, Event("failed", Current))
        IN  /\ PanelRight(q, op', told') /\ PanelRight(panel, op', told')
            /\ PanelTells(panel, op, told) => PanelTells(q, op', told')
    BY <1>1, <2>1, <2>2, <2>4, <2>5, PanelFailed
  <2>. QED BY <2>1, <2>4, <2>6, SendKeeps
<1>10. ASSUME PlanFinished PROVE PanelInv'
  <2>1. PICK is \in {"success", "failure"} :
          /\ Send(Event(is, NoStep)) /\ op.is \in {"between", "failed"} /\ Styled(op.kind)
    <3>1. op.is = "failed" => Styled(op.kind)
      BY <1>1 DEF OpRight
    <3>2. CASE op.is = "failed" /\ Send(Event("failure", NoStep))
      BY <3>1, <3>2
    <3>3. CASE op.is = "between" /\ op.kind # "destroy" /\ Send(Event("success", NoStep))
      BY <3>3 DEF Styled
    <3>. QED BY <1>10, <3>2, <3>3 DEF PlanFinished
  <2>2. op' = [op EXCEPT !.is = "over"]
    BY <1>10 DEF PlanFinished
  <2>3. Moved(op', "over", op.at) /\ told' = Tell(told, Event(is, NoStep))
    BY <1>3, <2>1, <2>2 DEF Send
  <2>4. OpRight(op') /\ ToldRight(op', told') /\ ToldAtEnd(told', is)
    BY <1>1, <2>1, <2>3, ToldOver
  <2>. QED BY <1>1, <2>1, <2>3, <2>4, PanelOver, SendKeeps
<1>. QED BY <1>4, <1>5, <1>6, <1>7, <1>8, <1>9, <1>10 DEF OutputNext

LEMMA PanelInvTells ==
    PanelInv => TimelineTellsTheRun
<1>. SUFFICES ASSUME PanelInv PROVE TimelineTellsTheRun
  OBVIOUS
<1>1. Len(panel.output) <= OutputCap /\ RowsTrue(panel.steps, told)
  BY DEF PanelInv, PanelRight, InCap
<1>2. Story = StoryWith(told.story, told.status)
  BY DEF Story, StoryWith, ShownLine
<1>3. FitIn(told.story) <=> StepsFit
  BY DEF FitIn, StepsFit
<1>4. ASSUME lost = 0
      PROVE  /\ panel.steps = Timeline(told)
             /\ ~Styled(op.kind) \/ StepsFit => panel.output = Tailed(Story)
  BY <1>2, <1>3, <1>4 DEF PanelInv, PanelTells, LogRight
<1>. QED BY <1>1, <1>4 DEF TimelineTellsTheRun, RowsTrue, Timeline

LEMMA PanelInvAlways ==
    PlanningSpec => []PanelInv
<1>1. PlanningInit => PanelInv
  BY PanelInvStarts DEF PlanningInit
<1>2. PanelInv /\ [PlanningNext]_<<vars, wizard, output_vars>> => PanelInv'
  <2>. SUFFICES ASSUME PanelInv, [PlanningNext]_<<vars, wizard, output_vars>> PROVE PanelInv'
    OBVIOUS
  <2>1. CASE ShowOp
    BY <2>1, PanelInvKept DEF ShowOp
  <2>2. CASE UNCHANGED output_vars
    <3>1. op' = op /\ panel' = panel /\ told' = told /\ lost' = lost
      BY <2>2 DEF output_vars
    <3>. QED BY <3>1 DEF PanelInv
  <2>. QED BY <2>1, <2>2 DEF PlanningNext, BuildPlan
<1>. QED BY <1>1, <1>2, PTL DEF PlanningSpec

\* Whatever the bus lost, a step that the panel shows as done or failed is; and
\* if it lost nothing, the timeline is the run's and the log is the end of its
\* story, each mark on the line of its own step, for any plan whose steps have
\* ids of their own and any cap of the log, as long as nothing is cut while a
\* step is running: then the place that a step keeps is that of its own mark.
THEOREM PanelTellsTheRun == PlanningSpec => []TimelineTellsTheRun
<1>. QED BY PanelInvAlways, PanelInvTells, PTL
=============================================================================
