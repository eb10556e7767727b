--------------------------- MODULE Provision_proofs ---------------------------
(***************************************************************************)
(* Proofs about Provision, for any number of runs, all specs and every     *)
(* bound on looks at the CRD and deletions.                                *)
(***************************************************************************)
EXTENDS Provision, TLAPS

SpecSet == [cni : {"kindnet", "flannel", "calico", "cilium"}, ownCidr : BOOLEAN,
            gateway : BOOLEAN, hubble : BOOLEAN, mesh : BOOLEAN,
            ingress : {"none", "cilium", "nginx", "traefik"}]

-----------------------------------------------------------------------------
(* The order of the steps in a plan.                                       *)

Ids == {"write-kind-config", "kind-create", "merge-kubeconfig", "cni-flannel-download",
        "cni-flannel-patch", "cni-flannel-apply", "cni-calico-operator-download",
        "cni-calico-operator-apply", "cni-calico-operator-wait-crds", "cni-calico-cr-write",
        "cni-calico-cr-apply", "cilium-gateway-crds-download", "cilium-gateway-crds-apply",
        "cni-cilium-install", "cilium-hubble-enable", "cilium-clustermesh-enable",
        "ingress-nginx-download", "ingress-nginx-apply", "traefik-repo-add", "traefik-install",
        "final-verify"}
Kinds == {"write", "command", "download", "patch", "apply", "wait"}
StepSet == [id : Ids, do : Kinds, path : Paths \cup {"none"}, verify : BOOLEAN]

Writes(step) == step.do \in {"write", "download", "patch"}

\* A step comes after the ones whose work it uses.
InItsPlace(s, q, k) ==
    /\ Writes(q[k]) \/ q[k].do = "apply" => q[k].path \in Paths
    /\ q[k].do = "patch" =>
         /\ q[k].path = "patched"
         /\ \E j \in 1..Len(q) : j < k /\ q[j].do = "download" /\ q[j].path = "flannel"
    /\ q[k].do = "apply" =>
         \E j \in 1..Len(q) : j < k /\ Writes(q[j]) /\ q[j].path = q[k].path
    /\ q[k].do = "apply" /\ q[k].path = "cr" => \E j \in 1..Len(q) : j < k /\ q[j].do = "wait"
    /\ q[k].id = "kind-create" =>
         /\ q[k].do = "command"
         /\ \E j \in 1..Len(q) : j < k /\ q[j].do = "write" /\ q[j].path = "config"
    /\ q[k].id = "cni-cilium-install" =>
         /\ q[k].do = "command"
         /\ s.gateway => \E j \in 1..Len(q) : j < k /\ q[j].do = "apply" /\ q[j].path = "gateway"

\* A part of a plan that writes these files, each once.
Ordered(s, q, files) ==
    /\ q \in Seq(StepSet)
    /\ \A k \in 1..Len(q) : Writes(q[k]) => q[k].path \in files
    /\ \A j, k \in 1..Len(q) : j < k /\ Writes(q[j]) /\ Writes(q[k]) => q[j].path # q[k].path
    /\ \A k \in 1..Len(q) : InItsPlace(s, q, k)

\* The places of p \o q are those of p and, moved on, those of q.
LEMMA JoinFacts ==
    ASSUME NEW S, NEW p \in Seq(S), NEW q \in Seq(S)
    PROVE  /\ p \o q \in Seq(S) /\ Len(p \o q) = Len(p) + Len(q)
           /\ Len(p) \in Nat /\ Len(q) \in Nat
           /\ \A k \in 1..Len(p) : (p \o q)[k] = p[k]
           /\ \A k \in 1..Len(q) : (p \o q)[Len(p) + k] = q[k]
OBVIOUS

\* One part after another is in order, if they write different files.
LEMMA JoinOrdered ==
    ASSUME NEW s, NEW p, NEW q, NEW F, NEW G, Ordered(s, p, F), Ordered(s, q, G), F \cap G = {}
    PROVE  Ordered(s, p \o q, F \cup G)
<1>. DEFINE t == p \o q
            m == Len(p)
<1>1. p \in Seq(StepSet) /\ q \in Seq(StepSet)
  BY DEF Ordered
<1>2. /\ t \in Seq(StepSet) /\ Len(t) = m + Len(q) /\ m \in Nat /\ Len(q) \in Nat
      /\ \A k \in 1..m : t[k] = p[k]
      /\ \A k \in 1..Len(q) : t[m + k] = q[k]
  BY <1>1, JoinFacts
<1>. HIDE DEF t, m
<1>3. ASSUME NEW k \in 1..Len(t)
      PROVE  \/ k \in 1..m /\ t[k] = p[k]
             \/ k - m \in 1..Len(q) /\ t[k] = q[k - m] /\ k > m
  <2>1. k \in 1..m \/ (k - m \in 1..Len(q) /\ k = m + (k - m) /\ k > m)
    BY <1>2
  <2>. QED BY <2>1, <1>2
<1>4. \A j \in 1..m : j \in 1..Len(t) /\ t[j] = p[j]
  BY <1>2
<1>5. \A j \in 1..Len(q) : m + j \in 1..Len(t) /\ t[m + j] = q[j]
  BY <1>2
<1>6. \A k \in 1..m : Writes(p[k]) => p[k].path \in F
  BY DEF Ordered, m
<1>7. \A k \in 1..Len(q) : Writes(q[k]) => q[k].path \in G
  BY DEF Ordered
<1>8. \A k \in 1..Len(t) : Writes(t[k]) => t[k].path \in F \cup G
  BY <1>3, <1>6, <1>7
<1>9. ASSUME NEW j \in 1..Len(t), NEW k \in 1..Len(t), j < k, Writes(t[j]), Writes(t[k])
      PROVE  t[j].path # t[k].path
  <2>1. CASE k \in 1..m
    <3>1. j \in 1..m
      BY <1>2, <1>9, <2>1
    <3>. QED BY <3>1, <2>1, <1>4, <1>9 DEF Ordered, m
  <2>2. CASE k - m \in 1..Len(q) /\ t[k] = q[k - m] /\ k > m
    <3>1. CASE j \in 1..m /\ t[j] = p[j]
      BY <3>1, <2>2, <1>6, <1>7, <1>9
    <3>2. CASE j - m \in 1..Len(q) /\ t[j] = q[j - m] /\ j > m
      <4>1. j - m < k - m
        BY <1>2, <1>9
      <4>. QED BY <4>1, <3>2, <2>2, <1>9 DEF Ordered
    <3>. QED BY <3>1, <3>2, <1>3
  <2>. QED BY <2>1, <2>2, <1>3
<1>10. ASSUME NEW k \in 1..Len(t)
       PROVE  InItsPlace(s, t, k)
  <2>1. CASE k \in 1..m /\ t[k] = p[k]
    <3>1. InItsPlace(s, p, k)
      BY <2>1 DEF Ordered, m
    <3>2. \A j \in 1..m : j \in 1..Len(t) /\ t[j] = p[j]
      BY <1>4
    <3>. QED BY <3>1, <3>2, <2>1 DEF InItsPlace, m
  <2>2. CASE k - m \in 1..Len(q) /\ t[k] = q[k - m] /\ k > m
    <3>1. InItsPlace(s, q, k - m)
      BY <2>2 DEF Ordered
    <3>2. \A j \in 1..Len(q) : j < k - m => m + j \in 1..Len(t) /\ t[m + j] = q[j] /\ m + j < k
      BY <1>2, <1>5
    <3>3. t[k] = q[k - m]
      BY <2>2
    <3>. QED BY <3>1, <3>2, <3>3 DEF InItsPlace
  <2>. QED BY <2>1, <2>2, <1>3
<1>. QED BY <1>2, <1>8, <1>9, <1>10 DEF Ordered, t

-----------------------------------------------------------------------------

LEMMA EmptyOrdered == ASSUME NEW s PROVE Ordered(s, <<>>, {})
<1>1. <<>> \in Seq(StepSet) /\ Len(<<>>) = 0
  OBVIOUS
<1>. QED BY <1>1 DEF Ordered

\* What Step makes is a step.
LEMMA StepIsStep ==
    ASSUME NEW id \in Ids, NEW do \in Kinds, NEW path \in Paths \cup {"none"},
           NEW verify \in BOOLEAN
    PROVE  Step(id, do, path, verify) \in StepSet
BY DEF Step, StepSet

\* Tuples of steps.
LEMMA Tuples ==
    ASSUME NEW S, NEW a \in S
    PROVE  /\ <<a>> \in Seq(S)
           /\ \A b \in S : <<a, b>> \in Seq(S)
           /\ \A b, c \in S : <<a, b, c>> \in Seq(S)
           /\ \A b, c, d, e \in S : <<a, b, c, d, e>> \in Seq(S)
OBVIOUS

LEMMA SameSequence ==
    ASSUME NEW S, NEW p \in Seq(S), NEW q \in Seq(S), Len(p) = Len(q),
           \A k \in 1..Len(p) : p[k] = q[k]
    PROVE  p = q
OBVIOUS

\* Two short parts in one.
LEMMA JoinTuples ==
    ASSUME NEW S, NEW a \in S, NEW b \in S, NEW c \in S
    PROVE  /\ <<a>> \o <<b>> = <<a, b>> /\ <<a, b>> \o <<c>> = <<a, b, c>>
           /\ <<>> \o <<a>> = <<a>> /\ <<a>> \o <<>> = <<a>>
<1>. DEFINE p == <<a>>
            q == <<b>>
            t == <<a, b>>
            u == <<c>>
            v == <<a, b, c>>
            w == <<>>
<1>1. p \in Seq(S) /\ q \in Seq(S) /\ t \in Seq(S) /\ u \in Seq(S) /\ v \in Seq(S)
  OBVIOUS
<1>2. /\ Len(p) = 1 /\ p[1] = a /\ Len(q) = 1 /\ q[1] = b /\ Len(u) = 1 /\ u[1] = c
      /\ Len(t) = 2 /\ t[1] = a /\ t[2] = b
      /\ Len(v) = 3 /\ v[1] = a /\ v[2] = b /\ v[3] = c
  OBVIOUS
<1>3. w \in Seq(S) /\ Len(w) = 0
  OBVIOUS
<1>. HIDE DEF p, q, t, u, v, w
<1>4. p \o q = t
  <2>1. /\ p \o q \in Seq(S) /\ Len(p \o q) = Len(p) + Len(q)
        /\ \A k \in 1..Len(p) : (p \o q)[k] = p[k]
        /\ \A k \in 1..Len(q) : (p \o q)[Len(p) + k] = q[k]
    BY <1>1, <1>3, JoinFacts
  <2>2. \A k \in 1..Len(t) : k \in 1..Len(p) \/ k = Len(p) + 1
    BY <1>2, <1>3
  <2>3. Len(p \o q) = Len(t) /\ \A k \in 1..Len(t) : (p \o q)[k] = t[k]
    BY <1>2, <1>3, <2>1, <2>2
  <2>. QED BY <1>1, <1>3, <2>1, <2>3, SameSequence
<1>5. t \o u = v
  <2>1. /\ t \o u \in Seq(S) /\ Len(t \o u) = Len(t) + Len(u)
        /\ \A k \in 1..Len(t) : (t \o u)[k] = t[k]
        /\ \A k \in 1..Len(u) : (t \o u)[Len(t) + k] = u[k]
    BY <1>1, <1>3, JoinFacts
  <2>2. \A k \in 1..Len(v) : k \in 1..Len(t) \/ k = Len(t) + 1
    BY <1>2, <1>3
  <2>3. Len(t \o u) = Len(v) /\ \A k \in 1..Len(v) : (t \o u)[k] = v[k]
    BY <1>2, <1>3, <2>1, <2>2
  <2>. QED BY <1>1, <1>3, <2>1, <2>3, SameSequence
<1>6. w \o p = p
  <2>1. /\ w \o p \in Seq(S) /\ Len(w \o p) = Len(w) + Len(p)
        /\ \A k \in 1..Len(p) : (w \o p)[Len(w) + k] = p[k]
    BY <1>1, <1>3, JoinFacts
  <2>2. Len(w \o p) = Len(p) /\ \A k \in 1..Len(p) : Len(w) + k = k
    BY <1>2, <1>3, <2>1
  <2>3. \A k \in 1..Len(p) : (w \o p)[k] = p[k]
    BY <2>1, <2>2
  <2>. QED BY <1>1, <2>1, <2>2, <2>3, SameSequence
<1>7. p \o w = p
  <2>1. /\ p \o w \in Seq(S) /\ Len(p \o w) = Len(p) + Len(w)
        /\ \A k \in 1..Len(p) : (p \o w)[k] = p[k]
    BY <1>1, <1>3, JoinFacts
  <2>2. Len(p \o w) = Len(p)
    BY <1>2, <1>3, <2>1
  <2>. QED BY <1>1, <2>1, <2>2, SameSequence
<1>. QED BY <1>4, <1>5, <1>6, <1>7 DEF p, q, t, u, v, w

LEMMA CreateOrdered == ASSUME NEW s PROVE Ordered(s, CreateSteps, {"config"})
<1>1. /\ Step("write-kind-config", "write", "config", FALSE) \in StepSet
      /\ Step("kind-create", "command", "config", FALSE) \in StepSet
      /\ Step("merge-kubeconfig", "command", "none", FALSE) \in StepSet
  BY StepIsStep DEF Ids, Kinds, Paths
<1>2. CreateSteps \in Seq(StepSet)
  BY <1>1, Tuples DEF CreateSteps
<1>3. /\ Len(CreateSteps) = 3
      /\ CreateSteps[1] = Step("write-kind-config", "write", "config", FALSE)
      /\ CreateSteps[2] = Step("kind-create", "command", "config", FALSE)
      /\ CreateSteps[3] = Step("merge-kubeconfig", "command", "none", FALSE)
  BY DEF CreateSteps
<1>. QED BY <1>2, <1>3 DEF Step, Ordered, Writes, InItsPlace, Paths

\* The manifest is applied as it is, or the copy with the spec's network.
LEMMA FlannelOrdered ==
    ASSUME NEW s
    PROVE  /\ Ordered(s, FlannelSteps(s), {"flannel", "patched"})
           /\ \E k \in 1..Len(FlannelSteps(s)) :
                FlannelSteps(s)[k].do = "apply" /\ FlannelSteps(s)[k].path \in {"flannel", "patched"}
<1>. DEFINE q == FlannelSteps(s)
            download == Step("cni-flannel-download", "download", "flannel", FALSE)
            patch == Step("cni-flannel-patch", "patch", "patched", FALSE)
            apply(path) == Step("cni-flannel-apply", "apply", path, TRUE)
<1>1. /\ download \in StepSet /\ patch \in StepSet
      /\ apply("flannel") \in StepSet /\ apply("patched") \in StepSet
  BY StepIsStep DEF Ids, Kinds, Paths
<1>2. CASE s.ownCidr
  <2>1. q = (<<download>> \o <<patch>>) \o <<apply("patched")>>
    BY <1>2 DEF FlannelSteps, Optional
  <2>2. q = <<download, patch, apply("patched")>>
    <3>. HIDE DEF q, download, patch, apply
    <3>. QED BY <2>1, <1>1, JoinTuples
  <2>3. q \in Seq(StepSet) /\ Len(q) = 3 /\ q[1] = download /\ q[2] = patch /\ q[3] = apply("patched")
    <3>. HIDE DEF q, download, patch, apply
    <3>. QED BY <2>2, <1>1, Tuples
  <2>. HIDE DEF q
  <2>4. Ordered(s, q, {"flannel", "patched"})
    BY <2>3 DEF Step, Ordered, Writes, InItsPlace, Paths
  <2>5. 3 \in 1..Len(q) /\ q[3].do = "apply" /\ q[3].path = "patched"
    BY <2>3 DEF Step
  <2>. QED BY <2>4, <2>5 DEF q
<1>3. CASE ~s.ownCidr
  <2>1. q = (<<download>> \o <<>>) \o <<apply("flannel")>>
    BY <1>3 DEF FlannelSteps, Optional
  <2>2. q = <<download, apply("flannel")>>
    <3>. HIDE DEF q, download, patch, apply
    <3>. QED BY <2>1, <1>1, JoinTuples
  <2>3. q \in Seq(StepSet) /\ Len(q) = 2 /\ q[1] = download /\ q[2] = apply("flannel")
    <3>. HIDE DEF q, download, patch, apply
    <3>. QED BY <2>2, <1>1, Tuples
  <2>. HIDE DEF q
  <2>4. Ordered(s, q, {"flannel", "patched"})
    BY <2>3 DEF Step, Ordered, Writes, InItsPlace, Paths
  <2>5. 2 \in 1..Len(q) /\ q[2].do = "apply" /\ q[2].path = "flannel"
    BY <2>3 DEF Step
  <2>. QED BY <2>4, <2>5 DEF q
<1>. QED BY <1>2, <1>3

LEMMA CalicoOrdered ==
    ASSUME NEW s
    PROVE  /\ Ordered(s, CalicoSteps, {"operator", "cr"})
           /\ \E k \in 1..Len(CalicoSteps) : CalicoSteps[k].do = "apply" /\ CalicoSteps[k].path = "cr"
<1>1. /\ Step("cni-calico-operator-download", "download", "operator", FALSE) \in StepSet
      /\ Step("cni-calico-operator-apply", "apply", "operator", FALSE) \in StepSet
      /\ Step("cni-calico-operator-wait-crds", "wait", "none", FALSE) \in StepSet
      /\ Step("cni-calico-cr-write", "write", "cr", FALSE) \in StepSet
      /\ Step("cni-calico-cr-apply", "apply", "cr", TRUE) \in StepSet
  BY StepIsStep DEF Ids, Kinds, Paths
<1>2. CalicoSteps \in Seq(StepSet)
  BY <1>1, Tuples DEF CalicoSteps
<1>3. /\ Len(CalicoSteps) = 5
      /\ CalicoSteps[1] = Step("cni-calico-operator-download", "download", "operator", FALSE)
      /\ CalicoSteps[2] = Step("cni-calico-operator-apply", "apply", "operator", FALSE)
      /\ CalicoSteps[3] = Step("cni-calico-operator-wait-crds", "wait", "none", FALSE)
      /\ CalicoSteps[4] = Step("cni-calico-cr-write", "write", "cr", FALSE)
      /\ CalicoSteps[5] = Step("cni-calico-cr-apply", "apply", "cr", TRUE)
  BY DEF CalicoSteps
<1>4. Ordered(s, CalicoSteps, {"operator", "cr"})
  BY <1>2, <1>3 DEF Step, Ordered, Writes, InItsPlace, Paths
<1>5. 5 \in 1..Len(CalicoSteps) /\ CalicoSteps[5].do = "apply" /\ CalicoSteps[5].path = "cr"
  BY <1>3 DEF Step
<1>. QED BY <1>4, <1>5

\* A command that is none of the two which others depend on.
LEMMA CommandOrdered ==
    ASSUME NEW s, NEW id \in Ids, id # "kind-create", id # "cni-cilium-install"
    PROVE  Ordered(s, <<Step(id, "command", "none", FALSE)>>, {})
<1>. DEFINE q == <<Step(id, "command", "none", FALSE)>>
<1>1. q \in Seq(StepSet)
  <2>1. Step(id, "command", "none", FALSE) \in StepSet
    BY StepIsStep DEF Kinds
  <2>. QED BY <2>1, Tuples
<1>2. Len(q) = 1 /\ q[1] = Step(id, "command", "none", FALSE)
  OBVIOUS
<1>. HIDE DEF q
<1>3. Ordered(s, q, {})
  BY <1>1, <1>2 DEF Step, Ordered, Writes, InItsPlace
<1>. QED BY <1>3 DEF q

LEMMA OptionalOrdered ==
    ASSUME NEW s, NEW condition, NEW q, Ordered(s, q, {})
    PROVE  Ordered(s, Optional(condition, q), {})
BY EmptyOrdered DEF Optional

\* A part that writes nothing may follow any other.
LEMMA QuietJoin ==
    ASSUME NEW s, NEW p, NEW q, NEW F, Ordered(s, p, F), Ordered(s, q, {})
    PROVE  Ordered(s, p \o q, F)
<1>1. Ordered(s, p \o q, F \cup {})
  BY JoinOrdered
<1>2. F \cup {} = F
  OBVIOUS
<1>. QED BY <1>1, <1>2

\* What is in a part is in the whole.
LEMMA JoinKeeps ==
    ASSUME NEW s, NEW p, NEW q, NEW F, NEW G, Ordered(s, p, F), Ordered(s, q, G)
    PROVE  /\ \A k \in 1..Len(p) : \E j \in 1..Len(p \o q) : (p \o q)[j] = p[k]
           /\ \A k \in 1..Len(q) : \E j \in 1..Len(p \o q) : (p \o q)[j] = q[k]
<1>1. p \in Seq(StepSet) /\ q \in Seq(StepSet)
  BY DEF Ordered
<1>2. /\ Len(p \o q) = Len(p) + Len(q) /\ Len(p) \in Nat /\ Len(q) \in Nat
      /\ \A k \in 1..Len(p) : (p \o q)[k] = p[k]
      /\ \A k \in 1..Len(q) : (p \o q)[Len(p) + k] = q[k]
  BY <1>1, JoinFacts
<1>3. \A k \in 1..Len(p) : k \in 1..Len(p \o q)
  BY <1>2
<1>4. \A k \in 1..Len(q) : Len(p) + k \in 1..Len(p \o q)
  BY <1>2
<1>. QED BY <1>2, <1>3, <1>4

\* The gateway CRDs and the installation that needs them are one part.
LEMMA CiliumOrdered ==
    ASSUME NEW s
    PROVE  /\ Ordered(s, CiliumSteps(s), {"gateway"})
           /\ \E k \in 1..Len(CiliumSteps(s)) : CiliumSteps(s)[k].id = "cni-cilium-install"
<1>. DEFINE download == Step("cilium-gateway-crds-download", "download", "gateway", FALSE)
            apply == Step("cilium-gateway-crds-apply", "apply", "gateway", FALSE)
            install == Step("cni-cilium-install", "command", "none", TRUE)
            base == Optional(s.gateway, <<download, apply>>) \o <<install>>
            hubble == Optional(s.hubble, <<Step("cilium-hubble-enable", "command", "none", FALSE)>>)
            mesh == Optional(s.mesh, <<Step("cilium-clustermesh-enable", "command", "none", FALSE)>>)
<1>1. download \in StepSet /\ apply \in StepSet /\ install \in StepSet
  BY StepIsStep DEF Ids, Kinds, Paths
<1>2. /\ Ordered(s, base, {"gateway"})
      /\ \E k \in 1..Len(base) : base[k].id = "cni-cilium-install"
  <2>1. CASE s.gateway
    <3>1. base = <<download, apply>> \o <<install>>
      BY <2>1 DEF Optional
    <3>2. base = <<download, apply, install>>
      <4>. HIDE DEF base, download, apply, install
      <4>. QED BY <3>1, <1>1, JoinTuples
    <3>3. base \in Seq(StepSet) /\ Len(base) = 3
          /\ base[1] = download /\ base[2] = apply /\ base[3] = install
      <4>. HIDE DEF base, download, apply, install
      <4>. QED BY <3>2, <1>1, Tuples
    <3>. HIDE DEF base
    <3>. QED BY <3>3 DEF Step, Ordered, Writes, InItsPlace, Paths
  <2>2. CASE ~s.gateway
    <3>1. base = <<>> \o <<install>>
      BY <2>2 DEF Optional
    <3>2. base = <<install>>
      <4>. HIDE DEF base, download, apply, install
      <4>. QED BY <3>1, <1>1, JoinTuples
    <3>3. base \in Seq(StepSet) /\ Len(base) = 1 /\ base[1] = install
      <4>. HIDE DEF base, download, apply, install
      <4>. QED BY <3>2, <1>1, Tuples
    <3>. HIDE DEF base
    <3>. QED BY <2>2, <3>3 DEF Step, Ordered, Writes, InItsPlace
  <2>. QED BY <2>1, <2>2
<1>3. Ordered(s, hubble, {}) /\ Ordered(s, mesh, {})
  BY CommandOrdered, OptionalOrdered DEF Ids
<1>4. CiliumSteps(s) = (base \o hubble) \o mesh
  BY DEF CiliumSteps
<1>. HIDE DEF base, hubble, mesh
<1>5. Ordered(s, base \o hubble, {"gateway"})
  BY <1>2, <1>3, QuietJoin
<1>6. Ordered(s, CiliumSteps(s), {"gateway"})
  BY <1>3, <1>4, <1>5, QuietJoin
<1>7. PICK i \in 1..Len(base) : base[i].id = "cni-cilium-install"
  BY <1>2
<1>8. PICK j \in 1..Len(base \o hubble) : (base \o hubble)[j] = base[i]
  BY <1>2, <1>3, JoinKeeps
<1>9. PICK k \in 1..Len(CiliumSteps(s)) : CiliumSteps(s)[k] = (base \o hubble)[j]
  BY <1>3, <1>4, <1>5, JoinKeeps
<1>. QED BY <1>6, <1>7, <1>8, <1>9

LEMMA IngressOrdered ==
    ASSUME NEW s \in SpecSet PROVE Ordered(s, IngressSteps(s), {"nginx"})
<1>1. CASE s.ingress \in {"none", "cilium"}
  <2>1. IngressSteps(s) = <<>>
    BY <1>1 DEF IngressSteps
  <2>. QED BY <2>1, EmptyOrdered DEF Ordered
<1>2. CASE s.ingress = "nginx"
  <2>. DEFINE q == IngressSteps(s)
              download == Step("ingress-nginx-download", "download", "nginx", FALSE)
              apply == Step("ingress-nginx-apply", "apply", "nginx", TRUE)
  <2>1. download \in StepSet /\ apply \in StepSet
    BY StepIsStep DEF Ids, Kinds, Paths
  <2>2. q = <<download, apply>>
    BY <1>2 DEF IngressSteps
  <2>3. q \in Seq(StepSet) /\ Len(q) = 2 /\ q[1] = download /\ q[2] = apply
    <3>. HIDE DEF q, download, apply
    <3>. QED BY <2>1, <2>2, Tuples
  <2>. HIDE DEF q
  <2>4. Ordered(s, q, {"nginx"})
    BY <2>3 DEF Step, Ordered, Writes, InItsPlace, Paths
  <2>. QED BY <2>4 DEF q
<1>3. CASE s.ingress = "traefik"
  <2>. DEFINE q == IngressSteps(s)
              add == Step("traefik-repo-add", "command", "none", FALSE)
              install == Step("traefik-install", "command", "none", FALSE)
  <2>1. add \in StepSet /\ install \in StepSet
    BY StepIsStep DEF Ids, Kinds, Paths
  <2>2. q = <<add, install>>
    BY <1>3 DEF IngressSteps
  <2>3. q \in Seq(StepSet) /\ Len(q) = 2 /\ q[1] = add /\ q[2] = install
    <3>. HIDE DEF q, add, install
    <3>. QED BY <2>1, <2>2, Tuples
  <2>. HIDE DEF q
  <2>4. Ordered(s, q, {"nginx"})
    BY <2>3 DEF Step, Ordered, Writes, InItsPlace, Paths
  <2>. QED BY <2>4 DEF q
<1>. QED BY <1>1, <1>2, <1>3 DEF SpecSet

\* The step that gives a cluster of this spec its network.
BringsCni(s, step) ==
    \/ s.cni = "kindnet"
    \/ s.cni = "flannel" /\ step.do = "apply" /\ step.path \in {"flannel", "patched"}
    \/ s.cni = "calico" /\ step.do = "apply" /\ step.path = "cr"
    \/ s.cni = "cilium" /\ step.id = "cni-cilium-install"

LEMMA CniOrdered ==
    ASSUME NEW s \in SpecSet
    PROVE  /\ Ordered(s, CniSteps(s), {"flannel", "patched", "operator", "cr", "gateway"})
           /\ s.cni # "kindnet" => \E k \in 1..Len(CniSteps(s)) : BringsCni(s, CniSteps(s)[k])
<1>. DEFINE files == {"flannel", "patched", "operator", "cr", "gateway"}
<1>1. ASSUME NEW q, NEW F, Ordered(s, q, F), F \subseteq files
      PROVE  Ordered(s, q, files)
  BY <1>1 DEF Ordered
<1>2. CASE s.cni = "kindnet"
  <2>1. CniSteps(s) = <<>>
    BY <1>2 DEF CniSteps
  <2>. QED BY <2>1, <1>1, <1>2, EmptyOrdered
<1>3. CASE s.cni = "flannel"
  <2>1. CniSteps(s) = FlannelSteps(s)
    BY <1>3 DEF CniSteps
  <2>. QED BY <2>1, <1>1, <1>3, FlannelOrdered DEF BringsCni
<1>4. CASE s.cni = "calico"
  <2>1. CniSteps(s) = CalicoSteps
    BY <1>4 DEF CniSteps
  <2>. QED BY <2>1, <1>1, <1>4, CalicoOrdered DEF BringsCni
<1>5. CASE s.cni = "cilium"
  <2>1. CniSteps(s) = CiliumSteps(s)
    BY <1>5 DEF CniSteps
  <2>. QED BY <2>1, <1>1, <1>5, CiliumOrdered DEF BringsCni
<1>. QED BY <1>2, <1>3, <1>4, <1>5 DEF SpecSet

\* The whole plan: in order, with the creation and the network.
LEMMA PlanInOrder ==
    ASSUME NEW s \in SpecSet
    PROVE  /\ Ordered(s, Plan(s), Paths)
           /\ Len(Plan(s)) \in Nat \ {0}
           /\ \E k \in 1..Len(Plan(s)) : Plan(s)[k].id = "kind-create"
           /\ \E k \in 1..Len(Plan(s)) : BringsCni(s, Plan(s)[k])
<1>. DEFINE start == CreateSteps \o CniSteps(s)
            most == start \o IngressSteps(s)
<1>1. Ordered(s, start, {"config", "flannel", "patched", "operator", "cr", "gateway"})
  <2>1. Ordered(s, start, {"config"} \cup {"flannel", "patched", "operator", "cr", "gateway"})
    BY CreateOrdered, CniOrdered, JoinOrdered
  <2>2. {"config"} \cup {"flannel", "patched", "operator", "cr", "gateway"}
          = {"config", "flannel", "patched", "operator", "cr", "gateway"}
    OBVIOUS
  <2>. QED BY <2>1, <2>2
<1>2. Ordered(s, most, Paths)
  <2>. HIDE DEF start
  <2>1. Ordered(s, most, {"config", "flannel", "patched", "operator", "cr", "gateway"} \cup {"nginx"})
    BY <1>1, IngressOrdered, JoinOrdered
  <2>2. {"config", "flannel", "patched", "operator", "cr", "gateway"} \cup {"nginx"} = Paths
    BY DEF Paths
  <2>. QED BY <2>1, <2>2
<1>3. Ordered(s, FinalStep, {})
  BY CommandOrdered DEF FinalStep, Ids
<1>4. Plan(s) = most \o FinalStep
  BY DEF Plan
<1>5. Ordered(s, Plan(s), Paths)
  <2>. HIDE DEF most
  <2>. QED BY <1>2, <1>3, <1>4, QuietJoin
<1>6. \A k \in 1..Len(start) : \E j \in 1..Len(Plan(s)) : Plan(s)[j] = start[k]
  <2>1. \A k \in 1..Len(start) : \E j \in 1..Len(most) : most[j] = start[k]
    BY <1>1, IngressOrdered, JoinKeeps
  <2>2. \A k \in 1..Len(most) : \E j \in 1..Len(Plan(s)) : Plan(s)[j] = most[k]
    <3>. HIDE DEF most
    <3>. QED BY <1>2, <1>3, <1>4, JoinKeeps
  <2>. HIDE DEF start, most
  <2>3. ASSUME NEW k \in 1..Len(start) PROVE \E j \in 1..Len(Plan(s)) : Plan(s)[j] = start[k]
    <3>1. PICK i \in 1..Len(most) : most[i] = start[k]
      BY <2>1
    <3>2. PICK j \in 1..Len(Plan(s)) : Plan(s)[j] = most[i]
      BY <2>2
    <3>. QED BY <3>1, <3>2
  <2>. QED BY <2>3
<1>7. /\ \A k \in 1..Len(CreateSteps) : \E j \in 1..Len(start) : start[j] = CreateSteps[k]
      /\ \A k \in 1..Len(CniSteps(s)) : \E j \in 1..Len(start) : start[j] = CniSteps(s)[k]
  <2>1. Ordered(s, CreateSteps, {"config"})
    BY CreateOrdered
  <2>2. Ordered(s, CniSteps(s), {"flannel", "patched", "operator", "cr", "gateway"})
    BY CniOrdered
  <2>. QED BY <2>1, <2>2, JoinKeeps
<1>8. \E k \in 1..Len(Plan(s)) : Plan(s)[k].id = "kind-create"
  <2>1. 2 \in 1..Len(CreateSteps) /\ CreateSteps[2].id = "kind-create"
    BY DEF CreateSteps, Step
  <2>. HIDE DEF start
  <2>2. PICK j \in 1..Len(start) : start[j] = CreateSteps[2]
    BY <2>1, <1>7
  <2>3. PICK k \in 1..Len(Plan(s)) : Plan(s)[k] = start[j]
    BY <1>6
  <2>. QED BY <2>1, <2>2, <2>3
<1>9. \E k \in 1..Len(Plan(s)) : BringsCni(s, Plan(s)[k])
  <2>. HIDE DEF start
  <2>1. CASE s.cni = "kindnet"
    BY <2>1, <1>8 DEF BringsCni
  <2>2. CASE s.cni # "kindnet"
    <3>1. PICK i \in 1..Len(CniSteps(s)) : BringsCni(s, CniSteps(s)[i])
      BY <2>2, CniOrdered
    <3>2. PICK j \in 1..Len(start) : start[j] = CniSteps(s)[i]
      BY <1>7
    <3>3. PICK k \in 1..Len(Plan(s)) : Plan(s)[k] = start[j]
      BY <1>6
    <3>. QED BY <3>1, <3>2, <3>3
  <2>. QED BY <2>1, <2>2
<1>10. Len(Plan(s)) \in Nat \ {0}
  <2>1. Plan(s) \in Seq(StepSet)
    BY <1>5 DEF Ordered
  <2>2. Len(Plan(s)) \in Nat
    BY <2>1
  <2>. QED BY <2>2, <1>8
<1>. QED BY <1>5, <1>8, <1>9, <1>10

-----------------------------------------------------------------------------
(* The inductive invariant.                                                *)

PlanOf(r) == Plans[spec[r]]

\* A run that has begun has a spec and a place in its plan; only a download
\* is busy and has a digest.  Only a run under way is cancelled.
Placed(r) ==
    /\ stage[r] # "waiting" => spec[r] \in Specs /\ at[r] \in 1..Len(PlanOf(r))
    /\ stage[r] \in {"busy", "digest"} => Current(r).do = "download"
    /\ stage[r] = "waiting" => r \notin cancelled

\* What the last event says, and which steps the events are about.
StepsOf(events) == {events[k].step : k \in 1..Len(events)}
Last(events) == events[Len(events)]

WellTold(events) ==
    \A k \in 1..Len(events) :
      /\ events[k].is = "started" /\ k < Len(events) =>
           events[k + 1].is \in {"finished", "failed"} /\ events[k + 1].step = events[k].step
      /\ events[k].is \in {"success", "failure"} => k = Len(events)

Logged(r) ==
    /\ WellTold(log[r])
    /\ stage[r] = "waiting" => log[r] = <<>>
    /\ stage[r] \in {"check", "start"} =>
         /\ log[r] # <<>> => Last(log[r]).is = "finished"
         /\ StepsOf(log[r]) = 1..(at[r] - 1)
    /\ stage[r] \in {"act", "busy", "digest", "verify", "finish"} =>
         /\ log[r] # <<>> /\ Last(log[r]) = Sent(r, "started")
         /\ StepsOf(log[r]) = 1..at[r]
    /\ Over(r) => log[r] # <<>> /\ Last(log[r]).is \in {"success", "failure"}
    /\ stage[r] = "ok" => StepsOf(log[r]) = 1..Len(PlanOf(r))

\* After the token one more step is reached, and none begins.
StopsSoon(r) ==
    r \in cancelled =>
      /\ at[r] <= cancelAt[r] + 1
      /\ Active(r) /\ stage[r] # "check" => at[r] <= cancelAt[r]

\* What a step of the run has left behind.
Effect(r, step) ==
    /\ step.do \in {"write", "patch"} => file[step.path] = r
    /\ step.do = "download" => file[step.path] = "pinned"
    /\ step.do = "apply" =>
         /\ \E m \in applied : m.path = step.path /\ m.content \in {"pinned", r}
         /\ step.path = "gateway" => "gateway" \in crds
    /\ step.do = "wait" => "calico" \in crds
    /\ step.id = "kind-create" => cluster = r
    /\ step.id = "cni-cilium-install" => \E m \in applied : m.path = "cilium"

\* The steps that the run has done.
Past(r, k) == k < at[r] \/ (k = at[r] /\ stage[r] \in {"verify", "finish"})

\* A run that nobody disturbs is alone, and all that it did is still there.
Undisturbed(r) ==
    Active(r) /\ r \notin disturbed =>
      /\ \A q \in Runs : Active(q) => q = r
      /\ \A k \in 1..Len(PlanOf(r)) : Past(r, k) => Effect(r, PlanOf(r)[k])

IInv ==
    /\ TypeOK
    /\ \A r \in Runs : Placed(r) /\ Logged(r) /\ StopsSoon(r) /\ Undisturbed(r)

-----------------------------------------------------------------------------
(* What a run stands on.                                                   *)

LEMMA OfItsPlan ==
    ASSUME IInv, NEW r \in Runs, stage[r] # "waiting"
    PROVE  /\ spec[r] \in Specs /\ spec[r] \in SpecSet /\ PlanOf(r) = Plan(spec[r])
           /\ Ordered(spec[r], PlanOf(r), Paths)
           /\ Len(PlanOf(r)) \in Nat /\ at[r] \in 1..Len(PlanOf(r)) /\ at[r] \in Nat
           /\ Current(r) = PlanOf(r)[at[r]] /\ Current(r) \in StepSet
           /\ Writes(Current(r)) \/ Current(r).do = "apply" => Current(r).path \in Paths
<1>1. spec[r] \in Specs /\ at[r] \in 1..Len(PlanOf(r))
  BY DEF IInv, Placed
<1>2. spec[r] \in SpecSet
  BY <1>1, ProvisionAssumption DEF SpecSet
<1>3. PlanOf(r) = Plan(spec[r])
  BY <1>1 DEF PlanOf, Plans
<1>4. Ordered(spec[r], PlanOf(r), Paths) /\ Len(PlanOf(r)) \in Nat
  BY <1>2, <1>3, PlanInOrder
<1>5. Current(r) = PlanOf(r)[at[r]]
  BY DEF Current, PlanOf
<1>6. Current(r) \in StepSet
  BY <1>1, <1>4, <1>5 DEF Ordered
<1>7. Writes(Current(r)) \/ Current(r).do = "apply" => Current(r).path \in Paths
  <2>1. InItsPlace(spec[r], PlanOf(r), at[r])
    BY <1>1, <1>4 DEF Ordered
  <2>. QED BY <2>1, <1>5 DEF InItsPlace
<1>8. at[r] \in Nat
  BY <1>1
<1>. QED BY <1>1, <1>2, <1>3, <1>4, <1>5, <1>6, <1>7, <1>8

\* For the log and the token the work of a step has two shapes.
Inside == {"act", "busy", "digest", "verify", "finish"}

Works(r) ==
    /\ stage[r] \in Inside \ {"finish"}
    /\ \E next \in Inside :
         To(r, next) /\ (next \in {"busy", "digest"} => Current(r).do = "download")
    /\ UNCHANGED <<spec, at, cancelled, log, history>>

Fails(r) == stage[r] \in Inside /\ Fail(r) /\ UNCHANGED history

LEMMA DoneMoves ==
    ASSUME NEW r, Done(r)
    PROVE  \E next \in {"verify", "finish"} : To(r, next)
BY DEF Done

LEMMA Shapes ==
    ASSUME IInv, NEW r \in Runs, ExecuteStep(r) \/ ProbeFails(r)
    PROVE  Works(r) \/ Fails(r)
<1>. USE DEF Works, Fails, Inside
<1>1. ASSUME Done(r), stage[r] \in Inside \ {"finish"}, Proceed(r) PROVE Works(r)
  BY <1>1, DoneMoves DEF Proceed
<1>2. CASE WritesFile(r) \/ Patches(r) \/ Applies(r) \/ KindCreates(r) \/ CommandWorks(r)
           \/ CrdIsThere(r) \/ DigestMatches(r)
  BY <1>1, <1>2 DEF WritesFile, Patches, Applies, KindCreates, CommandWorks, CrdIsThere,
                    DigestMatches, Doing
<1>3. CASE DownloadStarts(r)
  BY <1>3 DEF DownloadStarts, Doing, Proceed
<1>4. CASE DownloadEnds(r)
  <2>1. Current(r).do = "download"
    BY <1>4 DEF IInv, Placed, DownloadEnds
  <2>. QED BY <1>4, <2>1 DEF DownloadEnds, Proceed
<1>5. CASE DigestDiffers(r)
  BY <1>5 DEF DigestDiffers
<1>6. CASE Polls(r)
  <2>1. CASE polls[r] < MaxPolls
    <3>1. stage \in [Runs -> {"waiting", "check", "start", "act", "busy", "digest", "verify",
                              "finish", "ok", "failed"}]
      BY DEF IInv, TypeOK
    <3>2. stage[r] = "act" /\ stage' = stage
      BY <1>6, <2>1 DEF Polls, Doing
    <3>3. To(r, "act")
      BY <3>1, <3>2 DEF To
    <3>. QED BY <1>6, <2>1, <3>2, <3>3 DEF Polls
  <2>2. CASE ~(polls[r] < MaxPolls)
    BY <1>6, <2>2 DEF Polls, Doing
  <2>. QED BY <2>1, <2>2
<1>7. CASE Verifies(r)
  BY <1>7 DEF Verifies, Proceed
<1>8. CASE StepFails(r)
  BY <1>8 DEF StepFails
<1>9. CASE ProbeFails(r)
  BY <1>9 DEF ProbeFails, Doing
<1>. QED BY <1>2, <1>3, <1>4, <1>5, <1>6, <1>7, <1>8, <1>9 DEF ExecuteStep

\* The other runs stay as they are.
Apart(r) ==
    \A q \in Runs \ {r} :
      /\ stage'[q] = stage[q] /\ spec'[q] = spec[q] /\ at'[q] = at[q] /\ log'[q] = log[q]
      /\ cancelAt'[q] = cancelAt[q] /\ (q \in cancelled' <=> q \in cancelled)

LEMMA StepsApart ==
    ASSUME IInv, NEW r \in Runs,
           \/ \E s \in Specs : Begin(r, s)
           \/ CheckToken(r) \/ Start(r) \/ Works(r) \/ Fails(r) \/ Finish(r) \/ Cancel(r)
    PROVE  Apart(r)
<1>1. stage \in [Runs -> {"waiting", "check", "start", "act", "busy", "digest", "verify",
                          "finish", "ok", "failed"}]
  BY DEF IInv, TypeOK
<1>2. /\ spec \in [Runs -> Specs \cup {None}] /\ at \in [Runs -> Nat]
      /\ log \in [Runs -> Seq(Events)] /\ cancelAt \in [Runs -> Nat]
  BY DEF IInv, TypeOK
<1>. USE <1>1, <1>2 DEF Apart, To, Send
<1>3. ASSUME NEW s \in Specs, Begin(r, s) PROVE Apart(r)
  BY <1>3 DEF Begin
<1>4. CASE CheckToken(r)
  BY <1>4 DEF CheckToken, history
<1>5. CASE Start(r)
  BY <1>5 DEF Start, history
<1>6. CASE Works(r)
  BY <1>6 DEF Works, history
<1>7. CASE Fails(r)
  BY <1>7 DEF Fails, Fail, history
<1>8. CASE Finish(r)
  BY <1>8 DEF Finish, history
<1>9. CASE Cancel(r)
  BY <1>9 DEF Cancel
<1>. QED BY <1>3, <1>4, <1>5, <1>6, <1>7, <1>8, <1>9

LEMMA OthersPlaced ==
    ASSUME IInv, NEW r, Apart(r), NEW q \in Runs, q # r
    PROVE  Placed(q)' /\ Logged(q)' /\ StopsSoon(q)'
<1>1. Placed(q) /\ Logged(q) /\ StopsSoon(q)
  BY DEF IInv
<1>2. /\ stage'[q] = stage[q] /\ spec'[q] = spec[q] /\ at'[q] = at[q] /\ log'[q] = log[q]
      /\ cancelAt'[q] = cancelAt[q] /\ (q \in cancelled' <=> q \in cancelled)
  BY DEF Apart
<1>3. Placed(q)'
  BY <1>1, <1>2 DEF Placed, Current, PlanOf
<1>4. Logged(q)'
  BY <1>1, <1>2 DEF Logged, PlanOf, Over, Sent
<1>5. StopsSoon(q)'
  BY <1>1, <1>2 DEF StopsSoon, Active
<1>. QED BY <1>3, <1>4, <1>5

LEMMA PlacedStep ==
    ASSUME IInv, NEW r \in Runs,
           \/ \E s \in Specs : Begin(r, s)
           \/ CheckToken(r) \/ Start(r) \/ Works(r) \/ Fails(r) \/ Finish(r) \/ Cancel(r)
    PROVE  Placed(r)'
<1>1. stage \in [Runs -> {"waiting", "check", "start", "act", "busy", "digest", "verify",
                          "finish", "ok", "failed"}]
  BY DEF IInv, TypeOK
<1>2. spec \in [Runs -> Specs \cup {None}] /\ at \in [Runs -> Nat]
  BY DEF IInv, TypeOK
<1>3. Placed(r)
  BY DEF IInv
<1>4. ASSUME NEW s \in Specs, Begin(r, s) PROVE Placed(r)'
  <2>1. stage[r] = "waiting" /\ stage'[r] = "check" /\ spec'[r] = s /\ at'[r] = 1 /\ cancelled' = cancelled
    BY <1>4, <1>1, <1>2 DEF Begin, To
  <2>2. Len(Plan(s)) \in Nat \ {0}
    BY PlanInOrder, ProvisionAssumption DEF SpecSet
  <2>3. Plans[s] = Plan(s) /\ 1 \in 1..Len(Plan(s))
    BY <2>2 DEF Plans
  <2>. QED BY <2>1, <2>3 DEF Placed, PlanOf
<1>5. CASE CheckToken(r) \/ Start(r)
  BY <1>5, <1>1, <1>3 DEF CheckToken, Start, Placed, To, PlanOf
<1>6. CASE Works(r)
  BY <1>6, <1>1, <1>3 DEF Works, Inside, Placed, To, PlanOf, Current
<1>7. CASE Fails(r)
  BY <1>7, <1>1, <1>3 DEF Fails, Fail, Inside, Placed, To, PlanOf
<1>8. CASE Finish(r)
  <2>1. stage[r] = "finish" /\ stage'[r] \in {"check", "ok"} /\ spec' = spec
    BY <1>8, <1>1 DEF Finish, To
  <2>2. at'[r] = at[r] \/ (at'[r] = at[r] + 1 /\ at[r] < Len(PlanOf(r)))
    BY <1>8, <1>2 DEF Finish, PlanOf
  <2>3. Len(PlanOf(r)) \in Nat /\ at[r] \in 1..Len(PlanOf(r))
    BY <2>1, OfItsPlan
  <2>4. at'[r] \in 1..Len(PlanOf(r))
    BY <2>2, <2>3
  <2>. QED BY <2>1, <2>4, <1>3 DEF Placed, PlanOf
<1>9. CASE Cancel(r)
  BY <1>9, <1>3 DEF Cancel, Active, Placed, PlanOf, Current
<1>. QED BY <1>4, <1>5, <1>6, <1>7, <1>8, <1>9

-----------------------------------------------------------------------------
(* The types.                                                              *)

\* What the steps do to the world.
LEMMA WorldTyped ==
    ASSUME IInv, NEW r \in Runs, ExecuteStep(r)
    PROVE  /\ file' \in [Paths -> Contents] /\ cluster' \in Contents \cup {None}
           /\ applied' \subseteq Manifests /\ crds' \subseteq {"calico", "gateway"}
           /\ polls' \in [Runs -> 0..MaxPolls] /\ deletes' = deletes
<1>1. /\ file \in [Paths -> Contents] /\ cluster \in Contents \cup {None}
      /\ applied \subseteq Manifests /\ crds \subseteq {"calico", "gateway"}
      /\ polls \in [Runs -> 0..MaxPolls]
  BY DEF IInv, TypeOK
<1>2. CASE WritesFile(r)
  BY <1>1, <1>2, r \in Contents DEF WritesFile, Proceed, Contents
<1>3. CASE Patches(r)
  BY <1>1, <1>3 DEF Patches, Proceed, Contents
<1>4. CASE DownloadStarts(r) \/ DownloadEnds(r)
  BY <1>1, <1>4 DEF DownloadStarts, DownloadEnds, Proceed, Contents
<1>5. CASE DigestMatches(r) \/ DigestDiffers(r)
  BY <1>1, <1>5 DEF DigestMatches, DigestDiffers, Fail, Proceed, Contents
<1>6. CASE Applies(r)
  <2>1. Current(r).path \in Paths
    <3>1. stage[r] # "waiting" /\ Current(r).do = "apply"
      BY <1>6 DEF Applies, Doing
    <3>. QED BY <3>1, OfItsPlan
  <2>2. [path |-> Current(r).path, content |-> file[Current(r).path]] \in Manifests
    BY <1>1, <2>1 DEF Manifests
  <2>. QED BY <1>1, <1>6, <2>2 DEF Applies, Proceed
<1>7. CASE KindCreates(r)
  <2>1. file["config"] \in Contents
    BY <1>1 DEF Paths
  <2>. QED BY <1>1, <1>7, <2>1 DEF KindCreates, Proceed
<1>8. CASE CommandWorks(r)
  <2>1. [path |-> "cilium", content |-> "pinned"] \in Manifests
    BY DEF Manifests
  <2>. QED BY <1>1, <1>8, <2>1 DEF CommandWorks, Proceed
<1>9. CASE CrdIsThere(r) \/ Verifies(r)
  BY <1>1, <1>9 DEF CrdIsThere, Verifies, Proceed
<1>10. CASE Polls(r)
  <2>1. polls[r] \in 0..MaxPolls /\ MaxPolls \in Nat
    BY <1>1, ProvisionAssumption
  <2>2. polls[r] < MaxPolls => polls[r] + 1 \in 0..MaxPolls
    BY <2>1
  <2>. QED BY <1>1, <1>10, <2>2 DEF Polls, Fail, world
<1>11. CASE StepFails(r)
  BY <1>1, <1>11 DEF StepFails, Fail, world
<1>. QED BY <1>2, <1>3, <1>4, <1>5, <1>6, <1>7, <1>8, <1>9, <1>10, <1>11 DEF ExecuteStep

LEMMA EventIsEvent ==
    ASSUME IInv, NEW r \in Runs, NEW is \in {"started", "finished", "failed", "success", "failure"}
    PROVE  Sent(r, is) \in Events
<1>1. at[r] \in Nat
  BY DEF IInv, TypeOK
<1>. QED BY <1>1 DEF Sent, Events

LEMMA TwoEvents ==
    ASSUME NEW e \in Seq(Events), NEW x \in Events, NEW y \in Events
    PROVE  e \o <<x, y>> = Append(Append(e, x), y)
OBVIOUS

\* The log of a run stays a sequence of events.
LEMMA LogTyped ==
    ASSUME IInv, NEW r \in Runs,
           CheckToken(r) \/ Start(r) \/ Works(r) \/ Fails(r) \/ Finish(r)
    PROVE  log' \in [Runs -> Seq(Events)]
<1>1. log \in [Runs -> Seq(Events)]
  BY DEF IInv, TypeOK
<1>2. \A is \in {"started", "finished", "failed", "success", "failure"} : Sent(r, is) \in Events
  BY EventIsEvent
<1>3. ASSUME NEW is \in {"started", "finished", "failed", "success", "failure"}, Send(r, is)
      PROVE  log' \in [Runs -> Seq(Events)]
  <2>1. Append(log[r], Sent(r, is)) \in Seq(Events)
    BY <1>1, <1>2
  <2>. QED BY <1>1, <1>3, <2>1 DEF Send
<1>4. ASSUME NEW is \in {"started", "finished", "failed", "success", "failure"},
             NEW end \in {"started", "finished", "failed", "success", "failure"},
             log' = [log EXCEPT ![r] = @ \o <<Sent(r, is), Sent(r, end)>>]
      PROVE  log' \in [Runs -> Seq(Events)]
  <2>1. log[r] \o <<Sent(r, is), Sent(r, end)>> \in Seq(Events)
    BY <1>1, <1>2, TwoEvents
  <2>. QED BY <1>1, <1>4, <2>1
<1>5. CASE CheckToken(r)
  BY <1>1, <1>3, <1>5 DEF CheckToken
<1>6. CASE Start(r)
  BY <1>3, <1>6 DEF Start
<1>7. CASE Works(r)
  BY <1>1, <1>7 DEF Works
<1>8. CASE Fails(r)
  BY <1>4, <1>8 DEF Fails, Fail
<1>9. CASE Finish(r)
  BY <1>3, <1>4, <1>9 DEF Finish
<1>. QED BY <1>5, <1>6, <1>7, <1>8, <1>9

\* The rest of the state.
LEMMA TypeStep ==
    ASSUME IInv, [Next]_vars, \A r \in Runs : Placed(r)'
    PROVE  TypeOK'
<1>. DEFINE Stages == {"waiting", "check", "start", "act", "busy", "digest", "verify",
                       "finish", "ok", "failed"}
            Core == /\ stage' \in [Runs -> Stages]
                    /\ spec' \in [Runs -> Specs \cup {None}] /\ at' \in [Runs -> Nat]
                    /\ cancelled' \subseteq Runs
                    /\ cancelAt' \in [Runs -> Nat] /\ disturbed' \subseteq Runs
            Rest == /\ log' \in [Runs -> Seq(Events)]
                    /\ polls' \in [Runs -> 0..MaxPolls]
                    /\ file' \in [Paths -> Contents] /\ cluster' \in Contents \cup {None}
                    /\ applied' \subseteq Manifests /\ crds' \subseteq {"calico", "gateway"}
                    /\ deletes' \in 0..MaxDeletes
<1>1. TypeOK
  BY DEF IInv
<1>2. ASSUME Core, Rest PROVE TypeOK'
  <2>1. \A r \in Runs : Active(r)' => spec'[r] \in Specs /\ at'[r] \in 1..Len(Plans[spec'[r]])
    BY DEF Placed, Active, PlanOf
  <2>2. \A r \in Runs : Active(r)' => DOMAIN Plans[spec'[r]] = 1..Len(Plans[spec'[r]])
    <3>1. \A s \in Specs : Plans[s] \in Seq(StepSet)
      BY PlanInOrder, ProvisionAssumption DEF Plans, SpecSet, Ordered
    <3>. QED BY <2>1, <3>1
  <2>. QED BY <1>2, <2>1, <2>2 DEF TypeOK
<1>3. CASE UNCHANGED vars
  <2>1. Core /\ Rest
    BY <1>1, <1>3 DEF TypeOK, vars
  <2>. QED BY <1>2, <2>1
<1>4. ASSUME NEW r \in Runs, NEW s \in Specs, Begin(r, s) PROVE Core /\ Rest
  BY <1>1, <1>4 DEF TypeOK, Begin, To, world, Active
<1>5. ASSUME NEW r \in Runs, RunPlan(r) \/ ProbeFails(r) PROVE Core /\ Rest
  <2>1. CASE CheckToken(r)
    <3>1. log' \in [Runs -> Seq(Events)]
      BY <2>1, LogTyped
    <3>. QED BY <1>1, <2>1, <3>1 DEF TypeOK, CheckToken, To, world, history
  <2>2. CASE Start(r)
    <3>1. log' \in [Runs -> Seq(Events)]
      BY <2>2, LogTyped
    <3>2. 0 \in 0..MaxPolls
      BY ProvisionAssumption
    <3>3. polls' \in [Runs -> 0..MaxPolls]
      BY <1>1, <2>2, <3>2 DEF TypeOK, Start
    <3>4. Core
      BY <1>1, <2>2 DEF TypeOK, Start, To, world, history
    <3>. QED BY <1>1, <2>2, <3>1, <3>3, <3>4 DEF TypeOK, Start, world, history
  <2>3. CASE Finish(r)
    <3>1. log' \in [Runs -> Seq(Events)]
      BY <2>3, LogTyped
    <3>2. at' \in [Runs -> Nat]
      <4>1. at \in [Runs -> Nat] /\ at[r] + 1 \in Nat
        BY <1>1 DEF TypeOK
      <4>. QED BY <2>3, <4>1 DEF Finish
    <3>3. stage' \in [Runs -> Stages]
      BY <1>1, <2>3 DEF TypeOK, Finish, To
    <3>4. Core
      BY <1>1, <2>3, <3>2, <3>3 DEF TypeOK, Finish, world, history
    <3>. QED BY <1>1, <2>3, <3>1, <3>4 DEF TypeOK, Finish, world, history
  <2>4. CASE ExecuteStep(r) \/ ProbeFails(r)
    <3>1. Works(r) \/ Fails(r)
      BY <2>4, Shapes
    <3>2. log' \in [Runs -> Seq(Events)]
      BY <3>1, LogTyped
    <3>3. Core
      BY <1>1, <3>1 DEF TypeOK, Works, Fails, Fail, To, Inside, history
    <3>4. CASE ExecuteStep(r)
      BY <1>1, <3>2, <3>3, <3>4, WorldTyped DEF TypeOK
    <3>5. CASE ProbeFails(r)
      BY <1>1, <3>2, <3>3, <3>5 DEF TypeOK, ProbeFails, Fail, world
    <3>. QED BY <2>4, <3>4, <3>5
  <2>. QED BY <1>5, <2>1, <2>2, <2>3, <2>4 DEF RunPlan
<1>6. ASSUME NEW r \in Runs, Cancel(r) PROVE Core /\ Rest
  BY <1>1, <1>6 DEF TypeOK, Cancel, world
<1>7. CASE Deleted
  <2>1. deletes' \in 0..MaxDeletes
    <3>1. deletes \in 0..MaxDeletes /\ MaxDeletes \in Nat
      BY <1>1, ProvisionAssumption DEF TypeOK
    <3>. QED BY <1>7, <3>1 DEF Deleted
  <2>. QED BY <1>1, <1>7, <2>1, <1>2 DEF TypeOK, Deleted, run
<1>8. CASE CrdRegisters
  <2>1. Core /\ Rest
    BY <1>1, <1>8 DEF TypeOK, CrdRegisters, run, history
  <2>. QED BY <1>2, <2>1
<1>. QED BY <1>2, <1>3, <1>4, <1>5, <1>6, <1>7, <1>8 DEF Next

-----------------------------------------------------------------------------
(* The events.                                                             *)

\* What may follow the last event.
Follows(events, x) ==
    events # <<>> =>
      /\ Last(events).is \notin {"success", "failure"}
      /\ Last(events).is = "started" =>
           x.is \in {"finished", "failed"} /\ x.step = Last(events).step

LEMMA Told ==
    ASSUME NEW e \in Seq(Events), NEW x \in Events, WellTold(e), Follows(e, x)
    PROVE  LET t == Append(e, x) IN
             /\ t \in Seq(Events) /\ t # <<>> /\ WellTold(t) /\ Last(t) = x
             /\ StepsOf(t) = StepsOf(e) \cup {x.step}
<1>. DEFINE t == Append(e, x)
            n == Len(e)
<1>1. /\ t \in Seq(Events) /\ Len(t) = n + 1 /\ n \in Nat
      /\ t[n + 1] = x /\ \A k \in 1..n : t[k] = e[k]
  OBVIOUS
<1>2. n # 0 => e # <<>>
  OBVIOUS
<1>. HIDE DEF t, n
<1>3. \A k \in 1..Len(t) : (k \in 1..n /\ t[k] = e[k]) \/ (k = n + 1 /\ t[k] = x)
  BY <1>1
<1>4. WellTold(t)
  <2>. SUFFICES ASSUME NEW k \in 1..Len(t)
                PROVE  /\ t[k].is = "started" /\ k < Len(t) =>
                            /\ t[k + 1].is \in {"finished", "failed"}
                            /\ t[k + 1].step = t[k].step
                       /\ t[k].is \in {"success", "failure"} => k = Len(t)
    BY DEF WellTold
  <2>1. CASE k = n + 1
    BY <2>1, <1>1
  <2>2. CASE k \in 1..n /\ t[k] = e[k] /\ k < n
    <3>1. k + 1 \in 1..n /\ t[k + 1] = e[k + 1]
      BY <2>2, <1>1
    <3>. QED BY <3>1, <2>2, <1>1 DEF WellTold, n
  <2>3. CASE k \in 1..n /\ t[k] = e[k] /\ k = n
    <3>1. t[k] = Last(e) /\ t[k + 1] = x /\ e # <<>>
      BY <2>3, <1>1, <1>2 DEF Last, n
    <3>. QED BY <3>1 DEF Follows
  <2>4. k = n + 1 \/ (k \in 1..n /\ t[k] = e[k] /\ k < n) \/ (k \in 1..n /\ t[k] = e[k] /\ k = n)
    BY <1>1, <1>3
  <2>. QED BY <2>1, <2>2, <2>3, <2>4
<1>5. Last(t) = x
  BY <1>1 DEF Last
<1>6. StepsOf(t) = StepsOf(e) \cup {x.step}
  <2>1. StepsOf(t) \subseteq StepsOf(e) \cup {x.step}
    BY <1>3 DEF StepsOf, n
  <2>2. StepsOf(e) \subseteq StepsOf(t)
    <3>1. \A k \in 1..n : k \in 1..Len(t) /\ t[k] = e[k]
      BY <1>1
    <3>. QED BY <3>1 DEF StepsOf, n
  <2>3. x.step \in StepsOf(t)
    <3>1. n + 1 \in 1..Len(t)
      BY <1>1
    <3>. QED BY <3>1, <1>1 DEF StepsOf
  <2>. QED BY <2>1, <2>2, <2>3
<1>7. t # <<>>
  <2>1. Len(t) # 0
    BY <1>1
  <2>. QED BY <2>1
<1>. QED BY <1>1, <1>4, <1>5, <1>6, <1>7 DEF t

LEMMA LoggedStep ==
    ASSUME IInv, NEW r \in Runs, Placed(r)',
           \/ \E s \in Specs : Begin(r, s)
           \/ CheckToken(r) \/ Start(r) \/ Works(r) \/ Fails(r) \/ Finish(r) \/ Cancel(r)
    PROVE  Logged(r)'
<1>1. stage \in [Runs -> {"waiting", "check", "start", "act", "busy", "digest", "verify",
                          "finish", "ok", "failed"}]
  BY DEF IInv, TypeOK
<1>2. /\ spec \in [Runs -> Specs \cup {None}] /\ at \in [Runs -> Nat]
      /\ log \in [Runs -> Seq(Events)] /\ at[r] \in Nat /\ log[r] \in Seq(Events)
  BY DEF IInv, TypeOK
<1>3. Logged(r) /\ Placed(r)
  BY DEF IInv
<1>4. \A is \in {"started", "finished", "failed", "success", "failure"} :
        /\ Sent(r, is) \in Events
        /\ Sent(r, is).is = is /\ Sent(r, is).step = at[r]
  BY EventIsEvent DEF Sent
<1>5. ASSUME NEW s \in Specs, Begin(r, s) PROVE Logged(r)'
  <2>1. /\ stage[r] = "waiting" /\ stage'[r] = "check" /\ at'[r] = 1
        /\ log' = log /\ log[r] = <<>>
    BY <1>1, <1>2, <1>3, <1>5 DEF Begin, To, Logged
  <2>2. StepsOf(<<>>) = {} /\ 1..(1 - 1) = {}
    BY DEF StepsOf
  <2>. QED BY <2>1, <2>2, <1>3 DEF Logged, Over
<1>6. CASE CheckToken(r)
  <2>1. CASE r \notin cancelled
    <3>1. stage[r] = "check" /\ stage'[r] = "start" /\ at' = at /\ log' = log
      BY <1>1, <1>6, <2>1 DEF CheckToken, To
    <3>. QED BY <3>1, <1>3 DEF Logged, Over
  <2>2. CASE r \in cancelled
    <3>1. /\ stage[r] = "check" /\ stage'[r] = "failed"
          /\ log'[r] = Append(log[r], Sent(r, "failure"))
      BY <1>1, <1>2, <1>6, <2>2 DEF CheckToken, To, Send
    <3>2. Follows(log[r], Sent(r, "failure")) /\ WellTold(log[r])
      BY <3>1, <1>3 DEF Logged, Follows
    <3>3. log'[r] # <<>> /\ WellTold(log'[r]) /\ Last(log'[r]) = Sent(r, "failure")
      BY <3>1, <3>2, <1>2, <1>4, Told
    <3>. QED BY <3>1, <3>3, <1>4 DEF Logged, Over
  <2>. QED BY <2>1, <2>2
<1>7. CASE Start(r)
  <2>1. /\ stage[r] = "start" /\ stage'[r] = "act" /\ at' = at
        /\ log'[r] = Append(log[r], Sent(r, "started"))
    BY <1>1, <1>2, <1>7 DEF Start, To, Send
  <2>2. /\ Follows(log[r], Sent(r, "started")) /\ WellTold(log[r])
        /\ StepsOf(log[r]) = 1..(at[r] - 1)
    BY <2>1, <1>3 DEF Logged, Follows
  <2>3. /\ log'[r] # <<>> /\ WellTold(log'[r]) /\ Last(log'[r]) = Sent(r, "started")
        /\ StepsOf(log'[r]) = StepsOf(log[r]) \cup {at[r]}
    BY <2>1, <2>2, <1>2, <1>4, Told
  <2>4. StepsOf(log'[r]) = 1..at[r]
    <3>1. at[r] \in 1..Len(PlanOf(r)) /\ Len(PlanOf(r)) \in Nat
      BY <2>1, OfItsPlan
    <3>2. 1..(at[r] - 1) \cup {at[r]} = 1..at[r]
      BY <3>1
    <3>. QED BY <2>2, <2>3, <3>2
  <2>5. Sent(r, "started")' = Sent(r, "started")
    BY <2>1 DEF Sent
  <2>. QED BY <2>1, <2>3, <2>4, <2>5 DEF Logged, Over
<1>8. CASE Works(r)
  <2>1. /\ stage[r] \in {"act", "busy", "digest", "verify"}
        /\ stage'[r] \in {"act", "busy", "digest", "verify", "finish"}
        /\ at' = at /\ log' = log
    BY <1>1, <1>8 DEF Works, Inside, To
  <2>. QED BY <2>1, <1>3 DEF Logged, Over, Sent
<1>9. CASE Fails(r)
  <2>1. /\ stage[r] \in Inside /\ stage'[r] = "failed"
        /\ log'[r] = Append(Append(log[r], Sent(r, "failed")), Sent(r, "failure"))
    BY <1>1, <1>2, <1>4, <1>9, TwoEvents DEF Fails, Fail, To
  <2>2. Follows(log[r], Sent(r, "failed")) /\ WellTold(log[r])
    BY <2>1, <1>3, <1>4 DEF Logged, Follows, Inside
  <2>. DEFINE t == Append(log[r], Sent(r, "failed"))
  <2>3. /\ t \in Seq(Events) /\ WellTold(t) /\ Last(t) = Sent(r, "failed")
    BY <2>2, <1>2, <1>4, Told
  <2>. HIDE DEF t
  <2>4. Follows(t, Sent(r, "failure"))
    BY <2>3, <1>4 DEF Follows
  <2>5. log'[r] = Append(t, Sent(r, "failure"))
    BY <2>1 DEF t
  <2>6. log'[r] # <<>> /\ WellTold(log'[r]) /\ Last(log'[r]) = Sent(r, "failure")
    BY <2>3, <2>4, <2>5, <1>4, Told
  <2>. QED BY <2>1, <2>6, <1>4 DEF Logged, Over
<1>10. CASE Finish(r)
  <2>1. stage[r] = "finish" /\ spec' = spec
    BY <1>10 DEF Finish
  <2>2. /\ Follows(log[r], Sent(r, "finished")) /\ WellTold(log[r])
        /\ StepsOf(log[r]) = 1..at[r]
    BY <2>1, <1>3, <1>4 DEF Logged, Follows
  <2>. DEFINE t == Append(log[r], Sent(r, "finished"))
  <2>3. /\ t \in Seq(Events) /\ t # <<>> /\ WellTold(t) /\ Last(t) = Sent(r, "finished")
        /\ StepsOf(t) = StepsOf(log[r]) \cup {at[r]}
    BY <2>2, <1>2, <1>4, Told
  <2>4. at[r] \in 1..Len(PlanOf(r)) /\ Len(PlanOf(r)) \in Nat
    BY <2>1, OfItsPlan
  <2>5. StepsOf(t) = 1..at[r]
    <3>1. 1..at[r] \cup {at[r]} = 1..at[r]
      BY <2>4
    <3>. QED BY <2>2, <2>3, <3>1
  <2>6. CASE at[r] < Len(PlanOf(r))
    <3>1. stage'[r] = "check" /\ at'[r] = at[r] + 1 /\ log'[r] = t
      BY <1>1, <1>2, <1>10, <2>6 DEF Finish, To, Send, PlanOf
    <3>. HIDE DEF t
    <3>2. at'[r] - 1 = at[r]
      BY <3>1, <2>4
    <3>. QED BY <2>3, <2>5, <3>1, <3>2, <1>4 DEF Logged, Over
  <2>7. CASE ~(at[r] < Len(PlanOf(r)))
    <3>1. /\ stage'[r] = "ok" /\ at' = at
          /\ log'[r] = Append(t, Sent(r, "success"))
      BY <1>1, <1>2, <1>4, <1>10, <2>7, TwoEvents DEF Finish, To, PlanOf
    <3>. HIDE DEF t
    <3>2. Follows(t, Sent(r, "success"))
      BY <2>3, <1>4 DEF Follows
    <3>3. /\ log'[r] # <<>> /\ WellTold(log'[r]) /\ Last(log'[r]) = Sent(r, "success")
          /\ StepsOf(log'[r]) = StepsOf(t) \cup {at[r]}
      BY <2>3, <3>1, <3>2, <1>4, Told
    <3>4. at[r] = Len(PlanOf(r)) /\ PlanOf(r)' = PlanOf(r)
      BY <2>1, <2>4, <2>7 DEF PlanOf
    <3>5. StepsOf(log'[r]) = 1..Len(PlanOf(r))
      BY <2>3, <2>2, <2>5, <3>3, <3>4
    <3>. QED BY <3>1, <3>3, <3>4, <3>5, <1>4 DEF Logged, Over
  <2>. QED BY <2>6, <2>7
<1>11. CASE Cancel(r)
  <2>1. UNCHANGED <<stage, spec, at, log>>
    BY <1>11 DEF Cancel
  <2>. QED BY <2>1, <1>3 DEF Logged, Over, Sent, PlanOf
<1>. QED BY <1>5, <1>6, <1>7, <1>8, <1>9, <1>10, <1>11

\* Who is cancelled finishes the step at hand, or the one that is about to start.
LEMMA StopsStep ==
    ASSUME IInv, NEW r \in Runs,
           \/ \E s \in Specs : Begin(r, s)
           \/ CheckToken(r) \/ Start(r) \/ Works(r) \/ Fails(r) \/ Finish(r) \/ Cancel(r)
    PROVE  StopsSoon(r)'
<1>1. stage \in [Runs -> {"waiting", "check", "start", "act", "busy", "digest", "verify",
                          "finish", "ok", "failed"}]
  BY DEF IInv, TypeOK
<1>2. /\ at \in [Runs -> Nat] /\ at[r] \in Nat /\ cancelAt \in [Runs -> Nat] /\ cancelAt[r] \in Nat
  BY DEF IInv, TypeOK
<1>3. StopsSoon(r) /\ Placed(r)
  BY DEF IInv
<1>. USE DEF StopsSoon, Active
<1>4. ASSUME NEW s \in Specs, Begin(r, s) PROVE StopsSoon(r)'
  BY <1>3, <1>4 DEF Begin, Placed
<1>5. CASE CheckToken(r) \/ Start(r)
  BY <1>1, <1>2, <1>3, <1>5 DEF CheckToken, Start, To, history
<1>6. CASE Works(r) \/ Fails(r)
  BY <1>1, <1>2, <1>3, <1>6 DEF Works, Fails, Fail, Inside, To, history
<1>7. CASE Finish(r)
  <2>1. /\ stage[r] = "finish" /\ stage'[r] \in {"check", "ok"} /\ cancelled' = cancelled
        /\ cancelAt' = cancelAt /\ at'[r] \in {at[r], at[r] + 1}
    BY <1>1, <1>2, <1>7 DEF Finish, To, history
  <2>2. r \in cancelled => at[r] <= cancelAt[r] /\ at'[r] <= cancelAt[r] + 1
    BY <2>1, <1>2, <1>3
  <2>. QED BY <2>1, <2>2
<1>8. CASE Cancel(r)
  BY <1>2, <1>8 DEF Cancel
<1>. QED BY <1>4, <1>5, <1>6, <1>7, <1>8

-----------------------------------------------------------------------------
(* What the steps leave behind.                                            *)

\* What is done stays done: no step writes the file of an earlier one, nothing
\* is taken from the cluster, and it is created once.
LEMMA EffectKept ==
    ASSUME NEW r \in Runs, NEW step, Effect(r, step),
           Writes(step) => file'[step.path] = file[step.path],
           applied \subseteq applied', crds \subseteq crds', cluster # None => cluster' = cluster
    PROVE  Effect(r, step)'
<1>1. r # None
  BY ProvisionAssumption
<1>. QED BY <1>1 DEF Effect, Writes

\* A step of a run that is alone works where the steps before it have worked.
LEMMA StepStands ==
    ASSUME IInv, NEW r \in Runs \ disturbed, Active(r)
    PROVE  /\ \A k \in 1..Len(PlanOf(r)) : k < at[r] => Effect(r, PlanOf(r)[k])
           /\ Current(r).do = "patch" => Current(r).path = "patched" /\ file["flannel"] = "pinned"
           /\ Current(r).do = "apply" => file[Current(r).path] \in {"pinned", r}
           /\ Current(r).do = "apply" /\ Current(r).path = "cr" => "calico" \in crds
           /\ Current(r).id = "kind-create" => Current(r).do = "command" /\ file["config"] = r
           /\ Current(r).id = "cni-cilium-install" =>
                Current(r).do = "command" /\ (spec[r].gateway => "gateway" \in crds)
<1>1. stage[r] # "waiting"
  BY DEF Active
<1>2. /\ at[r] \in 1..Len(PlanOf(r)) /\ Current(r) = PlanOf(r)[at[r]]
      /\ Ordered(spec[r], PlanOf(r), Paths)
  BY <1>1, OfItsPlan
<1>3. InItsPlace(spec[r], PlanOf(r), at[r])
  BY <1>2 DEF Ordered
<1>4. \A k \in 1..Len(PlanOf(r)) : k < at[r] => Effect(r, PlanOf(r)[k])
  BY DEF IInv, Undisturbed, Past
<1>5. ASSUME Current(r).do = "patch"
      PROVE  Current(r).path = "patched" /\ file["flannel"] = "pinned"
  BY <1>2, <1>3, <1>4, <1>5 DEF InItsPlace, Effect
<1>6. ASSUME Current(r).do = "apply" PROVE file[Current(r).path] \in {"pinned", r}
  BY <1>2, <1>3, <1>4, <1>6 DEF InItsPlace, Effect, Writes
<1>7. ASSUME Current(r).do = "apply", Current(r).path = "cr" PROVE "calico" \in crds
  BY <1>2, <1>3, <1>4, <1>7 DEF InItsPlace, Effect
<1>8. ASSUME Current(r).id = "kind-create"
      PROVE  Current(r).do = "command" /\ file["config"] = r
  BY <1>2, <1>3, <1>4, <1>8 DEF InItsPlace, Effect
<1>9. ASSUME Current(r).id = "cni-cilium-install"
      PROVE  Current(r).do = "command" /\ (spec[r].gateway => "gateway" \in crds)
  BY <1>2, <1>3, <1>4, <1>9 DEF InItsPlace, Effect
<1>. QED BY <1>4, <1>5, <1>6, <1>7, <1>8, <1>9

\* The steps that come before the one at hand.
Earlier(r) == {PlanOf(r)[k] : k \in {k \in 1..Len(PlanOf(r)) : k < at[r]}}

\* The work of a step leaves the earlier ones' alone and, when it is done, its own.
LEMMA WorkKeeps ==
    ASSUME IInv, NEW r \in Runs \ disturbed, Active(r), ExecuteStep(r), Works(r), NEW step
    PROVE  /\ step \in Earlier(r) => Effect(r, step)'
           /\ step = Current(r) /\ stage'[r] \in {"verify", "finish"} => Effect(r, step)'
<1>1. stage[r] # "waiting"
  BY DEF Active
<1>2. /\ at[r] \in 1..Len(PlanOf(r)) /\ Current(r) = PlanOf(r)[at[r]]
      /\ Ordered(spec[r], PlanOf(r), Paths) /\ Current(r) \in StepSet
      /\ Writes(Current(r)) \/ Current(r).do = "apply" => Current(r).path \in Paths
  BY <1>1, OfItsPlan
<1>3. /\ file \in [Paths -> Contents] /\ stage[r] \in Inside
      /\ stage \in [Runs -> {"waiting", "check", "start", "act", "busy", "digest", "verify",
                             "finish", "ok", "failed"}]
  BY DEF IInv, TypeOK, Works
<1>4. step \in Earlier(r) =>
        /\ Effect(r, step)
        /\ Writes(Current(r)) /\ Writes(step) => step.path # Current(r).path
        /\ Writes(step) => step.path \in Paths
  BY <1>2, StepStands DEF Ordered, Earlier
<1>5. stage[r] = "verify" => Effect(r, Current(r))
  BY <1>2, <1>3 DEF IInv, Undisturbed, Past
<1>6. r # None
  BY ProvisionAssumption
<1>7. ASSUME applied \subseteq applied', crds \subseteq crds', cluster # None => cluster' = cluster,
             \/ file' = file
             \/ Writes(Current(r)) /\ \A p \in Paths \ {Current(r).path} : file'[p] = file[p]
      PROVE  step \in Earlier(r) => Effect(r, step)'
  BY <1>4, <1>7, EffectKept
<1>8. stage'[r] \in Inside
  BY <1>3 DEF Works, To
<1>. DEFINE Own == step = Current(r) /\ stage'[r] \in {"verify", "finish"} => Effect(r, step)'
<1>. USE DEF Doing, Proceed
<1>9. CASE WritesFile(r)
  <2>1. step \in Earlier(r) => Effect(r, step)'
    BY <1>3, <1>7, <1>9 DEF WritesFile, Writes
  <2>2. file'[Current(r).path] = r
    BY <1>2, <1>3, <1>9 DEF WritesFile, Writes
  <2>3. Current(r).id \notin {"kind-create", "cni-cilium-install"}
    BY <1>9, StepStands DEF WritesFile
  <2>4. Own
    BY <1>9, <2>2, <2>3 DEF WritesFile, Effect
  <2>. QED BY <2>1, <2>4
<1>10. CASE Patches(r)
  <2>1. step \in Earlier(r) => Effect(r, step)'
    BY <1>3, <1>7, <1>10, StepStands DEF Patches, Writes
  <2>2. file'[Current(r).path] = r
    BY <1>2, <1>3, <1>10, StepStands DEF Patches, Paths
  <2>3. Current(r).id \notin {"kind-create", "cni-cilium-install"}
    BY <1>10, StepStands DEF Patches
  <2>4. Own
    BY <1>10, <2>2, <2>3 DEF Patches, Effect
  <2>. QED BY <2>1, <2>4
<1>11. CASE DownloadStarts(r)
  <2>1. step \in Earlier(r) => Effect(r, step)'
    BY <1>3, <1>7, <1>11 DEF DownloadStarts, Writes
  <2>2. stage'[r] = "busy"
    BY <1>3, <1>11 DEF DownloadStarts, To
  <2>. QED BY <2>1, <2>2
<1>12. CASE DownloadEnds(r)
  <2>1. Current(r).do = "download"
    BY <1>12 DEF IInv, Placed, DownloadEnds
  <2>2. step \in Earlier(r) => Effect(r, step)'
    BY <1>3, <1>7, <1>12, <2>1 DEF DownloadEnds, Writes
  <2>3. stage'[r] = "digest"
    BY <1>3, <1>12 DEF DownloadEnds, To
  <2>. QED BY <2>2, <2>3
<1>13. CASE DigestMatches(r)
  <2>1. Current(r).do = "download"
    BY <1>13 DEF IInv, Placed, DigestMatches
  <2>2. step \in Earlier(r) => Effect(r, step)'
    BY <1>7, <1>13 DEF DigestMatches
  <2>3. Current(r).id \notin {"kind-create", "cni-cilium-install"}
    BY <2>1, StepStands
  <2>4. Own
    BY <1>13, <2>1, <2>3 DEF DigestMatches, Effect
  <2>. QED BY <2>2, <2>4
<1>14. CASE DigestDiffers(r)
  <2>1. stage'[r] = "failed"
    BY <1>3, <1>14 DEF DigestDiffers, Fail, To
  <2>. QED BY <1>8, <2>1 DEF Inside
<1>15. CASE Applies(r)
  <2>1. step \in Earlier(r) => Effect(r, step)'
    BY <1>7, <1>15 DEF Applies
  <2>2. Current(r).id \notin {"kind-create", "cni-cilium-install"} /\ Current(r).do = "apply"
    BY <1>15, StepStands DEF Applies
  <2>3. \E m \in applied' : m.path = Current(r).path /\ m.content \in {"pinned", r}
    <3>. DEFINE m == [path |-> Current(r).path, content |-> file[Current(r).path]]
    <3>1. m \in applied' /\ m.path = Current(r).path /\ m.content = file[Current(r).path]
      BY <1>15 DEF Applies
    <3>2. file[Current(r).path] \in {"pinned", r}
      BY <2>2, StepStands
    <3>. HIDE DEF m
    <3>. QED BY <3>1, <3>2
  <2>4. Current(r).path = "gateway" => "gateway" \in crds'
    BY <1>15 DEF Applies
  <2>5. Own
    BY <2>2, <2>3, <2>4 DEF Effect
  <2>. QED BY <2>1, <2>5
<1>16. CASE KindCreates(r)
  <2>1. step \in Earlier(r) => Effect(r, step)'
    BY <1>7, <1>16 DEF KindCreates
  <2>2. Current(r).do = "command" /\ Current(r).id = "kind-create" /\ cluster' = r
    BY <1>16, StepStands DEF KindCreates
  <2>3. Own
    BY <2>2 DEF Effect
  <2>. QED BY <2>1, <2>3
<1>17. CASE CommandWorks(r)
  <2>1. step \in Earlier(r) => Effect(r, step)'
    BY <1>7, <1>17 DEF CommandWorks
  <2>2. Current(r).do = "command" /\ Current(r).id # "kind-create"
    BY <1>17 DEF CommandWorks
  <2>3. Current(r).id = "cni-cilium-install" => \E m \in applied' : m.path = "cilium"
    <3>. DEFINE m == [path |-> "cilium", content |-> "pinned"]
    <3>1. m.path = "cilium" /\ (Current(r).id = "cni-cilium-install" => m \in applied')
      BY <1>17 DEF CommandWorks
    <3>. HIDE DEF m
    <3>. QED BY <3>1
  <2>4. Own
    BY <2>2, <2>3 DEF Effect
  <2>. QED BY <2>1, <2>4
<1>18. CASE CrdIsThere(r)
  <2>1. step \in Earlier(r) => Effect(r, step)'
    BY <1>7, <1>18 DEF CrdIsThere
  <2>2. /\ Current(r).do = "wait" /\ "calico" \in crds'
        /\ Current(r).id \notin {"kind-create", "cni-cilium-install"}
    BY <1>18, StepStands DEF CrdIsThere
  <2>3. Own
    BY <2>2 DEF Effect
  <2>. QED BY <2>1, <2>3
<1>19. CASE Polls(r)
  <2>1. stage'[r] \in {"act", "failed"} /\ UNCHANGED world
    BY <1>3, <1>19 DEF Polls, Fail, To
  <2>2. step \in Earlier(r) => Effect(r, step)'
    BY <1>7, <2>1 DEF world
  <2>. QED BY <2>1, <2>2
<1>20. CASE Verifies(r)
  <2>1. UNCHANGED <<file, cluster, applied, crds>> /\ stage[r] = "verify"
    BY <1>20 DEF Verifies
  <2>2. step \in Earlier(r) => Effect(r, step)'
    BY <1>7, <2>1
  <2>3. Own
    BY <1>5, <2>1 DEF Effect
  <2>. QED BY <2>2, <2>3
<1>21. CASE StepFails(r)
  <2>1. stage'[r] = "failed"
    BY <1>3, <1>21 DEF StepFails, Fail, To
  <2>. QED BY <1>8, <2>1 DEF Inside
<1>. QED BY <1>9, <1>10, <1>11, <1>12, <1>13, <1>14, <1>15, <1>16, <1>17, <1>18, <1>19,
            <1>20, <1>21 DEF ExecuteStep

\* A run that is alone stays alone, unless it is disturbed.
LEMMA UndisturbedStep ==
    ASSUME IInv, Next, \A r \in Runs : Placed(r)', NEW q \in Runs
    PROVE  Undisturbed(q)'
<1>. SUFFICES ASSUME Active(q)', q \notin disturbed'
              PROVE  /\ \A x \in Runs : Active(x)' => x = q
                     /\ \A k \in 1..Len(PlanOf(q)') : Past(q, k)' => Effect(q, PlanOf(q)[k])'
  BY DEF Undisturbed
<1>1. /\ stage \in [Runs -> {"waiting", "check", "start", "act", "busy", "digest", "verify",
                             "finish", "ok", "failed"}]
      /\ at \in [Runs -> Nat] /\ disturbed \subseteq Runs /\ at[q] \in Nat
  BY DEF IInv, TypeOK
<1>. DEFINE Kept == \A k \in 1..Len(PlanOf(q)') : Past(q, k)' => Effect(q, PlanOf(q)[k])'
            Alone == \A x \in Runs : Active(x)' => x = q
\* Nobody moves but q, which was under way and alone.
<1>2. ASSUME Active(q), q \notin disturbed, \A x \in Runs \ {q} : stage'[x] = stage[x]
      PROVE  Alone
  BY <1>2 DEF IInv, Undisturbed, Active
<1>3. ASSUME Active(q), q \notin disturbed, UNCHANGED <<spec, file, cluster, applied>>,
             crds \subseteq crds', \A k \in Nat : Past(q, k)' => Past(q, k)
      PROVE  Kept
  <2>1. PlanOf(q)' = PlanOf(q)
    BY <1>3 DEF PlanOf
  <2>2. ASSUME NEW k \in 1..Len(PlanOf(q)), Past(q, k)', NEW step, step = PlanOf(q)[k]
        PROVE  Effect(q, step)'
    <3>1. Effect(q, step)
      BY <1>3, <2>2 DEF IInv, Undisturbed
    <3>. QED BY <3>1, <1>3, EffectKept
  <2>. QED BY <2>1, <2>2
<1>4. ASSUME NEW r \in Runs, NEW s \in Specs, Begin(r, s) PROVE Alone /\ Kept
  <2>1. r = q /\ \A x \in Runs : ~Active(x)
    <3>1. CASE r = q
      BY <1>4, <3>1 DEF Begin
    <3>2. CASE r # q
      <4>1. Active(q)
        BY <1>1, <1>4, <3>2 DEF Begin, Active, To
      <4>. QED BY <1>4, <4>1 DEF Begin
    <3>. QED BY <3>1, <3>2
  <2>2. Alone
    BY <1>1, <1>4, <2>1 DEF Begin, Active, To
  <2>3. stage'[q] = "check" /\ at'[q] = 1
    BY <1>1, <1>4, <2>1 DEF Begin, To
  <2>4. Kept
    BY <2>3 DEF Past
  <2>. QED BY <2>2, <2>4
<1>5. ASSUME NEW r \in Runs, RunPlan(r) \/ ProbeFails(r) \/ Cancel(r) PROVE Alone /\ Kept
  <2>1. \/ CheckToken(r) \/ Start(r) \/ Finish(r) \/ Cancel(r) \/ Fails(r)
        \/ Works(r) /\ ExecuteStep(r)
    <3>1. ExecuteStep(r) \/ ProbeFails(r) => Works(r) \/ Fails(r)
      BY Shapes
    <3>2. ProbeFails(r) => Fails(r)
      BY DEF ProbeFails, Fails, Inside, Doing
    <3>. QED BY <1>5, <3>1, <3>2 DEF RunPlan
  <2>2. Active(r) /\ disturbed' = disturbed /\ Apart(r)
    <3>1. Active(r)
      BY <2>1 DEF Active, CheckToken, Start, Finish, Cancel, Fails, Works, Inside
    <3>2. disturbed' = disturbed
      BY <2>1 DEF CheckToken, Start, Finish, Cancel, Fails, Works, history
    <3>. QED BY <2>1, <3>1, <3>2, StepsApart
  <2>3. r = q
    <3>1. CASE r # q
      <4>1. Active(q) /\ q \notin disturbed
        BY <2>2, <3>1 DEF Apart, Active
      <4>. QED BY <2>2, <4>1 DEF IInv, Undisturbed
    <3>. QED BY <3>1
  <2>4. Alone
    BY <1>2, <2>2, <2>3 DEF Apart
  <2>5. CASE CheckToken(r) \/ Start(r)
    <3>1. /\ at' = at /\ stage'[q] \in {"start", "act", "failed"} /\ UNCHANGED <<spec, world>>
      BY <1>1, <2>3, <2>5 DEF CheckToken, Start, To
    <3>2. \A k \in Nat : Past(q, k)' => Past(q, k)
      BY <3>1 DEF Past
    <3>. QED BY <1>3, <2>2, <2>3, <2>4, <3>1, <3>2 DEF world
  <2>6. CASE Finish(r)
    <3>1. /\ stage[q] = "finish" /\ UNCHANGED <<spec, world>>
      BY <2>3, <2>6 DEF Finish
    <3>2. stage'[q] \in {"check", "ok"}
      BY <1>1, <2>3, <2>6 DEF Finish, To
    <3>3. at'[q] \in {at[q], at[q] + 1}
      BY <1>1, <2>3, <2>6 DEF Finish
    <3>4. \A k \in Nat : Past(q, k)' => Past(q, k)
      <4>1. \A k \in Nat : k < at'[q] => k < at[q] \/ k = at[q]
        BY <1>1, <3>3
      <4>. QED BY <3>1, <3>2, <4>1 DEF Past
    <3>. QED BY <1>3, <2>2, <2>3, <2>4, <3>1, <3>4 DEF world
  <2>7. CASE Cancel(r)
    <3>1. UNCHANGED <<stage, at, spec, world>>
      BY <2>7 DEF Cancel
    <3>2. \A k \in Nat : Past(q, k)' => Past(q, k)
      BY <3>1 DEF Past
    <3>. QED BY <1>3, <2>2, <2>3, <2>4, <3>1, <3>2 DEF world
  <2>8. CASE Fails(r)
    <3>1. stage'[q] = "failed"
      BY <1>1, <2>3, <2>8 DEF Fails, Fail, To
    <3>. QED BY <3>1 DEF Active
  <2>9. CASE Works(r) /\ ExecuteStep(r)
    <3>1. at' = at /\ spec' = spec /\ PlanOf(q)' = PlanOf(q)
      BY <2>9 DEF Works, PlanOf
    <3>2. at[q] \in 1..Len(PlanOf(q)) /\ Current(q) = PlanOf(q)[at[q]]
      BY <2>2, <2>3, OfItsPlan DEF Active
    <3>3. ASSUME NEW k \in 1..Len(PlanOf(q)), Past(q, k)', NEW step, step = PlanOf(q)[k]
          PROVE  Effect(q, step)'
      <4>1. CASE k < at[q]
        <5>1. step \in Earlier(q)
          BY <3>3, <4>1 DEF Earlier
        <5>. QED BY <2>2, <2>3, <2>9, <5>1, WorkKeeps
      <4>2. CASE k = at[q] /\ stage'[q] \in {"verify", "finish"}
        BY <2>2, <2>3, <2>9, <3>2, <3>3, <4>2, WorkKeeps
      <4>. QED BY <3>1, <3>3, <4>1, <4>2 DEF Past
    <3>4. Kept
      BY <3>1, <3>3
    <3>. QED BY <2>4, <3>4
  <2>. QED BY <2>1, <2>5, <2>6, <2>7, <2>8, <2>9
<1>6. CASE Deleted
  BY <1>6 DEF Deleted, Active, run
<1>7. CASE CrdRegisters
  <2>1. UNCHANGED <<stage, at, spec, disturbed, file, cluster, applied>> /\ crds \subseteq crds'
    BY <1>7 DEF CrdRegisters, run, history
  <2>2. Active(q) /\ q \notin disturbed
    BY <2>1 DEF Active
  <2>3. \A k \in Nat : Past(q, k)' => Past(q, k)
    BY <2>1 DEF Past
  <2>. QED BY <1>2, <1>3, <2>1, <2>2, <2>3
<1>. QED BY <1>4, <1>5, <1>6, <1>7 DEF Next

-----------------------------------------------------------------------------
(* The invariant, and what it gives.                                       *)

LEMMA InitInv == Init => IInv
<1>. SUFFICES ASSUME Init PROVE IInv
  OBVIOUS
<1>1. TypeOK
  <2>1. MaxPolls \in Nat /\ MaxDeletes \in Nat /\ <<>> \in Seq(Events)
    BY ProvisionAssumption
  <2>2. stage = [r \in Runs |-> "waiting"]
    BY DEF Init
  <2>3. \A r \in Runs : ~Active(r)
    BY <2>2 DEF Active
  <2>. QED BY <2>1, <2>3 DEF Init, TypeOK, Contents
<1>2. ASSUME NEW r \in Runs PROVE Placed(r) /\ Logged(r) /\ StopsSoon(r) /\ Undisturbed(r)
  <2>1. stage[r] = "waiting" /\ log[r] = <<>> /\ r \notin cancelled
    BY DEF Init
  <2>2. WellTold(<<>>)
    BY DEF WellTold
  <2>. QED BY <2>1, <2>2 DEF Placed, Logged, StopsSoon, Undisturbed, Active, Over
<1>. QED BY <1>1, <1>2 DEF IInv

LEMMA NextInv == IInv /\ [Next]_vars => IInv'
<1>. SUFFICES ASSUME IInv, [Next]_vars PROVE IInv'
  OBVIOUS
<1>1. CASE UNCHANGED vars
  <2>1. UNCHANGED <<stage, spec, at, polls, cancelled, log, file, cluster, applied, crds, deletes,
                    cancelAt, disturbed>>
    BY <1>1 DEF vars
  <2>2. TypeOK'
    BY <2>1 DEF IInv, TypeOK, Active
  <2>3. ASSUME NEW r \in Runs PROVE (Placed(r) /\ Logged(r) /\ StopsSoon(r) /\ Undisturbed(r))'
    <3>1. Placed(r) /\ Logged(r) /\ StopsSoon(r) /\ Undisturbed(r)
      BY DEF IInv
    <3>2. Placed(r)' /\ Logged(r)' /\ StopsSoon(r)'
      BY <2>1, <3>1 DEF Placed, Current, PlanOf, Logged, Over, Sent, StopsSoon, Active
    <3>3. Undisturbed(r)'
      BY <2>1, <3>1 DEF Undisturbed, Active, Past, PlanOf, Effect
    <3>. QED BY <3>2, <3>3
  <2>. QED BY <2>2, <2>3 DEF IInv
<1>2. CASE Next
  <2>1. ASSUME NEW q \in Runs PROVE Placed(q)' /\ Logged(q)' /\ StopsSoon(q)'
    <3>1. ASSUME NEW r \in Runs,
                 \/ \E s \in Specs : Begin(r, s)
                 \/ CheckToken(r) \/ Start(r) \/ Works(r) \/ Fails(r) \/ Finish(r) \/ Cancel(r)
          PROVE  Placed(q)' /\ Logged(q)' /\ StopsSoon(q)'
      <4>1. CASE q = r
        BY <3>1, <4>1, PlacedStep, LoggedStep, StopsStep
      <4>2. CASE q # r
        BY <3>1, <4>2, StepsApart, OthersPlaced
      <4>. QED BY <4>1, <4>2
    <3>2. ASSUME UNCHANGED <<stage, spec, at, log, cancelled, cancelAt>>
          PROVE  Placed(q)' /\ Logged(q)' /\ StopsSoon(q)'
      <4>1. Placed(q) /\ Logged(q) /\ StopsSoon(q)
        BY DEF IInv
      <4>. QED BY <3>2, <4>1 DEF Placed, Current, PlanOf, Logged, Over, Sent, StopsSoon, Active
    <3>3. CASE Deleted \/ CrdRegisters
      BY <3>2, <3>3 DEF Deleted, CrdRegisters, run, history
    <3>4. ASSUME NEW r \in Runs,
                 (\E s \in Specs : Begin(r, s)) \/ RunPlan(r) \/ ProbeFails(r) \/ Cancel(r)
          PROVE  Placed(q)' /\ Logged(q)' /\ StopsSoon(q)'
      BY <3>1, <3>4, Shapes DEF RunPlan
    <3>. QED BY <1>2, <3>3, <3>4 DEF Next
  <2>2. TypeOK'
    BY <2>1, TypeStep
  <2>3. ASSUME NEW q \in Runs PROVE Undisturbed(q)'
    BY <1>2, <2>1, UndisturbedStep
  <2>. QED BY <2>1, <2>2, <2>3 DEF IInv
<1>. QED BY <1>1, <1>2

LEMMA Invariant == Spec => []IInv
BY InitInv, NextInv, PTL DEF Spec

\* The state of any number of runs is well-typed; a run under way is at a step
\* of its plan (run_plan).
THEOREM TypeCorrect == Spec => []TypeOK
<1>1. IInv => TypeOK
  BY DEF IInv
<1>. QED BY <1>1, Invariant, PTL

\* Whatever plans are run, fail and are cancelled: each step that started is
\* finished or failed before the next, the end of the plan is told once and
\* last, a success has told every step, and at most one step begins after the
\* token (run_plan's events).
THEOREM EventsAreTrue == Spec => []EventsTellTheRun
<1>1. ASSUME IInv PROVE EventsTellTheRun
  <2>. SUFFICES ASSUME NEW r \in Runs
                PROVE  LET events == log[r] IN
                  /\ \A k \in DOMAIN events :
                       /\ events[k].is = "started" /\ k < Len(events) =>
                            /\ events[k + 1].is \in {"finished", "failed"}
                            /\ events[k + 1].step = events[k].step
                       /\ events[k].is \in {"success", "failure"} => k = Len(events)
                  /\ Over(r) <=> events # <<>> /\ events[Len(events)].is \in {"success", "failure"}
                  /\ stage[r] = "ok" =>
                       {e.step : e \in {events[k] : k \in DOMAIN events}} = DOMAIN Plans[spec[r]]
                  /\ r \in cancelled => at[r] <= cancelAt[r] + 1
    BY DEF EventsTellTheRun
  <2>1. /\ log[r] \in Seq(Events)
        /\ stage[r] \in {"waiting", "check", "start", "act", "busy", "digest", "verify",
                         "finish", "ok", "failed"}
    BY <1>1 DEF IInv, TypeOK
  <2>2. Logged(r) /\ StopsSoon(r)
    BY <1>1 DEF IInv
  <2>3. DOMAIN log[r] = 1..Len(log[r])
    BY <2>1
  <2>4. Over(r) <=> log[r] # <<>> /\ log[r][Len(log[r])].is \in {"success", "failure"}
    <3>1. stage[r] \in {"check", "start"} => (log[r] # <<>> => log[r][Len(log[r])].is = "finished")
      BY <2>2 DEF Logged, Last
    <3>2. stage[r] \in {"act", "busy", "digest", "verify", "finish"} =>
            log[r][Len(log[r])].is = "started"
      BY <2>2 DEF Logged, Last, Sent
    <3>3. stage[r] = "waiting" => log[r] = <<>>
      BY <2>2 DEF Logged
    <3>4. Over(r) => log[r] # <<>> /\ log[r][Len(log[r])].is \in {"success", "failure"}
      BY <2>2 DEF Logged, Last
    <3>. QED BY <2>1, <3>1, <3>2, <3>3, <3>4 DEF Over
  <2>5. ASSUME stage[r] = "ok"
        PROVE  {e.step : e \in {log[r][k] : k \in DOMAIN log[r]}} = DOMAIN Plans[spec[r]]
    <3>1. {e.step : e \in {log[r][k] : k \in DOMAIN log[r]}} = StepsOf(log[r])
      BY <2>3 DEF StepsOf
    <3>2. PlanOf(r) \in Seq(StepSet)
      BY <1>1, <2>5, OfItsPlan DEF Ordered
    <3>3. DOMAIN Plans[spec[r]] = 1..Len(PlanOf(r))
      BY <3>2 DEF PlanOf
    <3>. QED BY <2>2, <2>5, <3>1, <3>3 DEF Logged
  <2>. QED BY <2>2, <2>3, <2>4, <2>5 DEF Logged, WellTold, StopsSoon
<1>. QED BY <1>1, Invariant, PTL

\* In a run that nobody disturbs the Installation is applied when its CRD is
\* there, and cilium is installed after the gateway CRDs it asks for.
THEOREM CrdsAreFirst == Spec => []CrdsComeFirst
<1>1. ASSUME IInv PROVE CrdsComeFirst
  <2>. SUFFICES ASSUME NEW r \in Runs \ disturbed, stage[r] = "act"
                PROVE  /\ Current(r).do = "apply" /\ Current(r).path = "cr" => "calico" \in crds
                       /\ Current(r).id = "cni-cilium-install" /\ spec[r].gateway
                            => "gateway" \in crds
    BY DEF CrdsComeFirst, Doing
  <2>1. Active(r)
    BY DEF Active
  <2>. QED BY <1>1, <2>1, StepStands
<1>. QED BY <1>1, Invariant, PTL

\* In a run that nobody disturbs what is applied is the file that the digest
\* was compared with, or one that the run wrote (execute_step).
THEOREM OnlyCheckedFilesAreApplied == Spec => AppliedWasChecked
<1>1. ASSUME IInv, NEW r \in Runs \ disturbed, Applies(r), NEW m \in applied' \ applied
      PROVE  m.content \in {"pinned", r}
  <2>1. Active(r) /\ Current(r).do = "apply"
    BY <1>1 DEF Applies, Doing, Active
  <2>2. file[Current(r).path] \in {"pinned", r}
    BY <1>1, <2>1, StepStands
  <2>3. m = [path |-> Current(r).path, content |-> file[Current(r).path]]
    BY <1>1 DEF Applies
  <2>. QED BY <2>2, <2>3
<1>2. IInv => [\A r \in Runs \ disturbed :
                 Applies(r) => \A m \in applied' \ applied : m.content \in {"pinned", r}]_vars
  BY <1>1
<1>. QED BY <1>2, Invariant, PTL DEF AppliedWasChecked

\* A run that nobody disturbs and that reports success has created the cluster
\* from its own config, with its network and everything its plan applies.
THEOREM SuccessMeansAll == Spec => SuccessIsComplete
<1>1. ASSUME IInv, NEW r \in Runs \ disturbed, Finish(r), stage'[r] = "ok"
      PROVE  /\ cluster = r /\ HasCni(spec[r])
             /\ \A k \in DOMAIN Plans[spec[r]] :
                  Plans[spec[r]][k].do = "apply" =>
                    \E m \in applied : m.path = Plans[spec[r]][k].path /\ m.content \in {"pinned", r}
  <2>1. stage[r] = "finish" /\ Active(r) /\ ~(at[r] < Len(PlanOf(r)))
    <3>1. stage \in [Runs -> {"waiting", "check", "start", "act", "busy", "digest", "verify",
                              "finish", "ok", "failed"}]
      BY <1>1 DEF IInv, TypeOK
    <3>2. stage[r] = "finish"
      BY <1>1 DEF Finish
    <3>3. at[r] < Len(PlanOf(r)) => stage'[r] = "check"
      BY <1>1, <3>1 DEF Finish, To, PlanOf
    <3>. QED BY <1>1, <3>2, <3>3 DEF Active
  <2>2. /\ spec[r] \in SpecSet /\ PlanOf(r) = Plan(spec[r]) /\ PlanOf(r) \in Seq(StepSet)
        /\ Len(PlanOf(r)) \in Nat /\ at[r] \in 1..Len(PlanOf(r))
    BY <1>1, <2>1, OfItsPlan DEF Ordered
  <2>3. \A k \in 1..Len(PlanOf(r)) : Effect(r, PlanOf(r)[k])
    <3>1. \A k \in 1..Len(PlanOf(r)) : Past(r, k)
      BY <2>1, <2>2 DEF Past
    <3>. QED BY <1>1, <2>1, <3>1 DEF IInv, Undisturbed
  <2>4. cluster = r
    BY <2>2, <2>3, PlanInOrder DEF Effect
  <2>5. HasCni(spec[r])
    <3>1. PICK k \in 1..Len(PlanOf(r)) : BringsCni(spec[r], PlanOf(r)[k])
      BY <2>2, PlanInOrder
    <3>2. Effect(r, PlanOf(r)[k])
      BY <2>3
    <3>. QED BY <2>2, <3>1, <3>2 DEF HasCni, BringsCni, Effect, SpecSet
  <2>6. DOMAIN Plans[spec[r]] = 1..Len(PlanOf(r))
    BY <2>2 DEF PlanOf
  <2>. QED BY <2>3, <2>4, <2>5, <2>6 DEF Effect, PlanOf
<1>2. IInv => [\A r \in Runs \ disturbed : Finish(r) /\ stage'[r] = "ok" =>
                 /\ cluster = r /\ HasCni(spec[r])
                 /\ \A k \in DOMAIN Plans[spec[r]] :
                      Plans[spec[r]][k].do = "apply" =>
                        \E m \in applied :
                          m.path = Plans[spec[r]][k].path /\ m.content \in {"pinned", r}]_vars
  BY <1>1
<1>. QED BY <1>2, Invariant, PTL DEF SuccessIsComplete
=============================================================================
