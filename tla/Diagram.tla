------------------------------ MODULE Diagram ------------------------------
(***************************************************************************)
(* The picture of a cluster: what poll_topology of k8s/client.rs makes of  *)
(* the API's objects, the nodes of the layout in k8s/model.rs, and the     *)
(* nodes and lines that views/diagram.rs draws of them.                    *)
(*                                                                         *)
(* A name is the sequence of its words, so that "web-" starts the name     *)
(* <<"web", "api">>; labels are a set of pairs.  Where nodes stand, and    *)
(* the events and nodes beside the picture, are left out.                  *)
(***************************************************************************)
EXTENDS Naturals, Sequences, FiniteSets, SequencesExt

CONSTANTS
    NoOwner,
    Histories    \* what may happen to a cluster during a poll: sequences of clusters

WorkloadKinds == <<"Deployment", "StatefulSet", "DaemonSet", "Job", "CronJob">>

\* poll_topology lists one kind after the other; no list waits for a version.
Lists == <<"Namespace", "Deployment", "StatefulSet", "DaemonSet", "Job", "CronJob", "Pod",
           "Service", "Ingress", "Node", "Event">>

IsWorkload(o) == \E k \in DOMAIN WorkloadKinds : WorkloadKinds[k] = o.kind
Of(graph, kind) == {o \in graph : o.kind = kind}
Workloads(graph) == {o \in graph : IsWorkload(o)}

-----------------------------------------------------------------------------
(* A poll.                                                                 *)

\* The first owner reference, and the containers that are ready.
PodView(o) ==
    [kind |-> "Pod", ns |-> o.ns, name |-> o.name,
     owner |-> IF o.owners = <<>> THEN NoOwner ELSE Head(o.owners),
     phase |-> IF o.phase \in {"Running", "Pending", "Succeeded", "Failed"} THEN o.phase
               ELSE "Unknown",
     ready |-> Cardinality({c \in DOMAIN o.containers : o.containers[c]}),
     total |-> Len(o.containers)]

\* The labels are those of the pod template.
WorkloadView(o) == [kind |-> o.kind, ns |-> o.ns, name |-> o.name, labels |-> o.template]

IngressView(o) ==
    [kind |-> "Ingress", ns |-> o.ns, name |-> o.name, backends |-> o.paths \cup o.default]

View(o) ==
    CASE o.kind = "Pod" -> PodView(o)
      [] o.kind = "Ingress" -> IngressView(o)
      [] IsWorkload(o) -> WorkloadView(o)
      [] OTHER -> o

\* The changes of a history come before some of the lists, each in its turn:
\* number k before the list befores[k], or after the last one.
Moments(n) ==
    {befores \in [1..n -> 1..(Len(Lists) + 1)] :
        \A j, k \in 1..n : j < k => befores[j] <= befores[k]}

PollTopology(history, befores) ==
    UNION {LET changes == {k \in DOMAIN befores : befores[k] <= i}
               now == history[1 + Cardinality(changes)]
           IN  {View(o) : o \in Of(now, Lists[i])} : i \in DOMAIN Lists}

-----------------------------------------------------------------------------
(* The picture.                                                            *)

LayoutKind(o) == IF IsWorkload(o) THEN "Workload" ELSE o.kind

\* kind/ns/name: a Deployment and a StatefulSet of one name have one id.
LayoutId(o) == <<LayoutKind(o), o.ns, o.name>>

\* Slip: a service without a selector selects everything.
SelectorMatchesAll(selector, labels) == selector \subseteq labels

SelectorMatches(selector, labels) == selector # {} /\ selector \subseteq labels

\* Slip: the owner's name alone.
PodOwnedByName(pod, workload) ==
    /\ pod.owner # NoOwner
    /\ pod.owner = workload.name \/ IsStrictPrefix(workload.name, pod.owner)

PodOwnedBy(pod, workload) ==
    /\ pod.ns = workload.ns /\ pod.owner # NoOwner
    /\ pod.owner = workload.name \/ IsStrictPrefix(workload.name, pod.owner)

StatusOf(pods) ==
    CASE pods = {} -> "Neutral"
      [] \E p \in pods : p.phase = "Failed" -> "Failed"
      [] \A p \in pods : p.phase = "Running" /\ p.total > 0 /\ p.ready = p.total -> "Ready"
      [] OTHER -> "Pending"

WorkloadStatus(graph, workload) == StatusOf({p \in Of(graph, "Pod") : PodOwnedBy(p, workload)})

PodStatus(pod) ==
    CASE pod.phase = "Running" -> "Ready" [] pod.phase = "Unknown" -> "Neutral"
      [] OTHER -> pod.phase

\* A workload is looked up by its namespace and name: the first list wins.
Found(graph, o) ==
    LET same == {w \in Workloads(graph) : LayoutId(w) = LayoutId(o)}
        first == CHOOSE k \in DOMAIN WorkloadKinds :
                   /\ \E w \in same : w.kind = WorkloadKinds[k]
                   /\ \A w \in same : \E j \in DOMAIN WorkloadKinds : w.kind = WorkloadKinds[j] /\ k <= j
    IN  CHOOSE w \in same : w.kind = WorkloadKinds[first]

Status(graph, o) ==
    CASE IsWorkload(o) -> WorkloadStatus(graph, Found(graph, o))
      [] o.kind = "Pod" -> PodStatus(o)
      [] OTHER -> "Neutral"

\* The glyph of a workload is its kind.
Glyph(graph, o) == IF IsWorkload(o) THEN Found(graph, o).kind ELSE o.kind

Drawable == {"Namespace", "Workload", "Pod", "Service", "Ingress"}

\* apply_topology: the collapsed namespaces that are still there.
Retained(collapsed, graph) == collapsed \cap {o.name : o \in Of(graph, "Namespace")}

Visible(graph, collapsed) ==
    {o \in graph : /\ LayoutKind(o) \in Drawable
                   /\ o.kind = "Namespace" \/ o.ns \notin collapsed}

ResolveNodes(graph, collapsed) ==
    {[id |-> LayoutId(o), status |-> Status(graph, o), glyph |-> Glyph(graph, o)] :
        o \in Visible(graph, collapsed)}

Joined(from, to) ==
    \/ from.kind = "Service" /\ IsWorkload(to) /\ from.ns = to.ns
       /\ SelectorMatches(from.selector, to.labels)
    \/ IsWorkload(from) /\ to.kind = "Pod" /\ PodOwnedBy(to, from)
    \/ from.kind = "Ingress" /\ to.kind = "Service" /\ from.ns = to.ns
       /\ to.name \in from.backends

\* paint_edges: both ends are looked up by their ids among the nodes drawn.
PaintEdges(graph, collapsed) ==
    {<<LayoutId(pair[1]), LayoutId(pair[2])>> :
        pair \in {pair \in Visible(graph, collapsed) \X Visible(graph, collapsed) :
                     Joined(pair[1], pair[2])}}

-----------------------------------------------------------------------------
(* The truth.                                                              *)

\* The controllers of a pod are its owner, the owner's owner and so on, but for
\* the ReplicaSet that a Deployment makes.
Controls(workload, pod) == workload.ns = pod.ns /\ <<workload.kind, workload.name>> \in pod.controllers

Related(from, to) ==
    \/ from.kind = "Service" /\ IsWorkload(to) /\ from.ns = to.ns
       /\ from.selector # {} /\ \A l \in from.selector : l \in to.template
    \/ IsWorkload(from) /\ to.kind = "Pod" /\ Controls(from, to)
    \/ from.kind = "Ingress" /\ to.kind = "Service" /\ from.ns = to.ns
       /\ (to.name \in from.paths \/ to.name \in from.default)

\* A pod's first owner has the name of one of its controllers, or of one and a
\* word more; and it begins with the names of those that are workloads.
OwnerFits(pod) ==
    IF pod.owners = <<>> THEN pod.controllers = {}
    ELSE LET owner == Head(pod.owners) IN
         /\ owner # NoOwner /\ owner \in Seq(STRING)
         /\ \A k \in DOMAIN WorkloadKinds : \A c \in pod.controllers :
              c[1] = WorkloadKinds[k] => c[2] = owner \/ IsStrictPrefix(c[2], owner)
         /\ \E c \in pod.controllers : c[2] = owner \/ c[2] = Front(owner)

ClusterFits(cluster) ==
    /\ \A o \in cluster :
         /\ \E i \in DOMAIN Lists : Lists[i] = o.kind
         /\ IsWorkload(o) => o.name \in Seq(STRING)
         /\ o.kind = "Pod" => OwnerFits(o)
    /\ \A o, p \in cluster : o.kind = p.kind /\ o.ns = p.ns /\ o.name = p.name => o = p

ASSUME HistoriesAssumption ==
    \A history \in Histories :
        /\ Len(history) \in Nat \ {0} /\ DOMAIN history = 1..Len(history)
        /\ \A k \in DOMAIN history : ClusterFits(history[k])

\* The workloads of a namespace: those that are there, and those that have
\* left pods behind.
WorkloadsOf(ns, objects) ==
    {<<w.kind, w.name>> : w \in {w \in Workloads(objects) : w.ns = ns}}
    \cup UNION {p.controllers : p \in {p \in Of(objects, "Pod") : p.ns = ns}}

\* Another's pods would be taken for this one's, or its node: the other's name
\* is this one's or begins with it, or its ReplicaSet has this one's name.
Mistakable(workload, objects) ==
    \/ \E w \in WorkloadsOf(workload.ns, objects) \ {<<workload.kind, workload.name>>} :
         w[2] = workload.name \/ IsStrictPrefix(workload.name, w[2])
    \/ \E p \in Of(objects, "Pod") :
         /\ p.ns = workload.ns /\ ~Controls(workload, p)
         /\ p.owners # <<>> /\ Head(p.owners) = workload.name

\* What was there all the time, what ever was there, and of the former what is
\* to be drawn, and what nothing else is mistaken for.
Stayed(history) == {o \in history[1] : \A k \in DOMAIN history : o \in history[k]}
Ever(history) == UNION {history[k] : k \in DOMAIN history}
Drawn(history, collapsed) ==
    {o \in Stayed(history) : /\ LayoutKind(o) \in Drawable
                             /\ o.kind = "Namespace" \/ o.ns \notin collapsed}
Clear(history, collapsed) ==
    {o \in Drawn(history, collapsed) : ~(IsWorkload(o) /\ Mistakable(o, Ever(history)))}

PictureIsTrue(history, graph, collapsed) ==
    LET clear == Clear(history, collapsed)
        nodes == ResolveNodes(graph, collapsed)
        edges == PaintEdges(graph, collapsed)
    IN  /\ {LayoutId(o) : o \in Drawn(history, collapsed)} \subseteq {n.id : n \in nodes}
        /\ \A n \in nodes : \E o \in Ever(history) :
             LayoutId(o) = n.id /\ (o.kind = "Namespace" \/ o.ns \notin collapsed)
        /\ \A from, to \in clear :
             <<LayoutId(from), LayoutId(to)>> \in edges <=> Related(from, to)
        /\ \A o \in clear, n \in nodes : n.id = LayoutId(o) /\ IsWorkload(o) =>
             LET pods == {p \in Of(Ever(history), "Pod") : Controls(o, p)} IN
             /\ n.glyph = o.kind
             /\ pods \subseteq Stayed(history)
                  => n.status = StatusOf({PodView(p) : p \in pods})
=============================================================================
