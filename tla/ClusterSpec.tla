----------------------------- MODULE ClusterSpec -----------------------------
(***************************************************************************)
(* Cluster specs: validate and to_kind_yaml of kindboard-core/src/spec,    *)
(* and its IPv4 blocks (spec/cidr.rs).                                     *)
(*                                                                         *)
(* A name stands for what validate_name makes of it, a block is an address *)
(* of Bits bits with the length of its prefix: host bits may be set, as in *)
(* 10.244.1.5/16, and a prefix that is too long stands for every text that *)
(* does not parse.  An option (`cilium`) is a set of at most one.          *)
(***************************************************************************)
EXTENDS Integers, Sequences

CONSTANTS
    Bits,         \* 32 in the code
    DefaultPod,   \* DEFAULT_POD_CIDR, which is also FLANNEL_DEFAULT_NETWORK
    MaxWorkers,
    MaxClusterId

Names == {"empty", "good", "bad"}
Cnis == {"kindnet", "flannel", "calico", "cilium"}
Ingresses == {"none", "nginx", "traefik", "cilium"}

-----------------------------------------------------------------------------
(* Blocks.                                                                 *)

Parses(block) == block.prefix <= Bits
Size(block) == 2 ^ (Bits - block.prefix)

\* The host bits are masked off.
First(block) == block.address - (block.address % Size(block))
Last(block) == First(block) + Size(block) - 1

\* Slip: one block's start in the other, and not the other way round.
StartsIn(a, b) == First(a) <= First(b) /\ First(b) <= Last(a)

Overlaps(a, b) == First(a) <= Last(b) /\ First(b) <= Last(a)

-----------------------------------------------------------------------------
(* validate.                                                               *)

ValidName(name) == name = "good"

ValidExtras(c) ==
    /\ c.mesh => c.id \in 1..MaxClusterId /\ c.name # "empty"
    /\ c.name # "empty" => ValidName(c.name)

Hosts(s) == {s.ports[k].host : k \in DOMAIN s.ports}

ValidPorts(s) ==
    /\ \A k \in DOMAIN s.ports : s.ports[k].host # 0 /\ s.ports[k].container # 0
    /\ \A j, k \in DOMAIN s.ports : j # k => s.ports[j].host # s.ports[k].host
    /\ s.ingress \in {"nginx", "traefik"} <=> {80, 443} \subseteq Hosts(s)

\* An absent option of a cilium spec is resolved to the default, which has
\* the ingress controller.
ValidIngress(s) ==
    s.ingress = "cilium" => s.cni = "cilium" /\ \A c \in s.cilium : c.ingress

ValidNetworks(s) == Parses(s.pod) /\ Parses(s.service) /\ ~Overlaps(s.pod, s.service)

Valid(s) ==
    /\ ValidName(s.name) /\ s.version # "bad"
    /\ s.cilium # {} => s.cni = "cilium"
    /\ \A c \in s.cilium : ValidExtras(c)
    /\ ValidIngress(s)
    /\ s.workers <= MaxWorkers
    /\ ValidPorts(s)
    /\ ValidNetworks(s)

-----------------------------------------------------------------------------
(* to_kind_yaml: a pod network that is not in the config is kind's own.    *)

\* Slip: the pod network is written for the CNIs that are not kind's own.
ConfigOfOtherCnis(s) ==
    [podSubnet |-> IF s.cni # "kindnet" THEN {s.pod} ELSE {},
     serviceSubnet |-> s.service,
     disableDefaultCni |-> s.cni # "kindnet",
     kubeProxy |-> IF s.cni = "cilium" THEN "none" ELSE "default",
     hostPorts |-> Hosts(s), nodes |-> 1 + s.workers]

KindConfig(s) ==
    [podSubnet |-> IF s.pod # DefaultPod \/ s.cni # "kindnet" THEN {s.pod} ELSE {},
     serviceSubnet |-> s.service,
     disableDefaultCni |-> s.cni # "kindnet",
     kubeProxy |-> IF s.cni = "cilium" THEN "none" ELSE "default",
     hostPorts |-> Hosts(s), nodes |-> 1 + s.workers]
=============================================================================
