------------------------------ MODULE Planning ------------------------------
(***************************************************************************)
(* From the wizard to the panel: a spec that the wizard lets through       *)
(* (Wizard), its plan (CreatePlan), the commands that its steps run        *)
(* (Commands), the order that topological_sort gives the steps             *)
(* (TopologicalSort), and what is shown of an operation that runs a plan   *)
(* in its order (OpOutput).  topological_sort takes other plans as well: a *)
(* behaviour may also begin with any of `Plans`.                           *)
(***************************************************************************)
EXTENDS TopologicalSort, CreatePlan, Commands, OpOutput

CONSTANTS
    Bits, DefaultPod, DefaultService, MaxWorkers, MaxClusterId, PodTexts, ServiceTexts,
    Kernels    \* versions of the Docker host's kernel

ASSUME PlanningAssumption ==
    /\ Bits \in Nat /\ MaxWorkers \in Nat /\ MaxClusterId \in Nat \ {0}
    /\ {DefaultPod, DefaultService} \cup PodTexts \cup ServiceTexts
         \subseteq [address : Nat, prefix : Nat]
    /\ Kernels \subseteq [major : Nat, minor : Nat]

\* True of every number of bits, but nothing that a prover knows of powers.
ASSUME PowersAssumption == \A n \in 0..Bits : 2 ^ n \in Nat \ {0}

VARIABLES open, form, created

wizard == <<open, form, created>>

W == INSTANCE Wizard

\* What build_plan reads of a spec.
PlanInput(s) ==
    [cni |-> s.cni, ownCidr |-> s.pod # DefaultPod,
     gateway |-> \E c \in s.cilium : c.gateway, hubble |-> \E c \in s.cilium : c.hubble,
     mesh |-> \E c \in s.cilium : c.mesh, ingress |-> s.ingress]

StepsOf(s) == Plan(PlanInput(s))

\* Slip: a step is given the id of the one before the last.
OnBeforeLast(steps) == [i \in DOMAIN steps |-> IF i <= 2 THEN <<>> ELSE <<i - 2>>]

\* Every step is given the id of the one before it.
DependenciesOf(steps) == [i \in DOMAIN steps |-> IF i = 1 THEN <<>> ELSE <<i - 1>>]

BuildPlan ==
    /\ stage = "form"
    /\ \E s \in created :
         /\ plan' = DependenciesOf(StepsOf(s))
         /\ degree' = [i \in DOMAIN StepsOf(s) |-> 0]
    /\ stage' = "count"
    /\ UNCHANGED <<ready, sorted, wizard, output_vars>>

\* An operation, of the plan that the panel is watched with.
ShowOp ==
    /\ created = {} /\ stage = "ok" /\ plan = DependenciesOf(PlanIds)
    /\ OutputNext
    /\ UNCHANGED <<vars, wizard>>

PlanningInit ==
    /\ W!Init /\ OutputInit
    /\ \/ plan = <<>> /\ degree = <<>> /\ ready = <<>> /\ sorted = <<>> /\ stage = "form"
       \/ Init

PlanningNext ==
    \/ stage = "form" /\ W!Next /\ UNCHANGED <<vars, output_vars>>
    \/ BuildPlan
    \/ Next /\ UNCHANGED <<wizard, output_vars>>
    \/ ShowOp

PlanningSpec == PlanningInit /\ [][PlanningNext]_<<vars, wizard, output_vars>>

PlanningTypeOK == W!TypeOK /\ (stage = "form" \/ TypeOK)

-----------------------------------------------------------------------------
(* Properties.                                                             *)

Ids(steps) == {steps[k].id : k \in DOMAIN steps}

Addresses(block) ==
    {x \in 0..(2 ^ Bits - 1) :
        x \div 2 ^ (Bits - block.prefix) = block.address \div 2 ^ (Bits - block.prefix)}

\* No address belongs to both networks, and a mesh has an id and a name that
\* cilium takes.
NetworksAreApart ==
    \A s \in created :
        /\ Addresses(s.pod) \cap Addresses(s.service) = {}
        /\ \A c \in s.cilium : c.mesh => c.id \in 1..MaxClusterId /\ c.name = "good"

\* kind's default network is the code's default.
ClusterNetwork(config) ==
    IF config.podSubnet = {} THEN DefaultPod ELSE CHOOSE b \in config.podSubnet : TRUE

\* The network a CNI is given: flannel's manifest has the default one unless
\* it is patched, calico's Installation has the spec's, the others take the
\* cluster's.
CniNetwork(s) ==
    CASE s.cni = "flannel" ->
           IF "cni-flannel-patch" \in Ids(StepsOf(s)) THEN s.pod ELSE DefaultPod
      [] s.cni = "calico" -> s.pod
      [] OTHER -> ClusterNetwork(W!KindConfig(s))

\* The config that kind is given and the plan that follows agree: one pod
\* network, kind's CNI and its kube-proxy left out just if the plan installs
\* another one, and host ports mapped just for the controllers it installs.
ConfigAgreesWithPlan ==
    \A s \in created :
        LET config == W!KindConfig(s)
            ids == Ids(StepsOf(s))
        IN  /\ ClusterNetwork(config) = s.pod /\ CniNetwork(s) = s.pod
            /\ config.disableDefaultCni <=>
                 ids \cap {"cni-flannel-apply", "cni-calico-cr-apply", "cni-cilium-install"} # {}
            /\ config.kubeProxy = "none" <=> "cni-cilium-install" \in ids
            /\ config.hostPorts # {} <=> ids \cap {"ingress-nginx-apply", "traefik-install"} # {}
            /\ s.ingress = "cilium" => "cni-cilium-install" \in ids /\ \A c \in s.cilium : c.ingress

\* What the wizard creates can be provisioned as it was asked for, whatever
\* was entered in fields that are hidden now: its networks are apart, and
\* kind's config and the plan that follows agree.
SpecsFitTheirPlan == NetworksAreApart /\ ConfigAgreesWithPlan

\* Whatever is run for a cluster, by its plan, to find out why it failed or by
\* the worker, names this cluster and no other, never the user's current
\* context; a tool that is told to wait gives up by itself before the runner
\* kills it, but for `kind create`, whose wait is as long as its deadline and
\* begins after the nodes have been made; and cilium's agent starts on the
\* kernel of the host, on which the default release does not from 7.2 on.
CommandsOf(s, kernel) ==
    (UNION {StepCommands(s.name, s.cni, kernel, StepsOf(s)[k]) : k \in DOMAIN StepsOf(s)})
    \cup DiagnosisCommands(s.name) \cup WorkerCommands(s.name) \cup LogCommands(s.name)

AgentStarts(version, kernel) ==
    \/ version = PinnedRelease
    \/ kernel.major < 7 \/ (kernel.major = 7 /\ kernel.minor < 2)

CommandsFitTheCluster ==
    \A s \in created, kernel \in Kernels :
        \A c \in CommandsOf(s, kernel) :
            /\ Named(c) = IF c.is \in Global THEN {} ELSE {s.name}
            /\ \A seconds \in OwnWaits(c) : seconds < Deadline(c) \/ c.is = "KindCreate"
            /\ c.is = "CiliumInstall" => AgentStarts(c.version, kernel)

\* The order is complete or the plan is refused; and a plan of the wizard's
\* specs is accepted, and runs as build_plan wrote it.
PlansKeepTheirOrder ==
    /\ SortedOrRefused
    /\ stage \in Outcomes =>
         \A s \in created : stage = "ok" /\ sorted = [i \in DOMAIN StepsOf(s) |-> i]
=============================================================================
