------------------------------ MODULE Commands ------------------------------
(***************************************************************************)
(* The command lines of kindctl.rs: for every KindCommand the program, the *)
(* arguments that name a cluster or tell the tool how long to wait, and    *)
(* the deadline after which the runner kills it (Exec).                    *)
(*                                                                         *)
(* A command is about a cluster (`of`, a name: kubectl, helm and cilium    *)
(* are given the context kind-<name>), about none, or about the tool       *)
(* itself.  Its arguments are a set of flags with their values; the flags   *)
(* without one, and the names of releases, pods and files, are left out.   *)
(***************************************************************************)
EXTENDS Naturals

\* Seconds.
ProbeTimeout == 30
InstallTimeout == 600
CreateTimeout == 300
GeneralTimeout == 60
ExportLogsTimeout == 300
WaitTimeout == 180
KindWaitFlag == 300

\* What helm and cilium wait by default once they are told to wait.
DefaultWait == 300

KindCommands == {"KindVersion", "KindGetClusters", "KindGetNodes", "KindCreate", "KindDelete",
                 "KindExportKubeconfig", "KindLoadImage", "KindExportLogs"}
DockerCommands == {"DockerVersion", "DockerKernelVersion", "DockerPs", "DockerLogs",
                   "DockerInspect"}
KubectlCommands == {"KubectlVersion", "KubectlGetNodes", "KubectlApply", "KubectlWait",
                    "KubectlLogs", "KubectlGetEvents", "KubectlGetCrd", "KubectlGetPodsByLabel"}
HelmCommands == {"HelmVersion", "HelmInstall", "HelmUpgrade", "HelmUninstall", "HelmRepoAdd"}
CiliumCommands == {"CiliumVersion", "CiliumInstall", "CiliumStatus", "CiliumHubbleEnable",
                   "CiliumClustermeshEnable", "CiliumClustermeshConnect",
                   "CiliumClustermeshDisconnect"}

\* The variants whose fields name no cluster.
Global == {"KindVersion", "KindGetClusters", "DockerVersion", "DockerKernelVersion",
           "KubectlVersion", "HelmVersion", "HelmRepoAdd", "CiliumVersion"}

-----------------------------------------------------------------------------
(* to_program_args_and_timeout.  A variant has a field `wait` if it may be *)
(* told to wait: TRUE, or the seconds that kubectl is given.               *)

Flag(name, value) == [name |-> name, value |-> value]
If(condition, flags) == IF condition THEN flags ELSE {}

KindFlags(c) ==
    CASE c.is \in Global -> {}
      [] c.is = "KindCreate" ->
           {Flag("--config", c.of)} \cup If(c.wait, {Flag("--wait", KindWaitFlag)})
      [] OTHER -> {Flag("--name", c.of)}

KindDeadline(c) ==
    CASE c.is = "KindVersion" -> ProbeTimeout
      [] c.is \in {"KindCreate", "KindDelete"} -> CreateTimeout
      [] c.is = "KindExportLogs" -> ExportLogsTimeout
      [] OTHER -> GeneralTimeout

\* docker knows containers: a node's name begins with its cluster's.
DockerFlags(c) ==
    CASE c.is \in Global -> {}
      [] c.is = "DockerPs" -> {Flag("--filter", c.of)}
      [] OTHER -> {Flag("container", c.of)}

DockerDeadline(c) == IF c.is \in Global THEN ProbeTimeout ELSE GeneralTimeout

KubectlFlags(c) ==
    IF c.is \in Global THEN {}
    ELSE {Flag("--context", c.of)} \cup If(c.is = "KubectlWait", {Flag("--timeout", c.wait)})

KubectlDeadline(c) ==
    CASE c.is \in Global -> ProbeTimeout
      [] c.is = "KubectlWait" -> WaitTimeout
      [] OTHER -> GeneralTimeout

\* helm_install_args, of install and of upgrade.
HelmInstallFlags(c) ==
    {Flag("--kube-context", c.of)} \cup If(c.wait, {Flag("--wait", DefaultWait)})

HelmFlags(c) ==
    CASE c.is \in Global -> {}
      [] c.is \in {"HelmInstall", "HelmUpgrade"} -> HelmInstallFlags(c)
      [] c.is = "HelmUninstall" -> {Flag("--kube-context", c.of)}

HelmDeadline(c) == IF c.is \in Global THEN ProbeTimeout ELSE InstallTimeout

\* Slip: the status of whatever cluster is the current one.
FlagsWithoutContext(c) ==
    IF c.is = "CiliumStatus" THEN {Flag("--wait", DefaultWait)}
    ELSE {Flag("--context", c.of)}
         \cup If("wait" \in DOMAIN c /\ c.wait, {Flag("--wait", DefaultWait)})

CiliumFlags(c) ==
    CASE c.is \in Global -> {}
      [] c.is \in {"CiliumInstall", "CiliumStatus"} ->
           {Flag("--context", c.of)} \cup If(c.wait, {Flag("--wait", DefaultWait)})
      [] c.is \in {"CiliumHubbleEnable", "CiliumClustermeshEnable"} -> {Flag("--context", c.of)}
      [] OTHER -> {Flag("--context", c.of), Flag("--destination-context", c.to)}

CiliumDeadline(c) == IF c.is \in Global THEN ProbeTimeout ELSE InstallTimeout

Flags(c) ==
    CASE c.is \in KindCommands -> KindFlags(c)
      [] c.is \in DockerCommands -> DockerFlags(c)
      [] c.is \in KubectlCommands -> KubectlFlags(c)
      [] c.is \in HelmCommands -> HelmFlags(c)
      [] c.is \in CiliumCommands -> CiliumFlags(c)

Deadline(c) ==
    CASE c.is \in KindCommands -> KindDeadline(c)
      [] c.is \in DockerCommands -> DockerDeadline(c)
      [] c.is \in KubectlCommands -> KubectlDeadline(c)
      [] c.is \in HelmCommands -> HelmDeadline(c)
      [] c.is \in CiliumCommands -> CiliumDeadline(c)

\* The clusters that the arguments name, and the seconds that the tool waits
\* before it gives up by itself.
Waits == {"--wait", "--timeout"}
Named(c) == {f.value : f \in {g \in Flags(c) : g.name \notin Waits}}
OwnWaits(c) == {f.value : f \in {g \in Flags(c) : g.name \in Waits}}

-----------------------------------------------------------------------------
(* The commands of create plans, by the id of the step (build_plan).       *)

NodeReadyTimeout == 120

NodesReady(name) == [is |-> "KubectlWait", of |-> name, wait |-> NodeReadyTimeout]
CiliumReady(name) == [is |-> "CiliumStatus", of |-> name, wait |-> TRUE]

\* On kernels from 7.2 on the agent of the default release does not start.
DefaultRelease == "default"
PinnedRelease == "v1.21.0-pre.2"

\* Slip: the numbers are compared one by one.
VersionOfOldKernels(kernel) ==
    IF kernel.major >= 7 /\ kernel.minor >= 2 THEN PinnedRelease ELSE DefaultRelease

CiliumVersionForKernel(kernel) ==
    IF kernel.major > 7 \/ (kernel.major = 7 /\ kernel.minor >= 2)
      THEN PinnedRelease ELSE DefaultRelease

\* What a step runs for cluster `name`, its verification included.
StepCommands(name, cni, kernel, step) ==
    CASE step.id = "kind-create" -> {[is |-> "KindCreate", of |-> name, wait |-> TRUE]}
      [] step.id = "merge-kubeconfig" -> {[is |-> "KindExportKubeconfig", of |-> name]}
      [] step.id = "cni-cilium-install" ->
           {[is |-> "CiliumInstall", of |-> name, wait |-> TRUE,
             version |-> CiliumVersionForKernel(kernel)], CiliumReady(name)}
      [] step.id = "cilium-hubble-enable" -> {[is |-> "CiliumHubbleEnable", of |-> name]}
      [] step.id = "cilium-clustermesh-enable" ->
           {[is |-> "CiliumClustermeshEnable", of |-> name]}
      [] step.id = "traefik-repo-add" -> {[is |-> "HelmRepoAdd"]}
      [] step.id = "traefik-install" -> {[is |-> "HelmInstall", of |-> name, wait |-> TRUE]}
      [] step.id = "final-verify" -> {IF cni = "cilium" THEN CiliumReady(name) ELSE NodesReady(name)}
      [] step.do = "apply" -> {[is |-> "KubectlApply", of |-> name]}
                              \cup (IF step.verify THEN {NodesReady(name)} ELSE {})
      [] step.do = "wait" -> {[is |-> "KubectlGetCrd", of |-> name]}
      [] OTHER -> {}

\* What a failed cilium install is diagnosed with.
DiagnosisCommands(name) ==
    {[is |-> "KubectlGetPodsByLabel", of |-> name], [is |-> "KubectlLogs", of |-> name]}

\* The worker's commands about a cluster, and the two sources of its logs.
WorkerCommands(name) ==
    {[is |-> i, of |-> name] :
        i \in {"KindGetNodes", "KindDelete", "KindExportKubeconfig", "KindExportLogs"}}
LogCommands(name) == {[is |-> "DockerLogs", of |-> name], [is |-> "KubectlLogs", of |-> name]}
=============================================================================
