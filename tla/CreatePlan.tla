----------------------------- MODULE CreatePlan -----------------------------
(***************************************************************************)
(* The create plan of a spec: build_plan_with_cilium_version of            *)
(* kindboard-core/src/provision/mod.rs, which step follows which and on    *)
(* which file below tmp/ it works.  Of the spec it reads the CNI, whether  *)
(* the pod network is not flannel's, the cilium extras (resolved to their  *)
(* defaults when there are none) and the ingress controller.               *)
(***************************************************************************)
EXTENDS Sequences

Step(id, do, path, verify) == [id |-> id, do |-> do, path |-> path, verify |-> verify]
Optional(condition, steps) == IF condition THEN steps ELSE <<>>

CreateSteps ==
    <<Step("write-kind-config", "write", "config", FALSE),
      Step("kind-create", "command", "config", FALSE),
      Step("merge-kubeconfig", "command", "none", FALSE)>>

FlannelSteps(s) ==
    <<Step("cni-flannel-download", "download", "flannel", FALSE)>>
    \o Optional(s.ownCidr, <<Step("cni-flannel-patch", "patch", "patched", FALSE)>>)
    \o <<Step("cni-flannel-apply", "apply", IF s.ownCidr THEN "patched" ELSE "flannel", TRUE)>>

CalicoSteps ==
    <<Step("cni-calico-operator-download", "download", "operator", FALSE),
      Step("cni-calico-operator-apply", "apply", "operator", FALSE),
      Step("cni-calico-operator-wait-crds", "wait", "none", FALSE),
      Step("cni-calico-cr-write", "write", "cr", FALSE),
      Step("cni-calico-cr-apply", "apply", "cr", TRUE)>>

CiliumSteps(s) ==
    Optional(s.gateway,
             <<Step("cilium-gateway-crds-download", "download", "gateway", FALSE),
               Step("cilium-gateway-crds-apply", "apply", "gateway", FALSE)>>)
    \o <<Step("cni-cilium-install", "command", "none", TRUE)>>
    \o Optional(s.hubble, <<Step("cilium-hubble-enable", "command", "none", FALSE)>>)
    \o Optional(s.mesh, <<Step("cilium-clustermesh-enable", "command", "none", FALSE)>>)

CniSteps(s) ==
    CASE s.cni = "kindnet" -> <<>>
      [] s.cni = "flannel" -> FlannelSteps(s)
      [] s.cni = "calico" -> CalicoSteps
      [] s.cni = "cilium" -> CiliumSteps(s)

IngressSteps(s) ==
    CASE s.ingress \in {"none", "cilium"} -> <<>>
      [] s.ingress = "nginx" ->
           <<Step("ingress-nginx-download", "download", "nginx", FALSE),
             Step("ingress-nginx-apply", "apply", "nginx", TRUE)>>
      [] s.ingress = "traefik" ->
           <<Step("traefik-repo-add", "command", "none", FALSE),
             Step("traefik-install", "command", "none", FALSE)>>

FinalStep == <<Step("final-verify", "command", "none", FALSE)>>

\* Slip: the Installation is applied before the operator has registered its CRD.
PlanWithoutWait(s) ==
    CreateSteps
    \o SelectSeq(CniSteps(s), LAMBDA step : step.do # "wait") \o IngressSteps(s) \o FinalStep

Plan(s) == CreateSteps \o CniSteps(s) \o IngressSteps(s) \o FinalStep
=============================================================================
