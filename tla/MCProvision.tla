------------------------------ MODULE MCProvision ------------------------------
(* A create and a recreate of one cluster name, and a spec for each CNI and    *)
(* each ingress controller.                                                   *)
EXTENDS Provision

Chosen(cni, options, ingress) ==
    [cni |-> cni, ownCidr |-> "ownCidr" \in options, gateway |-> "gateway" \in options,
     hubble |-> "hubble" \in options, mesh |-> "mesh" \in options, ingress |-> ingress]

SomeSpecs ==
    {Chosen("kindnet", {}, "nginx"), Chosen("flannel", {"ownCidr"}, "traefik"),
     Chosen("calico", {}, "none"),
     Chosen("cilium", {"gateway", "mesh"}, "cilium")}
=============================================================================
