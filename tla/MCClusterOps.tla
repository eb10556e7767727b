----------------------------- MODULE MCClusterOps -----------------------------
(* Two clusters and a handful of commands.                                 *)
EXTENDS KubeFile

CONSTANTS alpha, beta
=============================================================================
