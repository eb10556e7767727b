----------------------------- MODULE MCOpPanels -----------------------------
(* Small buses, so that both of them fill up.                              *)
EXTENDS OpPanels
=============================================================================
