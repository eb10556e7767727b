----------------------------- MODULE MCSession ------------------------------
(* Two clusters, two themes: an instance of Session for TLC.               *)
EXTENDS Session

MCTypeOK == OverviewTypeOK /\ SettingsTypeOK /\ up \in BOOLEAN /\ restarts \in 0..MaxRestarts
=============================================================================
