------------------------------ MODULE Session -------------------------------
(***************************************************************************)
(* The program from its start to its end and its next start: main of       *)
(* main.rs, KindboardApp::new of app.rs and the start and the end of       *)
(* run_loop of worker.rs, around the overview (Overview) and the settings  *)
(* (Settings).  The clusters, the records and settings.json outlive it.    *)
(***************************************************************************)
EXTENDS Overview, Settings

CONSTANTS
    MaxRestarts, MaxBeside   \* bounds: starts after the first; operations and
                             \* troubles in a run that also picks themes

ASSUME SessionAssumption == MaxRestarts \in Nat /\ MaxBeside \in Nat

VARIABLES
    up,         \* the window is open and run_loop runs
    restarts

session == <<overview, settings, up, restarts>>

SessionInit == OverviewInit /\ SettingsInit /\ up = TRUE /\ restarts = 0

WithinBounds == picks' > 0 => ops' + troubles' <= MaxBeside

\* main: the theme before the window opens; new sends a Reconcile.
StartProgram ==
    /\ ~up /\ up' = TRUE
    /\ restarts < MaxRestarts /\ restarts' = restarts + 1
    /\ FreshUI /\ LoadTheme
    /\ CanIssue /\ task' = Spawned(task) /\ issued' = issued + 1
    /\ unseen' = Names /\ excused' = {} /\ blurred' = {}
    /\ UNCHANGED <<world, op, ops, troubles>>

\* The window is closed, and Shutdown ends run_loop behind the commands that
\* were sent before it; abort_all drops every task where it awaits, and what
\* an operation had done by then stays done.
Quit ==
    /\ up /\ up' = FALSE
    /\ AbortSaves
    /\ op' = [n \in Names |-> NoOp]
    /\ task' = [t \in Tasks |-> IF task[t].at = "none" THEN NoTask ELSE [NoTask EXCEPT !.at = "done"]]
    /\ excused' = Names
    /\ UNCHANGED <<world, ui, ops, issued, troubles, unseen, blurred, restarts>>

\* The steps of the running program.
Running(A) == up /\ A /\ UNCHANGED <<up, restarts>> /\ WithinBounds

SessionNext ==
    \/ Running(OverviewNext /\ UNCHANGED settings)
    \/ Running(SettingsNext /\ UNCHANGED overview)
    \/ (Quit \/ StartProgram) /\ WithinBounds

SessionFairness ==
    /\ \A t \in Tasks : WF_session(Running(DoReconcile(t) /\ UNCHANGED settings))
    /\ \A n \in Names : WF_session(Running((OpStep(n) \/ OpFails(n) \/ OpDone(n)) /\ UNCHANGED settings))

SessionSpec == SessionInit /\ [][SessionNext]_session /\ SessionFairness
=============================================================================
