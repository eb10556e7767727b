------------------------------ MODULE Overview ------------------------------
(***************************************************************************)
(* The overview and the cluster tabs against the clusters and the stored   *)
(* records: do_reconcile of worker.rs with DataDir::reconcile of           *)
(* state/mod.rs, the handling of its report and of the outcomes of         *)
(* operations in app.rs, and what views/overview.rs and views/cluster.rs   *)
(* make the user's clicks into.                                            *)
(*                                                                         *)
(* A spec is its number of workers, and so are a live cluster and its      *)
(* record.  An operation is the steps of ClusterOps that change these two, *)
(* alone on its name (ClusterOps has the overlaps).  An event is handled   *)
(* in the step that sends it: what delays it comes before.                 *)
(***************************************************************************)
EXTENDS Naturals, Sequences, FiniteSets

CONSTANTS
    Names, None,
    Absent,         \* the status of a cluster whose probe failed
    MaxWorkers, MaxOps, MaxReconciles, MaxTroubles   \* bounds

ASSUME OverviewAssumption ==
    /\ MaxWorkers \in Nat /\ MaxOps \in Nat /\ MaxReconciles \in Nat \ {0} /\ MaxTroubles \in Nat
    /\ None \notin Nat \cup [is : {"managed", "missing"}, workers : Nat] \cup {[is |-> "adopted"]}
    /\ Absent \notin Nat \cup {None}

Workers == 0..MaxWorkers
Tasks == 1..MaxReconciles

VARIABLES
    live, record,   \* what kind lists; the records of DataDir
    op,             \* the operation of each name
    task,           \* the do_reconcile tasks
    report,         \* OverviewState.report: the entry of each name
    status,         \* OverviewState.statuses
    error, loading,
    tab,            \* the tab of each name: [record, workers]
    ops, issued, troubles,   \* counters for the bounds
    \* Histories: the names that have changed since the listing behind the
    \* report shown; those of them that no reconcile will bring in; those
    \* with a status that was lost or that is no status.
    unseen, excused, blurred

world == <<live, record>>
ui == <<report, status, error, loading, tab>>
overview == <<world, op, task, ui, ops, issued, troubles, unseen, excused, blurred>>

Steps == [create |-> <<"up", "store">>, destroy |-> <<"down", "drop">>,
          recreate |-> <<"down", "up", "store">>]

NoOp == [kind |-> "none", workers |-> 0, at |-> 0]
NoTask == [at |-> "none", live |-> {}, stored |-> {}, left |-> {}, found |-> None, changed |-> {}]

Managed(w) == [is |-> "managed", workers |-> w]
Missing(w) == [is |-> "missing", workers |-> w]
Adopted == [is |-> "adopted"]
Entries ==
    [Names -> {Managed(w) : w \in Workers} \cup {Missing(w) : w \in Workers} \cup {Adopted, None}]
OrNone(S) == S \cup {None}

OverviewTypeOK ==
    /\ live \in [Names -> OrNone(Workers)] /\ record \in [Names -> OrNone(Workers)]
    /\ op \in [Names -> [kind : {"none", "create", "destroy", "recreate"}, workers : Workers,
                         at : 0..3]]
    /\ task \in [Tasks -> [at : {"none", "list", "probe", "names", "records", "report", "done"},
                           live : SUBSET Names, stored : SUBSET Names, left : SUBSET Names,
                           found : OrNone(Entries), changed : SUBSET Names]]
    /\ report \in OrNone(Entries)
    /\ status \in [Names -> 0..(MaxWorkers + 1) \cup {None, Absent}]
    /\ error \in BOOLEAN /\ loading \in BOOLEAN
    /\ tab \in [Names -> OrNone([record : OrNone(Workers), workers : Workers])]
    /\ ops \in 0..MaxOps /\ issued \in 0..MaxReconciles /\ troubles \in 0..MaxTroubles
    /\ unseen \subseteq Names /\ excused \subseteq Names /\ blurred \subseteq Names

Trouble == troubles < MaxTroubles /\ troubles' = troubles + 1

Busy == {n \in Names : op[n] # NoOp}
CanIssue == issued + Cardinality(Busy) < MaxReconciles

-----------------------------------------------------------------------------
(* do_reconcile: a task of its own for every Reconcile command.            *)

Issued == [NoTask EXCEPT !.at = "list"]
Spawned(tasks) == [tasks EXCEPT ![issued + 1] = Issued]

With(t, changed) == task' = [task EXCEPT ![t] = changed]

\* kind get clusters.
List(t) ==
    /\ task[t].at = "list"
    /\ LET listed == {n \in Names : live[n] # None} IN
       With(t, [task[t] EXCEPT !.at = "probe", !.live = listed, !.left = listed, !.changed = {}])
    /\ UNCHANGED <<world, op, ui, ops, issued, troubles, unseen, excused, blurred>>

ListFails(t) ==
    /\ task[t].at = "list" /\ Trouble
    /\ With(t, [task[t] EXCEPT !.at = "report", !.found = None])
    /\ UNCHANGED <<world, op, ui, ops, issued, unseen, excused, blurred>>

\* kind get nodes: it lists none of a cluster that is gone by now, and of
\* that the card says that it is being created.
Probe(t) ==
    /\ task[t].at = "probe"
    /\ \E n \in task[t].left :
         /\ With(t, [task[t] EXCEPT !.left = @ \ {n}])
         /\ \/ /\ status' = [status EXCEPT ![n] = IF live[n] = None THEN 0 ELSE live[n] + 1]
               /\ blurred' = blurred \ {n} /\ UNCHANGED troubles
            \/ Trouble /\ status' = [status EXCEPT ![n] = Absent] /\ blurred' = blurred \cup {n}
            \/ Trouble /\ status' = status /\ blurred' = blurred \cup {n}   \* lost on a full bus
    /\ UNCHANGED <<world, op, report, error, loading, tab, ops, issued, unseen, excused>>

\* DataDir::reconcile: the names of all records first, then each record.
StoredClusterNames(t) ==
    /\ task[t].at = "probe" /\ task[t].left = {}
    /\ With(t, [task[t] EXCEPT !.at = "records", !.stored = {n \in Names : record[n] # None}])
    /\ UNCHANGED <<world, op, ui, ops, issued, troubles, unseen, excused, blurred>>

Classified(t) ==
    [n \in Names |->
        IF n \in task[t].live THEN IF record[n] = None THEN Adopted ELSE Managed(record[n])
        ELSE IF n \in task[t].stored THEN Missing(record[n]) ELSE None]

Reconcile(t) ==
    /\ task[t].at = "records"
    /\ With(t, [task[t] EXCEPT !.at = "report",
                  !.found = IF \E n \in task[t].stored \ task[t].live : record[n] = None
                              THEN None ELSE Classified(t)])
    /\ UNCHANGED <<world, op, ui, ops, issued, troubles, unseen, excused, blurred>>

\* handle_event on ReconcileDone; None stands for an error.
Done(t) == With(t, [NoTask EXCEPT !.at = "done"])

\* Slip: an open tab keeps the record it was opened with.
ReportDoneForCards(t) ==
    /\ task[t].at = "report" /\ task[t].found # None
    /\ report' = task[t].found /\ error' = FALSE /\ loading' = FALSE
    /\ unseen' = task[t].changed
    /\ excused' = (excused \cap unseen') \cup (unseen' \ unseen)
    /\ Done(t)
    /\ UNCHANGED <<world, op, status, tab, ops, issued, troubles, blurred>>

ReportDone(t) ==
    /\ task[t].at = "report" /\ task[t].found # None
    /\ LET found == task[t].found IN
       /\ report' = found /\ error' = FALSE /\ loading' = FALSE
       /\ tab' = [n \in Names |->
                    IF tab[n] # None /\ found[n] \in {Managed(w) : w \in Workers}
                      THEN [tab[n] EXCEPT !.record = found[n].workers] ELSE tab[n]]
    /\ unseen' = task[t].changed
    /\ excused' = (excused \cap unseen') \cup (unseen' \ unseen)   \* an older listing comes later
    /\ Done(t)
    /\ UNCHANGED <<world, op, status, ops, issued, troubles, blurred>>

ReportError(t) ==
    /\ task[t].at = "report" /\ task[t].found = None
    /\ error' = TRUE /\ loading' = FALSE
    /\ excused' = excused \cup unseen
    /\ Done(t)
    /\ UNCHANGED <<world, op, report, status, tab, ops, issued, troubles, unseen, blurred>>

\* emit_important gives up after a second.
ReportLost(t) ==
    /\ task[t].at = "report" /\ Trouble
    /\ excused' = excused \cup unseen
    /\ Done(t)
    /\ UNCHANGED <<world, op, ui, ops, issued, unseen, blurred>>

DoReconcile(t) ==
    \/ List(t) \/ ListFails(t) \/ Probe(t) \/ StoredClusterNames(t) \/ Reconcile(t)
    \/ ReportDone(t) \/ ReportError(t) \/ ReportLost(t)

-----------------------------------------------------------------------------
(* Operations, and who uses kind beside the program.                       *)

Changes(n) ==
    /\ unseen' = unseen \cup {n}
    /\ task' = [t \in Tasks |-> IF task[t].at \in {"none", "done"} THEN task[t]
                                ELSE [task[t] EXCEPT !.changed = @ \cup {n}]]

NextStep(n) == Steps[op[n].kind][op[n].at + 1]
MoreSteps(n) == op[n] # NoOp /\ op[n].at < Len(Steps[op[n].kind])

Effect(n) ==
    /\ NextStep(n) = "up" => live[n] = None
    /\ live' = CASE NextStep(n) = "up" -> [live EXCEPT ![n] = op[n].workers]
                 [] NextStep(n) = "down" -> [live EXCEPT ![n] = None]
                 [] OTHER -> live
    /\ record' = CASE NextStep(n) = "store" -> [record EXCEPT ![n] = op[n].workers]
                   [] NextStep(n) = "drop" -> [record EXCEPT ![n] = None]
                   [] OTHER -> record

OpStep(n) ==
    /\ MoreSteps(n) /\ Effect(n)
    /\ op' = [op EXCEPT ![n].at = @ + 1]
    /\ Changes(n)
    /\ UNCHANGED <<ui, ops, issued, troubles, excused, blurred>>

\* A step fails or is cancelled, before it took effect or after.
OpFails(n) ==
    /\ MoreSteps(n) /\ Trouble
    /\ \/ UNCHANGED <<world, unseen, task>>
       \/ Effect(n) /\ Changes(n)
    /\ op' = [op EXCEPT ![n] = NoOp]
    /\ excused' = excused \cup {n}
    /\ UNCHANGED <<ui, ops, issued, blurred>>

Outside(n) ==
    /\ Trouble /\ n \notin Busy
    /\ \E w \in OrNone(Workers) : w # live[n] /\ live' = [live EXCEPT ![n] = w]
    /\ Changes(n) /\ excused' = excused \cup {n}
    /\ UNCHANGED <<record, op, ui, ops, issued, blurred>>

\* open_tab: the record is that of the report on the screen.
RecordShown(n) ==
    IF report = None \/ report[n] \in {Adopted, None} THEN None ELSE report[n].workers
Opened(n) ==
    IF tab[n] # None THEN tab
    ELSE [tab EXCEPT ![n] = [record |-> RecordShown(n),
                             workers |-> IF RecordShown(n) = None THEN 0 ELSE RecordShown(n)]]

\* A Reconcile command for what has changed of n, or a full bus.
Follow(n) ==
    \/ /\ task' = Spawned(task) /\ issued' = issued + 1 /\ excused' = excused \ {n}
       /\ UNCHANGED troubles
    \/ Trouble /\ excused' = excused \cup {n} /\ UNCHANGED <<task, issued>>

\* handle_event on ProvisionDone; only what succeeds has a follow-up.
\* Slip: the overview of a destroyed cluster is left to the next refresh.
OpDoneKeepingDestroyed(n) ==
    /\ op[n] # NoOp /\ ~MoreSteps(n)
    /\ tab' = IF op[n].kind = "destroy" THEN [tab EXCEPT ![n] = None] ELSE Opened(n)
    /\ IF op[n].kind = "destroy" THEN UNCHANGED <<task, issued, excused, troubles>> ELSE Follow(n)
    /\ op' = [op EXCEPT ![n] = NoOp]
    /\ UNCHANGED <<world, report, status, error, loading, ops, unseen, blurred>>

OpDone(n) ==
    /\ op[n] # NoOp /\ ~MoreSteps(n)
    /\ tab' = IF op[n].kind = "destroy" THEN [tab EXCEPT ![n] = None] ELSE Opened(n)
    /\ Follow(n)
    /\ op' = [op EXCEPT ![n] = NoOp]
    /\ UNCHANGED <<world, report, status, error, loading, ops, unseen, blurred>>

-----------------------------------------------------------------------------
(* The user.                                                               *)

Start(n, kind, workers) ==
    /\ ops < MaxOps /\ ops' = ops + 1 /\ CanIssue
    /\ n \notin Busy
    /\ op' = [op EXCEPT ![n] = [kind |-> kind, workers |-> workers, at |-> 0]]
    /\ UNCHANGED <<world, task, report, status, error, loading, issued, troubles,
                   unseen, excused, blurred>>

CreateCluster(n, w) == Start(n, "create", w) /\ UNCHANGED tab

Card(n) == report # None /\ report[n] # None
IsMissing(n) == report[n] \in {Missing(w) : w \in Workers}

\* from_entry: a missing cluster has no status, whatever was probed before.
StatusShown(n) == IF IsMissing(n) THEN None ELSE status[n]

\* Slip: the status goes before the report.
StatusPillOfProbe(n) ==
    CASE status[n] = None -> [says |-> report[n].is, nodes |-> 0]
      [] status[n] = Absent -> [says |-> "absent", nodes |-> 0]
      [] status[n] = 0 -> [says |-> "creating", nodes |-> 0]
      [] OTHER -> [says |-> "running", nodes |-> status[n]]

StatusPill(n) ==
    CASE StatusShown(n) = None -> [says |-> report[n].is, nodes |-> 0]
      [] StatusShown(n) = Absent -> [says |-> "absent", nodes |-> 0]
      [] StatusShown(n) = 0 -> [says |-> "creating", nodes |-> 0]
      [] OTHER -> [says |-> "running", nodes |-> StatusShown(n)]

\* The buttons of a card that change a cluster or a tab.  The stepper is set
\* to the record's workers again in every frame, so that its "Scale" is
\* enabled in the frame of the change only, and is left out.
Buttons(n) ==
    {"Destroy"} \cup
    IF IsMissing(n) THEN {"Recreate"}
    ELSE IF report[n] # Adopted \/ StatusShown(n) # None THEN {"Open"} ELSE {}

\* "Destroy", or "Discard record" of a missing cluster: the same command.
DestroyCard(n) ==
    /\ Card(n) /\ "Destroy" \in Buttons(n)
    /\ Start(n, "destroy", 0) /\ UNCHANGED tab

RecreateCard(n) ==
    /\ Card(n) /\ "Recreate" \in Buttons(n)
    /\ Start(n, "recreate", report[n].workers) /\ UNCHANGED tab

OnlyTab == UNCHANGED <<world, op, task, report, status, error, loading, ops, issued, troubles,
                       unseen, excused, blurred>>

OpenCluster(n) ==
    /\ Card(n) /\ "Open" \in Buttons(n)
    /\ tab[n] = None /\ tab' = Opened(n)
    /\ OnlyTab

HasRecord(n) == tab[n] # None /\ tab[n].record # None

Stage(n, w) ==
    /\ HasRecord(n) /\ w # tab[n].workers
    /\ tab' = [tab EXCEPT ![n].workers = w]
    /\ OnlyTab

ApplyScale(n) ==
    /\ HasRecord(n) /\ tab[n].record # tab[n].workers
    /\ Start(n, "recreate", tab[n].workers) /\ UNCHANGED tab

\* saturating_sub of what the stepper stages, which need not be the record's.
DeleteNode(n) ==
    /\ HasRecord(n)
    /\ LET fewer == IF tab[n].workers = 0 THEN 0 ELSE tab[n].workers - 1 IN
       /\ tab' = [tab EXCEPT ![n].workers = fewer]
       /\ Start(n, "recreate", fewer)

DestroyFromTab(n) == tab[n] # None /\ Start(n, "destroy", 0) /\ UNCHANGED tab

CloseTab(n) == tab[n] # None /\ tab' = [tab EXCEPT ![n] = None] /\ OnlyTab

\* "Refresh" is disabled while the first reconcile is under way, and only then.
Refresh ==
    /\ ~loading \/ error
    /\ CanIssue /\ task' = Spawned(task) /\ issued' = issued + 1
    /\ UNCHANGED <<world, op, ui, ops, troubles, unseen, excused, blurred>>

Click(n) ==
    \/ \E w \in Workers : CreateCluster(n, w) \/ Stage(n, w)
    \/ DestroyCard(n) \/ RecreateCard(n) \/ OpenCluster(n)
    \/ ApplyScale(n) \/ DeleteNode(n) \/ DestroyFromTab(n) \/ CloseTab(n)

-----------------------------------------------------------------------------
FreshUI ==
    /\ report' = None /\ error' = FALSE /\ loading' = TRUE
    /\ status' = [n \in Names |-> None] /\ tab' = [n \in Names |-> None]

OverviewInit ==
    /\ live \in [Names -> OrNone({MaxWorkers})] /\ record \in [Names -> OrNone({MaxWorkers})]
    /\ op = [n \in Names |-> NoOp]
    /\ task = [t \in Tasks |-> IF t = 1 THEN Issued ELSE NoTask] /\ issued = 1
    /\ report = None /\ error = FALSE /\ loading = TRUE
    /\ status = [n \in Names |-> None] /\ tab = [n \in Names |-> None]
    /\ ops = 0 /\ troubles = 0
    /\ unseen = Names /\ excused = {} /\ blurred = {}

OverviewNext ==
    \/ \E t \in Tasks : DoReconcile(t)
    \/ \E n \in Names : OpStep(n) \/ OpFails(n) \/ OpDone(n) \/ Outside(n) \/ Click(n)
    \/ Refresh

\* The tasks are scheduled, and their subprocesses have deadlines (Exec).
OverviewFairness ==
    /\ \A t \in Tasks : WF_overview(DoReconcile(t))
    /\ \A n \in Names : WF_overview(OpStep(n) \/ OpFails(n) \/ OpDone(n))

OverviewSpec == OverviewInit /\ [][OverviewNext]_overview /\ OverviewFairness

-----------------------------------------------------------------------------
(* Properties.                                                             *)

Truth(n) ==
    CASE live[n] # None /\ record[n] # None -> Managed(record[n])
      [] live[n] # None /\ record[n] = None -> Adopted
      [] live[n] = None /\ record[n] # None -> Missing(record[n])
      [] OTHER -> None

\* ADR-0011, "the app must show a truthful cluster list": whatever has not
\* changed since the names were listed is classified as it is, its card says
\* so, with its number of nodes unless a probe failed, and its tab has the
\* stored spec - however listing, probes and records were read between the
\* steps of operations on other clusters, and whatever reports came before.
OverviewIsTruthful ==
    report # None =>
        \A n \in Names \ unseen :
            /\ report[n] = Truth(n)
            /\ report[n] # None /\ n \notin blurred =>
                 StatusPill(n) = IF live[n] # None THEN [says |-> "running", nodes |-> live[n] + 1]
                                 ELSE [says |-> "missing", nodes |-> 0]
            /\ tab[n] # None /\ live[n] # None /\ record[n] # None => tab[n].record = record[n]

\* "runs on app startup, after each lifecycle event (create/recreate/destroy),
\* and on manual refresh" (ADR-0011): what has changed comes onto the screen,
\* unless the operation failed (it has no follow-up), the change was made
\* outside the program, the answer was lost or an error, or one with an
\* earlier listing came after it.
ChangesComeToLight ==
    \A n \in Names :
        n \in unseen /\ n \notin Busy ~> n \notin unseen \/ n \in excused \/ n \in Busy
=============================================================================
