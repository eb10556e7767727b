------------------------------- MODULE OpPanels -------------------------------
(***************************************************************************)
(* The operation panels of one cluster (kindboard-app/src/app.rs,          *)
(* views/ops.rs) and what reaches them from the worker over the two        *)
(* bounded buses (bus.rs, worker.rs).                                      *)
(*                                                                         *)
(* The UI stamps every operation with a generation and replaces the panel  *)
(* of the cluster.  The worker runs the operation as a task that streams   *)
(* progress through a forwarder and then reports its outcome; replaced     *)
(* operations go on until their cancellation takes effect, so events of    *)
(* several generations are in flight together.  Neither side ever blocks:  *)
(* a full bus loses commands, progress and, after a grace, outcomes.       *)
(***************************************************************************)
EXTENDS Naturals, Sequences

CONSTANTS
    CmdCap, EventCap,  \* the capacities of the two buses
    MaxOps,            \* bound: operations the user starts
    MaxProgress        \* bound: progress events of one operation

ASSUME PanelsAssumption ==
    CmdCap \in Nat \ {0} /\ EventCap \in Nat \ {0} /\ MaxOps \in Nat /\ MaxProgress \in Nat

VARIABLES
    op_gen,     \* the generation counter of the cluster
    panel,      \* the panel shown; generation 0: none
    tab,        \* the tab of the cluster is open
    cmds,       \* UI -> worker
    events,     \* worker -> UI
    task,       \* the operation of each generation, as the worker sees it
    slots,      \* the tokens the worker holds, by operation kind
    cancelled,  \* generations whose token has fired
    asked       \* history: the generation shown when Cancel was last clicked

ui == <<op_gen, panel, tab, asked>>
worker == <<task, slots, cancelled>>
vars == <<op_gen, panel, tab, cmds, events, task, slots, cancelled, asked>>

Kinds == {"create", "destroy", "recreate"}
Outcomes == {"ok", "err"}
Gens == 1..op_gen
NoPanel == [gen |-> 0, kind |-> "create", finished |-> "running", shown |-> 0]

Panels == [gen : 0..MaxOps, kind : Kinds,
           finished : {"running"} \cup Outcomes,
           shown : 0..MaxProgress]                  \* progress applied so far
Commands == [type : Kinds, gen : 1..MaxOps] \cup
            [type : {"cancel", "other"}, gen : {0}]
Events == [type : {"progress"} \cup Outcomes, gen : 1..MaxOps]
Tasks == [kind : Kinds,
          stage : {"queued", "dropped", "running", "finishing", "reported", "lost"},
          sent : 0..MaxProgress,                    \* progress events produced
          waiting : 0..MaxProgress,                 \* not yet forwarded to the bus
          result : {"running"} \cup Outcomes]

TypeOK ==
    /\ op_gen \in 0..MaxOps
    /\ panel \in Panels
    /\ tab \in BOOLEAN
    /\ cmds \in Seq(Commands) /\ Len(cmds) <= CmdCap
    /\ events \in Seq(Events) /\ Len(events) <= EventCap
    /\ task \in [Gens -> Tasks]
    /\ slots \in [Kinds -> 0..MaxOps]
    /\ cancelled \subseteq 1..MaxOps
    /\ asked \in 0..MaxOps

-----------------------------------------------------------------------------
(* KindboardApp::issue: a full bus drops the command and raises a warning. *)

Accepted(queue) == Len(queue) < CmdCap
Issue(queue, cmd) == IF Accepted(queue) THEN Append(queue, cmd) ELSE queue
CancelOp == [type |-> "cancel", gen |-> 0]
Other == [type |-> "other", gen |-> 0]     \* Reconcile, and all that concerns tabs

\* What open_tab asks of the worker for a new tab.
WithFirstProbes(queue) == Issue(Issue(queue, Other), Other)

\* render_active, render_wizard: next_op_gen, a new panel, the command.
Start(kind) ==
    /\ op_gen < MaxOps
    /\ op_gen' = op_gen + 1
    /\ panel' = [NoPanel EXCEPT !.gen = op_gen', !.kind = kind]
    /\ cmds' = Issue(cmds, [type |-> kind, gen |-> op_gen'])
    /\ LET new == [kind |-> kind, stage |-> IF Accepted(cmds) THEN "queued" ELSE "dropped",
                   sent |-> 0, waiting |-> 0, result |-> "running"]
       IN  task' = [g \in 1..op_gen' |-> IF g = op_gen' THEN new ELSE task[g]]
    /\ UNCHANGED <<tab, events, slots, cancelled, asked>>

\* ops::show: Cancel, or the X of a running panel.
Cancel ==
    /\ panel.gen # 0 /\ panel.finished = "running"
    /\ cmds' = Issue(cmds, CancelOp)
    /\ asked' = panel.gen
    /\ UNCHANGED <<op_gen, panel, tab, events, worker>>

\* ops::show: Close, or the X of a finished panel.
Close ==
    /\ panel.gen # 0 /\ panel.finished # "running"
    /\ panel' = NoPanel
    /\ UNCHANGED <<op_gen, tab, asked, cmds, events, worker>>

OpenTab ==
    /\ ~tab /\ tab' = TRUE
    /\ cmds' = WithFirstProbes(cmds)
    /\ UNCHANGED <<op_gen, panel, asked, events, worker>>

CloseTab ==
    /\ tab /\ tab' = FALSE
    /\ cmds' = Issue(Issue(cmds, Other), Other)
    /\ UNCHANGED <<op_gen, panel, asked, events, worker>>

-----------------------------------------------------------------------------
(* The worker's dispatch loop.                                             *)

\* Slip: the fresh token is fired instead of the one it replaces.
DispatchFiringNew ==
    /\ cmds # << >> /\ Head(cmds).type \in Kinds
    /\ LET cmd == Head(cmds) IN
       /\ task' = [task EXCEPT ![cmd.gen].stage = "running"]
       /\ slots' = [slots EXCEPT ![cmd.type] = cmd.gen]
       /\ cancelled' = cancelled \cup (IF slots[cmd.type] # 0 THEN {cmd.gen} ELSE {})
    /\ cmds' = Tail(cmds)
    /\ UNCHANGED <<ui, events>>

Dispatch ==
    /\ cmds # << >> /\ Head(cmds).type \in Kinds
    /\ LET cmd == Head(cmds) IN
       /\ task' = [task EXCEPT ![cmd.gen].stage = "running"]
       /\ slots' = [slots EXCEPT ![cmd.type] = cmd.gen]
       /\ cancelled' = cancelled \cup ({slots[cmd.type]} \ {0})
    /\ cmds' = Tail(cmds)
    /\ UNCHANGED <<ui, events>>

\* Slip: only the slot of the latest kind is looked up.
DispatchCancelOne ==
    /\ cmds # << >> /\ Head(cmds).type = "cancel"
    /\ cancelled' = cancelled \cup ({slots["create"]} \ {0})
    /\ slots' = [slots EXCEPT !["create"] = 0]
    /\ cmds' = Tail(cmds)
    /\ UNCHANGED <<ui, events, task>>

DispatchCancel ==
    /\ cmds # << >> /\ Head(cmds).type = "cancel"
    /\ cancelled' = cancelled \cup ({slots[k] : k \in Kinds} \ {0})
    /\ slots' = [k \in Kinds |-> 0]
    /\ cmds' = Tail(cmds)
    /\ UNCHANGED <<ui, events, task>>

\* The other commands concern tasks of their own.
DispatchOther ==
    /\ cmds # << >> /\ Head(cmds).type = "other"
    /\ cmds' = Tail(cmds)
    /\ UNCHANGED <<ui, events, worker>>

-----------------------------------------------------------------------------
(* An operation's task: create_phase with its forwarder, do_create.        *)

Room == Len(events) < EventCap
Event(type, g) == [type |-> type, gen |-> g]

Progress(g) ==
    /\ task[g].stage = "running" /\ task[g].sent < MaxProgress
    /\ task' = [task EXCEPT ![g].sent = @ + 1, ![g].waiting = @ + 1]
    /\ UNCHANGED <<ui, cmds, events, slots, cancelled>>

\* emit: progress is lost when the bus is full.
Forward(g) ==
    /\ task[g].waiting > 0
    /\ task' = [task EXCEPT ![g].waiting = @ - 1]
    /\ events' = IF Room THEN Append(events, Event("progress", g)) ELSE events
    /\ UNCHANGED <<ui, cmds, slots, cancelled>>

\* A fired token makes the next step fail; past the last step it is too late.
Finish(g) ==
    /\ task[g].stage = "running"
    /\ \E result \in Outcomes :
          task' = [task EXCEPT ![g].stage = "finishing", ![g].result = result]
    /\ UNCHANGED <<ui, cmds, events, slots, cancelled>>

\* emit_important, once the forwarder has handed over everything.
\* Slip: the forwarder is not awaited.
ReportBeforeForwarder(g) ==
    /\ task[g].stage = "finishing" /\ Room
    /\ task' = [task EXCEPT ![g].stage = "reported"]
    /\ events' = Append(events, Event(task[g].result, g))
    /\ UNCHANGED <<ui, cmds, slots, cancelled>>

Report(g) ==
    /\ task[g].stage = "finishing" /\ task[g].waiting = 0 /\ Room
    /\ task' = [task EXCEPT ![g].stage = "reported"]
    /\ events' = Append(events, Event(task[g].result, g))
    /\ UNCHANGED <<ui, cmds, slots, cancelled>>

\* The bus stayed full for EVENT_SEND_GRACE.
GiveUp(g) ==
    /\ task[g].stage = "finishing" /\ task[g].waiting = 0 /\ ~Room
    /\ task' = [task EXCEPT ![g].stage = "lost"]
    /\ UNCHANGED <<ui, cmds, events, slots, cancelled>>

-----------------------------------------------------------------------------
(* KindboardApp::handle_event on the next event of the bus.                *)

HandleProgress ==
    /\ events # << >> /\ Head(events).type = "progress"
    /\ events' = Tail(events)
    /\ panel' = IF panel.gen = Head(events).gen THEN [panel EXCEPT !.shown = @ + 1]
                                                ELSE panel
    /\ UNCHANGED <<op_gen, tab, asked, cmds, worker>>

\* What a success makes the UI do next.  It goes by the panel shown.
FollowUp(result) ==
    IF result = "err" \/ panel.gen = 0 THEN UNCHANGED <<tab, cmds>>
    ELSE IF panel.kind = "destroy"
         THEN tab' = FALSE /\ cmds' = Issue(cmds, Other)
         ELSE /\ tab' = TRUE
              /\ LET refreshed == Issue(cmds, Other)
                 IN  cmds' = IF tab THEN refreshed ELSE WithFirstProbes(refreshed)

\* Slip: whatever panel is shown takes the result.
HandleDoneUnchecked ==
    /\ events # << >> /\ Head(events).type \in Outcomes
    /\ LET done == Head(events) IN
       /\ panel' = IF panel.gen # 0 THEN [panel EXCEPT !.finished = done.type] ELSE panel
       /\ FollowUp(done.type)
    /\ events' = Tail(events)
    /\ UNCHANGED <<op_gen, asked, worker>>

HandleDone ==
    /\ events # << >> /\ Head(events).type \in Outcomes
    /\ LET done == Head(events) IN
       /\ panel' = IF panel.gen = done.gen THEN [panel EXCEPT !.finished = done.type]
                                           ELSE panel
       /\ FollowUp(done.type)
    /\ events' = Tail(events)
    /\ UNCHANGED <<op_gen, asked, worker>>

-----------------------------------------------------------------------------
Init ==
    /\ op_gen = 0 /\ panel = NoPanel /\ tab = FALSE /\ asked = 0
    /\ cmds = << >> /\ events = << >>
    /\ task = << >> /\ slots = [k \in Kinds |-> 0] /\ cancelled = {}

Next ==
    \/ \E k \in Kinds : Start(k)
    \/ Cancel \/ Close \/ OpenTab \/ CloseTab
    \/ Dispatch \/ DispatchCancel \/ DispatchOther
    \/ \E g \in Gens : Progress(g) \/ Forward(g) \/ Finish(g) \/ Report(g) \/ GiveUp(g)
    \/ HandleProgress \/ HandleDone

Spec == Init /\ [][Next]_vars

\* The worker dispatches, the UI drains its bus every frame, forwarders and
\* reports are tasks the runtime schedules; an operation is sure to finish
\* only once its token has fired.
Fairness ==
    /\ WF_vars(Dispatch \/ DispatchCancel \/ DispatchOther)
    /\ WF_vars(HandleProgress \/ HandleDone)
    /\ \A g \in 1..MaxOps :
          /\ WF_vars(g \in Gens /\ (Forward(g) \/ Report(g) \/ GiveUp(g)))
          /\ WF_vars(g \in Gens /\ g \in cancelled /\ Finish(g))

FairSpec == Spec /\ Fairness

-----------------------------------------------------------------------------
(* Properties.                                                             *)

ItsOwn ==
    panel.finished # "running" =>
        /\ panel.gen \in Gens
        /\ task[panel.gen].stage = "reported"
        /\ task[panel.gen].result = panel.finished

\* A panel never shows the outcome of another operation: when it is finished,
\* its own generation has reported, and reported that (handle_event,
\* ProvisionDone).  And then it shows all the progress it will ever show:
\* nothing arrives behind the outcome (create_phase awaits the forwarder
\* before do_create reports).
OutcomeIsOwnAndFinal ==
    [][ItsOwn' /\ (panel.finished # "running" /\ panel'.gen = panel.gen => panel' = panel)]_vars

\* No operation is cancelled that the user did not mean: one whose token
\* fired was running when Cancel was clicked, or another of its kind took
\* its slot (op_token; commands stay in order on the bus).
NobodyIsCancelledUnasked ==
    \A g \in cancelled :
        \/ g <= asked
        \/ \E h \in Gens : h > g /\ task[h].kind = task[g].kind
                                 /\ task[h].stage # "dropped"

\* A Cancel the worker gets ends the operation of the panel: the panel shows
\* an outcome, unless it is replaced or the outcome was lost on a full bus.
CancelEndsTheOperation ==
    \A g \in 1..MaxOps :
        (/\ panel.gen = g /\ panel.finished = "running"
         /\ g \in Gens /\ task[g].stage = "running"
         /\ \E i \in DOMAIN cmds : cmds[i].type = "cancel")
        ~> (panel.gen # g \/ panel.finished # "running" \/ task[g].stage = "lost")
=============================================================================
