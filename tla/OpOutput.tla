------------------------------- MODULE OpOutput -------------------------------
(***************************************************************************)
(* What the panel of an operation makes of the events of its run           *)
(* (OpPanel of kindboard-app, views/ops.rs): the timeline of steps, and    *)
(* the tail of a log in which a step that ends takes the line on which it  *)
(* began.                                                                  *)
(*                                                                         *)
(* The events are those that destroy_phase, run_plan and execute_step      *)
(* send, in their order; the bus may lose any of them (OpPanels has the    *)
(* two buses).  A line is named for what it says and for its step.         *)
(***************************************************************************)
EXTENDS Naturals, Sequences

CONSTANTS
    OutputCap,     \* OP_OUTPUT_CAP
    PlanIds,       \* the steps of the plan, in the order they run
    MaxLines,      \* bound: lines that a step prints
    MaxLost        \* bound: events lost on a full bus

NoStep == ""

DestroySteps == <<"destroy-kind", "remove-kubeconfig", "remove-record">>

\* build_plan gives each step an id of its own, and none that destroy_phase uses.
ASSUME OutputAssumption ==
    /\ OutputCap \in Nat \ {0} /\ PlanIds \in Seq(STRING) /\ MaxLines \in Nat /\ MaxLost \in Nat
    /\ \A j, k \in DOMAIN PlanIds : PlanIds[j] = PlanIds[k] => j = k
    /\ \A k \in DOMAIN PlanIds : /\ PlanIds[k] # NoStep
                                 /\ \A j \in DOMAIN DestroySteps : PlanIds[k] # DestroySteps[j]

VARIABLES
    op,            \* the operation: its kind, the step it is at, and what it does
    panel,         \* the OpPanel
    told,          \* history: what the events say, with none of them lost
    lost           \* history: how many of them the bus lost

output_vars == <<op, panel, told, lost>>

OpKinds == {"create", "recreate", "destroy"}
DestroyIds(kind) ==
    CASE kind = "create" -> <<>>
      [] kind = "recreate" -> SubSeq(DestroySteps, 1, 2)
      [] kind = "destroy" -> DestroySteps
StepIds(kind) == DestroyIds(kind) \o (IF kind = "destroy" THEN <<>> ELSE PlanIds)
InPlan(kind, at) == kind # "destroy" /\ at > Len(DestroyIds(kind))

Event(is, step) == [is |-> is, step |-> step]
Line(says, step) == [says |-> says, step |-> step]

-----------------------------------------------------------------------------
(* OpPanel::apply_event                                                    *)

Styled(kind) == kind # "destroy"
NewPanel(kind) ==
    [styled |-> Styled(kind), steps |-> <<>>, output |-> <<>>, header |-> FALSE, pending |-> 0]

\* Slip: the log grows one line beyond its cap.
PushBeyond(output, line) ==
    IF Len(output) > OutputCap THEN Append(Tail(output), line) ELSE Append(output, line)

PushLine(output, line) ==
    IF Len(output) >= OutputCap THEN Append(Tail(output), line) ELSE Append(output, line)

Push(p, line) == [p EXCEPT !.output = PushLine(@, line)]

\* step_mut: the row of the step, a new one if it has none.
SetStep(p, id, status) ==
    IF \E k \in DOMAIN p.steps : p.steps[k].id = id
    THEN [p EXCEPT !.steps = [k \in DOMAIN @ |-> IF @[k].id = id THEN [@[k] EXCEPT !.status = status]
                                                              ELSE @[k]]]
    ELSE [p EXCEPT !.steps = Append(@, [id |-> id, status |-> status])]

Headed(p) == IF p.header THEN p ELSE [Push(p, Line("header", NoStep)) EXCEPT !.header = TRUE]

\* Slip: the place of the line is taken after it is pushed.
BeginAfter(p, id) ==
    LET shown == Push(Headed(p), Line("begun", id))
    IN  [shown EXCEPT !.pending = Len(shown.output) + 1]

\* The line on which a step begins, and its place if nothing is cut.
Begin(p, id) ==
    [Push(Headed(p), Line("begun", id)) EXCEPT !.pending = Len(Headed(p).output) + 1]

\* pending_step.take(): the mark goes onto the line at that place, if any.
Mark(p, line) ==
    IF p.pending \in DOMAIN p.output
    THEN [p EXCEPT !.output = [@ EXCEPT ![p.pending] = line], !.pending = 0]
    ELSE [Push(p, line) EXCEPT !.pending = 0]

StyledLines(p, e) ==
    CASE e.is = "started" -> Begin(p, e.step)
      [] e.is = "output" -> Push(p, Line("output", e.step))
      [] e.is = "finished" -> Mark(p, Line("done", e.step))
      [] e.is = "failed" -> Push(Mark(p, Line("failed", e.step)), Line("error", e.step))
      [] e.is = "success" -> Push(Push(Push(Push(p, Line("context", NoStep)), Line("usage", NoStep)),
                                       Line("empty", NoStep)), Line("command", NoStep))
      [] e.is = "failure" -> Push(p, Line("aborted", NoStep))

OfStep == {"started", "finished", "failed"}
StatusOf(is) == CASE is = "started" -> "Running" [] is = "finished" -> "Done"
                  [] is = "failed" -> "Failed"

ApplyEvent(p, e) ==
    LET shown == IF e.is \in OfStep THEN SetStep(p, e.step, StatusOf(e.is)) ELSE p
    IN  IF p.styled THEN StyledLines(shown, e) ELSE Push(shown, Line(e.is, e.step))

-----------------------------------------------------------------------------
(* The same events, told one after the other: the steps in the order they  *)
(* began and how far they are, and a story in which each step has a mark,  *)
(* and under it what it printed.                                           *)

OpSteps == {DestroySteps[k] : k \in DOMAIN DestroySteps} \cup {PlanIds[k] : k \in DOMAIN PlanIds}

NothingTold == [begun |-> <<>>, status |-> [id \in OpSteps |-> "none"], story |-> <<>>]

StoryOf(t, e) ==
    CASE ~Styled(op.kind) -> <<Line(e.is, e.step)>>
      [] Styled(op.kind) /\ e.is = "started" ->
           IF t.begun = <<>> THEN <<Line("header", NoStep), Line("mark", e.step)>>
           ELSE <<Line("mark", e.step)>>
      [] Styled(op.kind) /\ e.is = "output" -> <<Line("output", e.step)>>
      [] Styled(op.kind) /\ e.is = "finished" -> <<>>
      [] Styled(op.kind) /\ e.is = "failed" -> <<Line("error", e.step)>>
      [] Styled(op.kind) /\ e.is = "success" ->
           <<Line("context", NoStep), Line("usage", NoStep), Line("empty", NoStep),
             Line("command", NoStep)>>
      [] Styled(op.kind) /\ e.is = "failure" -> <<Line("aborted", NoStep)>>

Tell(t, e) ==
    [begun |-> IF e.is = "started" THEN Append(t.begun, e.step) ELSE t.begun,
     status |-> IF e.is \in OfStep THEN [t.status EXCEPT ![e.step] = StatusOf(e.is)] ELSE t.status,
     story |-> t.story \o StoryOf(t, e)]

-----------------------------------------------------------------------------
(* The run and its events.                                                 *)

Idle == [kind |-> "create", at |-> 0, is |-> "idle", lines |-> 0]

\* An event reaches the panel, or finds the bus full.
Send(e) ==
    /\ told' = Tell(told, e)
    /\ \/ panel' = ApplyEvent(panel, e) /\ UNCHANGED lost
       \/ lost < MaxLost /\ lost' = lost + 1 /\ UNCHANGED panel

StartOp(kind) ==
    /\ op.is = "idle"
    /\ op' = [kind |-> kind, at |-> 1, is |-> "between", lines |-> 0]
    /\ panel' = NewPanel(kind)
    /\ UNCHANGED <<told, lost>>

Current == StepIds(op.kind)[op.at]
MoreSteps == op.is = "between" /\ op.at <= Len(StepIds(op.kind))

\* The token, which run_plan looks at between two steps, has fired.
Aborted ==
    /\ MoreSteps /\ InPlan(op.kind, op.at)
    /\ op' = [op EXCEPT !.is = "over"] /\ Send(Event("failure", NoStep))

StepStarted ==
    /\ MoreSteps
    /\ op' = [op EXCEPT !.is = "running", !.lines = 0] /\ Send(Event("started", Current))

\* A command of the plan prints lines; destroy-kind has one to say when the
\* cluster was already gone, just before it finishes.
StepOutput ==
    /\ op.is = "running" /\ op.lines < MaxLines
    /\ InPlan(op.kind, op.at) \/ (Current = "destroy-kind" /\ op.lines = 0)
    /\ op' = [op EXCEPT !.lines = @ + 1] /\ Send(Event("output", Current))

StepFinished ==
    /\ op.is = "running"
    /\ op' = [op EXCEPT !.is = "between", !.at = @ + 1] /\ Send(Event("finished", Current))

\* A run of a plan has one more thing to say, destroy_phase has not.
StepFailed ==
    /\ op.is = "running"
    /\ InPlan(op.kind, op.at) \/ op.lines = 0
    /\ op' = [op EXCEPT !.is = IF InPlan(op.kind, op.at) THEN "failed" ELSE "over"]
    /\ Send(Event("failed", Current))

PlanFinished ==
    /\ op' = [op EXCEPT !.is = "over"]
    /\ \/ op.is = "failed" /\ Send(Event("failure", NoStep))
       \/ /\ op.is = "between" /\ op.at > Len(StepIds(op.kind)) /\ op.kind # "destroy"
          /\ Send(Event("success", NoStep))

OutputInit == op = Idle /\ panel = NewPanel(Idle.kind) /\ told = NothingTold /\ lost = 0

OutputNext ==
    \/ \E kind \in OpKinds : StartOp(kind)
    \/ Aborted \/ StepStarted \/ StepOutput \/ StepFinished \/ StepFailed \/ PlanFinished

-----------------------------------------------------------------------------
(* Properties.                                                             *)

\* The story with its marks, which say how far the step is.
Shown(status) == CASE status = "Running" -> "begun" [] status = "Done" -> "done"
                    [] status = "Failed" -> "failed"
Story ==
    [k \in DOMAIN told.story |->
       LET line == told.story[k] IN
       IF line.says = "mark" THEN Line(Shown(told.status[line.step]), line.step) ELSE line]

Tailed(lines) == SubSeq(lines, IF Len(lines) > OutputCap THEN Len(lines) - OutputCap + 1 ELSE 1,
                        Len(lines))

\* The lines of the steps fit into the log: nothing is cut while one is running.
StepsFit == \A k \in DOMAIN told.story : told.story[k].step # NoStep => k <= OutputCap

\* The panel tells the run as it was: a step that it shows as done or failed
\* is, whatever the bus lost; and if it lost nothing, the timeline is the run's
\* and the log is the end of its story, each mark on the line of its own step -
\* as long as the log is not cut while a step is running, for then the place
\* of its line, an index from the front, is that of another line or of none.
TimelineTellsTheRun ==
    /\ Len(panel.output) <= OutputCap
    /\ \A k \in DOMAIN panel.steps :
         panel.steps[k].status # "Running" => panel.steps[k].status = told.status[panel.steps[k].id]
    /\ lost = 0 =>
         /\ panel.steps = [k \in DOMAIN told.begun |->
                             [id |-> told.begun[k], status |-> told.status[told.begun[k]]]]
         /\ ~Styled(op.kind) \/ StepsFit => panel.output = Tailed(Story)
=============================================================================
