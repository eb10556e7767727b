------------------------------ MODULE LogStream -------------------------------
(***************************************************************************)
(* The log view of one cluster: its tab (views/cluster.rs, app.rs), the    *)
(* worker's log slot and log tasks (worker.rs, k8s/logs.rs) and the two    *)
(* buses between them.                                                     *)
(*                                                                         *)
(* A follow-mode task reads the process into a ring, a pump moves the ring *)
(* to the event bus every LOG_PUMP_MS, and the task joins the pump before  *)
(* it reports the end.  A one-shot read prints what it collected.  The UI  *)
(* tells the streams of a tab apart by a generation that starts over in    *)
(* every new tab.                                                          *)
(***************************************************************************)
EXTENDS Naturals, Sequences

CONSTANTS
    CmdCap, EventCap,  \* the capacities of the two buses
    RingCap,           \* the capacity of a log ring
    MaxStreams,        \* bound: streams the user starts
    MaxTabs,           \* bound: times the tab is opened
    MaxLines           \* bound: lines of one stream

ASSUME LogsAssumption ==
    /\ CmdCap \in Nat \ {0} /\ EventCap \in Nat \ {0} /\ RingCap \in Nat \ {0}
    /\ MaxStreams \in Nat /\ MaxTabs \in Nat /\ MaxLines \in Nat

VARIABLES
    open, opened,  \* the tab is open; how many tabs there were
    logs,          \* the tab's LogsUi
    latest,        \* history: the stream the tab started last; 0: none
    unstopped,     \* history: a tab went and its StopLogs was not sent
    cmds, events,
    stream,        \* every stream asked for, as the worker sees it
    slot,          \* the stream whose token the worker holds; 0: none
    cancelled      \* the streams whose token has fired

ui == <<open, opened, logs, latest, unstopped>>
worker == <<stream, slot, cancelled>>
vars == <<open, opened, logs, latest, unstopped, cmds, events, stream, slot, cancelled>>

Streams == DOMAIN stream
FreshLogs == [gen |-> 0, running |-> FALSE, ended |-> FALSE, ring |-> << >>]

Lines == [stream : 1..MaxStreams, line : 1..MaxLines]
Commands == [type : {"start", "stop"}, stream : 0..MaxStreams]
Events == [stream : 1..MaxStreams, gen : 1..MaxStreams, line : 0..MaxLines]  \* 0: LogEnded
Stages == {"asked", "dropped", "reading", "printing", "joining", "reported", "lost"}

TypeOK ==
    /\ open \in BOOLEAN /\ opened \in 0..MaxTabs /\ latest \in 0..MaxStreams
    /\ unstopped \in BOOLEAN
    /\ logs.gen \in 0..MaxStreams /\ logs.running \in BOOLEAN /\ logs.ended \in BOOLEAN
    /\ logs.ring \in Seq(Lines) /\ Len(logs.ring) <= RingCap
    /\ cmds \in Seq(Commands) /\ Len(cmds) <= CmdCap
    /\ events \in Seq(Events) /\ Len(events) <= EventCap
    /\ Streams \subseteq 1..MaxStreams
    /\ \A s \in Streams :
          /\ stream[s].gen \in 1..MaxStreams /\ stream[s].follow \in BOOLEAN
          /\ stream[s].stage \in Stages /\ stream[s].made \in 0..MaxLines
          /\ stream[s].ring \in Seq(1..MaxLines) /\ Len(stream[s].ring) <= RingCap
          /\ stream[s].batch \in Seq(1..MaxLines)
          /\ stream[s].pump \in BOOLEAN
    /\ slot \in 0..MaxStreams
    /\ cancelled \subseteq 1..MaxStreams

-----------------------------------------------------------------------------
\* LogRing::push: the oldest line goes when the ring is full.
Pushed(ring, line) ==
    LET all == Append(ring, line)
    IN  IF Len(all) > RingCap THEN Tail(all) ELSE all

\* KindboardApp::issue.
Accepted == Len(cmds) < CmdCap
Issue(type, s) == IF Accepted THEN Append(cmds, [type |-> type, stream |-> s]) ELSE cmds

-----------------------------------------------------------------------------
(* The user, in a tab.                                                     *)

\* A StartLogs command.
AskFor(gen, follow) ==
    LET s == Len(stream) + 1
    IN  /\ s <= MaxStreams
        /\ stream' = Append(stream,
              [gen |-> gen, follow |-> follow, made |-> 0,
               stage |-> IF Accepted THEN "asked" ELSE "dropped",
               ring |-> << >>, batch |-> << >>, pump |-> FALSE])
        /\ cmds' = Issue("start", s)
        /\ latest' = s
        /\ UNCHANGED <<open, opened, unstopped, events, slot, cancelled>>

Start(follow) ==
    /\ open /\ ~logs.running
    /\ AskFor(logs.gen + 1, follow)
    /\ logs' = [FreshLogs EXCEPT !.gen = logs.gen + 1, !.running = TRUE]

\* Another source, or Follow toggled, while a stream runs.
\* Slip: the generation is kept.
ChangeKeepingGen(follow) ==
    /\ open /\ logs.running
    /\ AskFor(logs.gen, follow)
    /\ logs' = logs

Change(follow) ==
    /\ open /\ logs.running
    /\ AskFor(logs.gen + 1, follow)
    /\ logs' = [logs EXCEPT !.gen = @ + 1]

Stop ==
    /\ open /\ logs.running
    /\ logs' = [logs EXCEPT !.running = FALSE]
    /\ cmds' = Issue("stop", 0)
    /\ UNCHANGED <<open, opened, latest, unstopped, events, worker>>

OpenTab ==
    /\ ~open /\ opened < MaxTabs
    /\ open' = TRUE /\ opened' = opened + 1
    /\ logs' = FreshLogs /\ latest' = 0
    /\ UNCHANGED <<unstopped, cmds, events, worker>>

\* close_tab stops the log stream.
\* Slip: only a stream that is shown as running is stopped.
CloseTabIfRunning ==
    /\ open /\ open' = FALSE
    /\ cmds' = IF logs.running THEN Issue("stop", 0) ELSE cmds
    /\ unstopped' = (unstopped \/ ~Accepted)
    /\ logs' = FreshLogs /\ latest' = 0
    /\ UNCHANGED <<opened, events, worker>>

CloseTab ==
    /\ open /\ open' = FALSE
    /\ cmds' = Issue("stop", 0)
    /\ unstopped' = (unstopped \/ ~Accepted)
    /\ logs' = FreshLogs /\ latest' = 0
    /\ UNCHANGED <<opened, events, worker>>

\* handle_event on the success of a destroy: the tab goes, nothing is sent.
Destroyed ==
    /\ open /\ open' = FALSE
    /\ unstopped' = TRUE
    /\ logs' = FreshLogs /\ latest' = 0
    /\ UNCHANGED <<opened, cmds, events, worker>>

-----------------------------------------------------------------------------
(* The worker.                                                             *)

\* StartLogs: op_token fires the token it replaces.
\* Slip: the replaced token is only forgotten.
DispatchStartForgetting ==
    /\ cmds # << >> /\ Head(cmds).type = "start"
    /\ LET s == Head(cmds).stream IN
       /\ slot' = s
       /\ stream' = [stream EXCEPT ![s].stage = "reading", ![s].pump = stream[s].follow]
    /\ cmds' = Tail(cmds)
    /\ UNCHANGED <<ui, events, cancelled>>

DispatchStart ==
    /\ cmds # << >> /\ Head(cmds).type = "start"
    /\ LET s == Head(cmds).stream IN
       /\ slot' = s
       /\ cancelled' = cancelled \cup ({slot} \ {0})
       /\ stream' = [stream EXCEPT ![s].stage = "reading", ![s].pump = stream[s].follow]
    /\ cmds' = Tail(cmds)
    /\ UNCHANGED <<ui, events>>

DispatchStop ==
    /\ cmds # << >> /\ Head(cmds).type = "stop"
    /\ slot' = 0
    /\ cancelled' = cancelled \cup ({slot} \ {0})
    /\ cmds' = Tail(cmds)
    /\ UNCHANGED <<ui, events, stream>>

With(s, change) == stream' = [stream EXCEPT ![s] = change]
TaskOnly == UNCHANGED <<ui, cmds, slot, cancelled>>

\* The process writes a line: into the ring, or collected by a one-shot read.
Line(s) ==
    /\ stream[s].stage = "reading" /\ stream[s].made < MaxLines
    /\ LET n == stream[s].made + 1 IN
       With(s, IF stream[s].follow
               THEN [stream[s] EXCEPT !.made = n, !.ring = Pushed(@, n)]
               ELSE [stream[s] EXCEPT !.made = n, !.batch = Append(@, n)])
    /\ TaskOnly /\ UNCHANGED events

\* The process exits, or fails; a failed one-shot read prints nothing.
ProcessEnds(s) ==
    /\ stream[s].stage = "reading"
    /\ IF stream[s].follow THEN With(s, [stream[s] EXCEPT !.stage = "joining"])
       ELSE \E lines \in {stream[s].batch, << >>} :
              With(s, [stream[s] EXCEPT !.stage = "printing", !.batch = lines])
    /\ TaskOnly /\ UNCHANGED events

\* watch_logs sees its token and ends the process; read_logs has none.
\* Slip: the token is only looked at after a line.
SeesCancelAfterLine(s) ==
    /\ stream[s].stage = "reading" /\ stream[s].follow /\ s \in cancelled
    /\ stream[s].ring # << >>
    /\ With(s, [stream[s] EXCEPT !.stage = "joining"])
    /\ TaskOnly /\ UNCHANGED events

SeesCancel(s) ==
    /\ stream[s].stage = "reading" /\ stream[s].follow /\ s \in cancelled
    /\ With(s, [stream[s] EXCEPT !.stage = "joining"])
    /\ TaskOnly /\ UNCHANGED events

\* The pump takes the ring over and empties it under one lock.
Pump(s) ==
    /\ stream[s].pump /\ stream[s].batch = << >> /\ stream[s].ring # << >>
    /\ With(s, [stream[s] EXCEPT !.batch = stream[s].ring, !.ring = << >>])
    /\ TaskOnly /\ UNCHANGED events

\* Only its token ends the pump.
PumpStops(s) ==
    /\ stream[s].pump /\ stream[s].batch = << >> /\ s \in cancelled
    /\ With(s, [stream[s] EXCEPT !.pump = FALSE])
    /\ TaskOnly /\ UNCHANGED events

Room == Len(events) < EventCap
Event(s, line) == [stream |-> s, gen |-> stream[s].gen, line |-> line]

\* emit: a line is lost when the bus is full.
Emit(s) ==
    /\ stream[s].batch # << >>
    /\ stream[s].stage # "reading" \/ stream[s].follow
    /\ events' = IF Room THEN Append(events, Event(s, Head(stream[s].batch))) ELSE events
    /\ With(s, [stream[s] EXCEPT !.batch = Tail(@)])
    /\ TaskOnly

Ready(s) == \/ stream[s].stage = "joining" /\ ~stream[s].pump
            \/ stream[s].stage = "printing" /\ stream[s].batch = << >>

\* emit_important: LogEnded waits EVENT_SEND_GRACE for room, then is lost.
Report(s) ==
    /\ Ready(s)
    /\ IF Room THEN /\ events' = Append(events, Event(s, 0))
                    /\ With(s, [stream[s] EXCEPT !.stage = "reported"])
       ELSE UNCHANGED events /\ With(s, [stream[s] EXCEPT !.stage = "lost"])
    /\ TaskOnly

-----------------------------------------------------------------------------
(* handle_event on LogLine and LogEnded: accept_log compares generations.  *)
Handle ==
    /\ events # << >>
    /\ LET e == Head(events) IN
       logs' = IF ~open \/ e.gen # logs.gen THEN logs
               ELSE IF e.line = 0 THEN [logs EXCEPT !.running = FALSE, !.ended = TRUE]
               ELSE [logs EXCEPT !.ring = Pushed(@, [stream |-> e.stream, line |-> e.line])]
    /\ events' = Tail(events)
    /\ UNCHANGED <<open, opened, latest, unstopped, cmds, worker>>

Init ==
    /\ open = FALSE /\ opened = 0 /\ logs = FreshLogs /\ latest = 0
    /\ unstopped = FALSE
    /\ cmds = << >> /\ events = << >>
    /\ stream = << >> /\ slot = 0 /\ cancelled = {}

Task(s) == ProcessEnds(s) \/ SeesCancel(s) \/ Pump(s) \/ PumpStops(s) \/ Emit(s) \/ Report(s)

Next ==
    \/ \E follow \in BOOLEAN : Start(follow) \/ Change(follow)
    \/ Stop \/ OpenTab \/ CloseTab \/ Destroyed
    \/ DispatchStart \/ DispatchStop
    \/ \E s \in Streams : Line(s) \/ Task(s)
    \/ Handle

Spec == Init /\ [][Next]_vars

\* The worker dispatches, the UI drains its bus, and the runtime schedules
\* tasks and pumps; a process that is followed need not exit, a one-shot
\* read has a deadline.
Fairness ==
    /\ WF_vars(DispatchStart \/ DispatchStop)
    /\ WF_vars(Handle)
    /\ \A s \in 1..MaxStreams :
          /\ WF_vars(s \in Streams /\ SeesCancel(s))
          /\ WF_vars(s \in Streams /\ (Pump(s) \/ Emit(s)))
          /\ WF_vars(s \in Streams /\ PumpStops(s))
          /\ WF_vars(s \in Streams /\ Report(s))
          /\ WF_vars(s \in Streams /\ ~stream[s].follow /\ ProcessEnds(s))

FairSpec == Spec /\ Fairness

-----------------------------------------------------------------------------
(* Properties.                                                             *)

\* cluster.rs: "lines/endings from replaced streams are dropped."  What a
\* tab takes in is of the stream it started last, as long as it is the first
\* tab of the cluster: a tab opened again counts its streams from 1 again.
ReplacedStreamsAreDropped ==
    [][opened <= 1 /\ events # << >> /\ events' = Tail(events) /\ Head(events).stream # latest
          => logs' = logs]_vars

Live(s) == stream[s].stage \in {"reading", "joining"} /\ stream[s].follow
                /\ s \notin cancelled

\* One stream per tab, and ADR-0012: "closing a tab cancels its task".  Every
\* follow-mode task that goes on is the one whose token the worker holds, so
\* that Stop and closing the tab reach it; and once the worker has handled
\* every command none goes on without a tab, unless the StopLogs found the bus
\* full, or the tab went with its destroyed cluster, which sends none.
StreamsBelongToTheTab ==
    \A s \in Streams : Live(s) => slot = s /\ (open \/ unstopped \/ cmds # << >>)

Pending(s, stages) == s \in Streams /\ stream[s].follow /\ stream[s].stage \in stages

\* A follow-mode task whose token has fired ends and reports, or loses the
\* report on a full bus.
CancelledStreamReports ==
    \A s \in 1..MaxStreams :
        s \in cancelled /\ Pending(s, {"reading", "joining"})
            ~> ~Pending(s, {"reading", "joining"})

\* bus.rs on LogEnded: "A log stream ended (process exit, error, or stop)."
\* Every stream whose process is gone is reported, or the report is lost.
EndedStreamReports ==
    \A s \in 1..MaxStreams :
        Pending(s, {"joining"}) ~> ~Pending(s, {"joining"})
=============================================================================
