------------------------------- MODULE Topology -------------------------------
(***************************************************************************)
(* Topology snapshots of one cluster: its tab (views/cluster.rs, app.rs),  *)
(* the worker's fetch tasks and its auto-refresh loop (worker.rs), and the *)
(* two buses.                                                              *)
(*                                                                         *)
(* A manual fetch carries the tab's manual generation, the loop that of    *)
(* the tab's auto-refresh; the tab takes a snapshot whose generation       *)
(* equals either.  Both counters begin at 1.  A fetch reads the cluster at *)
(* some moment of its task; the cluster's state is a version number.       *)
(*                                                                         *)
(* The interval of the loop (2 s at least) is long compared to a frame, in *)
(* which the UI drains the event bus: the loop wakes up to an empty bus.   *)
(***************************************************************************)
EXTENDS Naturals, Sequences

CONSTANTS
    CmdCap, EventCap,   \* capacities of the buses
    MaxFetches,         \* bound: requests (manual fetches and loops)
    MaxChanges,         \* bound: changes of the cluster
    MaxTabs             \* bound: times the tab is opened

ASSUME TopologyAssumption ==
    /\ CmdCap \in Nat \ {0} /\ EventCap \in Nat \ {0}
    /\ MaxFetches \in Nat \ {0} /\ MaxChanges \in Nat /\ MaxTabs \in Nat \ {0}

VARIABLES
    world,              \* version of the cluster
    open, tabs,         \* the tab is open; times it was opened
    manualGen, autoGen, \* generations of the tab; autoGen = 0: no auto-refresh
    loading,            \* topo_loading
    shown,              \* the snapshot on screen
    manual, auto,       \* history: the tab's last fetch and its loop; 0: none
    asked,              \* requests so far
    cmds, events,
    task,               \* the task of each request
    slot,               \* the request whose token cancels["topo:name"] holds
    lost                \* history: what was dropped by a full bus, or never sent

tab == <<open, tabs, manualGen, autoGen, loading, shown, manual, auto>>
vars == <<world, open, tabs, manualGen, autoGen, loading, shown, manual, auto, asked,
          cmds, events, task, slot, lost>>

Requests == 1..MaxFetches
Gens == 0..(MaxFetches + 1)
Versions == 0..MaxChanges
Err == MaxChanges + 1      \* the outcome of a fetch that fails

Stages == {"none", "fetch", "emit", "sleep", "ended"}
Tasks == [kind : {"none", "manual", "auto"}, gen : Gens, stage : Stages,
          got : Versions \cup {Err}, cancelled : BOOLEAN]
NoTask == [kind |-> "none", gen |-> 0, stage |-> "none", got |-> 0, cancelled |-> FALSE]
Commands == [do : {"fetch", "auto", "off"}, request : 0..MaxFetches, gen : Gens]
Events == [request : Requests, gen : Gens, got : Versions \cup {Err}]
Nothing == [request |-> 0, got |-> 0]

TypeOK ==
    /\ world \in Versions /\ open \in BOOLEAN /\ tabs \in 1..MaxTabs
    /\ manualGen \in Gens /\ autoGen \in Gens /\ loading \in BOOLEAN
    /\ shown \in [request : 0..MaxFetches, got : Versions]
    /\ manual \in 0..MaxFetches /\ auto \in 0..MaxFetches /\ asked \in 0..MaxFetches
    /\ cmds \in Seq(Commands) /\ Len(cmds) <= CmdCap
    /\ events \in Seq(Events) /\ Len(events) <= EventCap
    /\ task \in [Requests -> Tasks] /\ slot \in 0..MaxFetches
    /\ lost \subseteq {"command", "snapshot", "off"}

-----------------------------------------------------------------------------
(* The tab.                                                                *)

\* issue: a full bus loses the command.
Issue(c) ==
    \/ Len(cmds) < CmdCap /\ cmds' = Append(cmds, c) /\ UNCHANGED lost
    \/ Len(cmds) = CmdCap /\ lost' = lost \cup {"command"} /\ UNCHANGED cmds

NewRequest == asked < MaxFetches /\ asked' = asked + 1

Fetch(gen) ==
    /\ NewRequest
    /\ manualGen' = gen /\ manual' = asked' /\ loading' = TRUE
    /\ Issue([do |-> "fetch", request |-> asked', gen |-> gen])

OpenTab ==
    /\ ~open /\ tabs < MaxTabs
    /\ open' = TRUE /\ tabs' = tabs + 1
    /\ Fetch(1)
    /\ autoGen' = 0 /\ auto' = 0 /\ shown' = Nothing
    /\ UNCHANGED <<world, events, task, slot>>

\* "Refresh now", Ctrl+R, Retry.
Refresh ==
    /\ open
    /\ Fetch(manualGen + 1)
    /\ UNCHANGED <<world, open, tabs, autoGen, auto, shown, events, task, slot>>

StartAuto(gen) ==
    /\ NewRequest
    /\ autoGen' = gen /\ auto' = asked'
    /\ Issue([do |-> "auto", request |-> asked', gen |-> gen])

AutoOn == autoGen = 0 /\ StartAuto(1)
ChangeInterval == autoGen # 0 /\ StartAuto(autoGen + 1)
AutoOff ==
    /\ autoGen # 0
    /\ autoGen' = 0 /\ auto' = 0
    /\ Issue([do |-> "off", request |-> 0, gen |-> autoGen + 1])
    /\ UNCHANGED asked

SetAuto ==
    /\ open
    /\ AutoOn \/ ChangeInterval \/ AutoOff
    /\ UNCHANGED <<world, open, tabs, manualGen, loading, shown, manual, events, task, slot>>

\* Slip: the loop is left to run.
CloseTabOnly ==
    /\ open /\ open' = FALSE
    /\ UNCHANGED <<world, tabs, manualGen, autoGen, loading, shown, manual, auto, asked,
                   cmds, events, task, slot, lost>>

CloseTab ==
    /\ open /\ open' = FALSE
    /\ Issue([do |-> "off", request |-> 0, gen |-> 0])
    /\ UNCHANGED <<world, tabs, manualGen, autoGen, loading, shown, manual, auto, asked,
                   events, task, slot>>

\* What follows a successful destroy drops the tab and nothing else.
Destroyed ==
    /\ open /\ open' = FALSE
    /\ lost' = IF auto # 0 THEN lost \cup {"off"} ELSE lost
    /\ UNCHANGED <<world, tabs, manualGen, autoGen, loading, shown, manual, auto, asked,
                   cmds, events, task, slot>>

\* Slip: any snapshot of the cluster is taken.
AcceptAny(gen) == gen > 0

AcceptTopology(gen) == gen = manualGen \/ (autoGen # 0 /\ gen = autoGen)

\* Slip: a failed fetch only shows its error.
ApplyLoaded(e) ==
    /\ shown' = IF e.got # Err THEN [request |-> e.request, got |-> e.got] ELSE shown
    /\ loading' = (loading /\ e.got = Err)

ApplyTopology(e) ==
    /\ shown' = IF e.got # Err THEN [request |-> e.request, got |-> e.got] ELSE shown
    /\ loading' = FALSE

HandleTopology ==
    /\ events # <<>>
    /\ events' = Tail(events)
    /\ IF open /\ AcceptTopology(Head(events).gen)
         THEN ApplyTopology(Head(events))
         ELSE UNCHANGED <<shown, loading>>
    /\ UNCHANGED <<world, open, tabs, manualGen, autoGen, manual, auto, asked, cmds, task, slot,
                   lost>>

-----------------------------------------------------------------------------
(* The worker.                                                             *)

Spawned(c, kind) ==
    [kind |-> kind, gen |-> c.gen, stage |-> "fetch", got |-> 0, cancelled |-> FALSE]

\* Slip: the loop that held the slot is not cancelled.
KeepSlot == task

CancelSlot == [r \in Requests |-> IF r = slot THEN [task[r] EXCEPT !.cancelled = TRUE] ELSE task[r]]

TakeCommand ==
    /\ cmds # <<>>
    /\ cmds' = Tail(cmds)
    /\ LET c == Head(cmds) IN
       \/ c.do = "fetch"
          /\ task' = [task EXCEPT ![c.request] = Spawned(c, "manual")]
          /\ UNCHANGED slot
       \/ c.do = "auto"
          /\ task' = [CancelSlot EXCEPT ![c.request] = Spawned(c, "auto")]
          /\ slot' = c.request
       \/ c.do = "off"
          /\ task' = CancelSlot
          /\ slot' = 0
    /\ UNCHANGED <<world, tab, asked, events, lost>>

\* The read of fetch_topology; a kubeconfig without the context, a client
\* error or a timeout make it fail.
Reads(r) ==
    /\ task[r].stage = "fetch"
    /\ \E got \in {world, Err} :
         task' = [task EXCEPT ![r].stage = "emit", ![r].got = got]
    /\ UNCHANGED <<world, tab, asked, cmds, events, slot, lost>>

\* emit: a full bus loses the snapshot.
Emits(r) ==
    /\ task[r].stage = "emit"
    /\ LET e == [request |-> r, gen |-> task[r].gen, got |-> task[r].got] IN
       events' = IF Len(events) < EventCap THEN Append(events, e) ELSE events
    /\ lost' = IF Len(events) < EventCap THEN lost ELSE lost \cup {"snapshot"}
    /\ task' = [task EXCEPT ![r].stage = IF task[r].kind = "auto" THEN "sleep" ELSE "ended"]
    /\ UNCHANGED <<world, tab, asked, cmds, slot>>

\* The loop wakes up on its token or, after the interval, looks at it.
Wakes(r) ==
    /\ task[r].stage = "sleep"
    /\ \/ task[r].cancelled
          /\ task' = [task EXCEPT ![r].stage = "ended"]
       \/ ~task[r].cancelled /\ events = <<>>
          /\ task' = [task EXCEPT ![r].stage = "fetch"]
    /\ UNCHANGED <<world, tab, asked, cmds, events, slot, lost>>

\* The loop looks at its token before its first fetch.
EndsUnstarted(r) ==
    /\ task[r].stage = "fetch" /\ task[r].kind = "auto" /\ task[r].cancelled
    /\ task' = [task EXCEPT ![r].stage = "ended"]
    /\ UNCHANGED <<world, tab, asked, cmds, events, slot, lost>>

Changes ==
    /\ world < MaxChanges /\ world' = world + 1
    /\ UNCHANGED <<tab, asked, cmds, events, task, slot, lost>>

-----------------------------------------------------------------------------
Init ==
    /\ world = 0 /\ open = TRUE /\ tabs = 1
    /\ manualGen = 1 /\ autoGen = 0 /\ loading = TRUE /\ shown = Nothing
    /\ manual = 1 /\ auto = 0 /\ asked = 1
    /\ cmds = <<[do |-> "fetch", request |-> 1, gen |-> 1]>> /\ events = <<>>
    /\ task = [r \in Requests |-> NoTask] /\ slot = 0 /\ lost = {}

User == OpenTab \/ Refresh \/ SetAuto \/ CloseTab \/ Destroyed
Works(r) == Reads(r) \/ Emits(r) \/ Wakes(r) \/ EndsUnstarted(r)

Next == User \/ HandleTopology \/ TakeCommand \/ Changes \/ \E r \in Requests : Works(r)

Spec == Init /\ [][Next]_vars

\* Frames are drawn, the worker's loop and its tasks are scheduled.
FairSpec ==
    /\ Spec
    /\ WF_vars(HandleTopology) /\ WF_vars(TakeCommand)
    /\ \A r \in Requests : WF_vars(Works(r))

-----------------------------------------------------------------------------
(* Properties.                                                             *)

\* bus.rs: "output of a replaced operation can never clobber newer state".
\* A snapshot that comes onto the screen is of the tab's last fetch or of its
\* present loop, where generations tell fetches apart: neither counter has
\* begun again at 1, and the snapshot's generation is not that of the other kind.
ReplacedFetchesAreDropped ==
    [][HandleTopology /\ shown' # shown
       /\ asked = manualGen + autoGen
       /\ Head(events).gen # (IF task[Head(events).request].kind = "manual"
                                THEN autoGen ELSE manualGen)
         => shown'.request \in {manual, auto}]_vars

Live(r) == task[r].kind = "auto" /\ task[r].stage # "ended" /\ ~task[r].cancelled

\* Once the worker has caught up with the tab, the loops that are not
\* cancelled are those the tab believes in: the one of its generation, or
\* none; and none when the tab is closed.  (Unless a command was dropped, or
\* a destroy took the tab without sending one.)
LoopsAreTheTabs ==
    cmds = <<>> /\ lost \cap {"command", "off"} = {} =>
        {r \in Requests : Live(r)} = IF open /\ auto # 0 THEN {auto} ELSE {}

\* The spinner stops: the fetch it stands for is answered, or another is,
\* unless a full bus has dropped a request or an answer.
LoadingEnds ==
    loading ~> ~loading \/ ~open \/ lost \cap {"command", "snapshot"} # {}
=============================================================================
