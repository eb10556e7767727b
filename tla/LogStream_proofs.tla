-------------------------- MODULE LogStream_proofs ---------------------------
(***************************************************************************)
(* Proofs about LogStream, for all capacities of the buses and the rings   *)
(* and any number of tabs, streams and lines.                              *)
(***************************************************************************)
EXTENDS LogStream, SequenceTheorems, TLAPS

\* TypeOK, with the records spelled out.
Stream == [gen : 1..MaxStreams, follow : BOOLEAN, made : 0..MaxLines, stage : Stages,
           ring : Seq(1..MaxLines), batch : Seq(1..MaxLines), pump : BOOLEAN]
Logs == [gen : 0..MaxStreams, running : BOOLEAN, ended : BOOLEAN, ring : Seq(Lines)]
Small(ring) == Len(ring) <= RingCap

UiTyped ==
    /\ open \in BOOLEAN /\ opened \in 0..MaxTabs /\ latest \in 0..MaxStreams
    /\ unstopped \in BOOLEAN
    /\ logs \in Logs /\ Small(logs.ring)
BusesTyped ==
    /\ cmds \in Seq(Commands) /\ Len(cmds) <= CmdCap
    /\ events \in Seq(Events) /\ Len(events) <= EventCap
WorkerTyped ==
    /\ stream \in Seq(Stream) /\ Len(stream) <= MaxStreams
    /\ \A s \in Streams : Small(stream[s].ring)
    /\ slot \in 0..MaxStreams /\ cancelled \subseteq 1..MaxStreams
Typed == UiTyped /\ BusesTyped /\ WorkerTyped

\* What is on the buses is about streams that were asked for.
Known ==
    /\ \A i \in DOMAIN cmds : cmds[i].type = "start" => cmds[i].stream \in Streams
    /\ \A i \in DOMAIN events : /\ events[i].stream \in Streams
                                /\ events[i].gen = stream[events[i].stream].gen

\* Up to the end of the first tab a stream's generation is its number.
Numbered ==
    /\ logs.gen <= Len(stream)
    /\ opened = 0 => ~open /\ Len(stream) = 0
    /\ opened <= 1 => /\ \A s \in Streams : stream[s].gen = s
                      /\ open => logs.gen = Len(stream) /\ latest = logs.gen

\* A tab that is gone was followed by a StopLogs that nothing follows, and
\* until that one is handled the bus is not empty.
StopIsLast ==
    ~open /\ ~unstopped =>
      IF cmds = << >> THEN slot = 0 ELSE cmds[Len(cmds)].type = "stop"

OneLive == \A s \in Streams : Live(s) => slot = s

IInv == Typed /\ Known /\ Numbered /\ StopIsLast /\ OneLive

-----------------------------------------------------------------------------
(* Queues, rings and buses.                                                *)

LEMMA AppendFacts ==
    ASSUME NEW S, NEW q \in Seq(S), NEW e \in S
    PROVE  /\ Append(q, e) \in Seq(S) /\ Append(q, e) # << >>
           /\ Len(q) \in Nat /\ Len(Append(q, e)) = Len(q) + 1
           /\ DOMAIN q = 1..Len(q) /\ DOMAIN Append(q, e) = 1..(Len(q) + 1)
           /\ \A i \in DOMAIN q : q[i] \in S /\ Append(q, e)[i] = q[i]
           /\ Append(q, e)[Len(q) + 1] = e
OBVIOUS

LEMMA TailFacts ==
    ASSUME NEW S, NEW q \in Seq(S), q # << >>
    PROVE  /\ Tail(q) \in Seq(S) /\ Head(q) = q[1] /\ Head(q) \in S
           /\ Len(q) \in Nat \ {0} /\ Len(Tail(q)) = Len(q) - 1
           /\ DOMAIN q = 1..Len(q) /\ DOMAIN Tail(q) = 1..(Len(q) - 1)
           /\ \A i \in DOMAIN Tail(q) : i + 1 \in DOMAIN q /\ Tail(q)[i] = q[i + 1]
           /\ Tail(q) # << >> => Len(Tail(q)) \in Nat \ {0}
<1>1. Tail(q) \in Seq(S)
  OBVIOUS
<1>2. Tail(q) # << >> => Len(Tail(q)) \in Nat \ {0}
  BY <1>1, EmptySeq
<1>. QED BY <1>1, <1>2

\* A ring never grows over its capacity.
LEMMA PushedFacts ==
    ASSUME NEW S, NEW ring \in Seq(S), Small(ring), NEW line \in S
    PROVE  Pushed(ring, line) \in Seq(S) /\ Small(Pushed(ring, line))
<1>. DEFINE all == Append(ring, line)
<1>1. all \in Seq(S) /\ Len(all) = Len(ring) + 1 /\ all # << >> /\ Len(ring) \in Nat
  BY AppendFacts
<1>. HIDE DEF all
<1>2. Tail(all) \in Seq(S) /\ Len(Tail(all)) = Len(all) - 1
  BY <1>1, TailFacts
<1>3. CASE Len(all) > RingCap
  BY <1>1, <1>2, <1>3, LogsAssumption DEF Small, Pushed, all
<1>4. CASE ~(Len(all) > RingCap)
  BY <1>1, <1>4, LogsAssumption DEF Small, Pushed, all
<1>. QED BY <1>3, <1>4

\* What one more command does to the bus.
LEMMA IssueFacts ==
    ASSUME BusesTyped, NEW type \in {"start", "stop"}, NEW s \in 0..MaxStreams
    PROVE  LET queue == Issue(type, s) IN
           /\ queue \in Seq(Commands) /\ Len(queue) <= CmdCap
           /\ \A i \in DOMAIN queue :
                 \/ i \in DOMAIN cmds /\ queue[i] = cmds[i]
                 \/ queue[i].type = type /\ queue[i].stream = s
           /\ Accepted => queue # << >> /\ queue[Len(queue)].type = type
<1>. DEFINE cmd == [type |-> type, stream |-> s]
            queue == Append(cmds, cmd)
<1>1. cmd \in Commands /\ cmds \in Seq(Commands) /\ Len(cmds) <= CmdCap
  BY DEF Commands, BusesTyped
<1>2. /\ queue \in Seq(Commands) /\ queue # << >>
      /\ Len(cmds) \in Nat /\ Len(queue) = Len(cmds) + 1
      /\ DOMAIN cmds = 1..Len(cmds) /\ DOMAIN queue = 1..(Len(cmds) + 1)
      /\ \A i \in DOMAIN cmds : queue[i] = cmds[i]
      /\ queue[Len(cmds) + 1] = cmd
  BY <1>1, AppendFacts
<1>3. cmd.type = type /\ cmd.stream = s
  OBVIOUS
<1>4. Issue(type, s) = IF Accepted THEN queue ELSE cmds
  BY DEF Issue
<1>. HIDE DEF queue, cmd
<1>5. \A i \in DOMAIN queue : (i \in DOMAIN cmds /\ queue[i] = cmds[i]) \/ i = Len(cmds) + 1
  BY <1>2
<1>6. CASE Accepted
  <2>1. Len(queue) <= CmdCap
    BY <1>2, <1>6, LogsAssumption DEF Accepted
  <2>. QED BY <1>2, <1>3, <1>4, <1>5, <1>6, <2>1
<1>7. CASE ~Accepted
  BY <1>1, <1>4, <1>7
<1>. QED BY <1>6, <1>7

LEMMA FreshFacts ==
    /\ FreshLogs \in Logs /\ Small(FreshLogs.ring)
    /\ FreshLogs.gen = 0 /\ FreshLogs.running = FALSE
BY LogsAssumption DEF FreshLogs, Logs, Small

-----------------------------------------------------------------------------
(* Each step keeps the invariant.                                          *)

LEMMA InitInv == Init => IInv
<1>. SUFFICES ASSUME Init PROVE IInv
  OBVIOUS
<1>1. UiTyped
  <2>1. opened \in 0..MaxTabs /\ latest \in 0..MaxStreams
    BY LogsAssumption DEF Init
  <2>. QED BY <2>1, FreshFacts DEF Init, UiTyped
<1>2. BusesTyped
  BY LogsAssumption DEF Init, BusesTyped
<1>3. WorkerTyped
  BY LogsAssumption DEF Init, WorkerTyped, Streams
<1>4. Known /\ Numbered /\ StopIsLast /\ OneLive
  BY FreshFacts DEF Init, Known, Numbered, StopIsLast, OneLive, Streams
<1>. QED BY <1>1, <1>2, <1>3, <1>4 DEF IInv, Typed

\* A stream is asked for: it takes the next number, and in the first tab that
\* is its generation, too.
LEMMA AskInv ==
    ASSUME IInv, NEW follow \in BOOLEAN, Start(follow) \/ Change(follow)
    PROVE  IInv'
<1>. DEFINE s == Len(stream) + 1
            r == [gen |-> logs.gen + 1, follow |-> follow, made |-> 0,
                  stage |-> IF Accepted THEN "asked" ELSE "dropped",
                  ring |-> << >>, batch |-> << >>, pump |-> FALSE]
<1>. USE DEF IInv, Typed
<1>1. /\ open /\ s <= MaxStreams /\ stream' = Append(stream, r) /\ cmds' = Issue("start", s)
      /\ latest' = s
      /\ UNCHANGED <<open, opened, unstopped, events, slot, cancelled>>
  BY DEF Start, Change, AskFor
<1>2. /\ s \in 1..MaxStreams /\ s \in 0..MaxStreams /\ logs.gen + 1 \in 1..s
      /\ logs.gen + 1 \in 1..MaxStreams
      /\ logs.gen \in Nat /\ Len(stream) \in Nat /\ logs.gen <= Len(stream)
  BY <1>1, LogsAssumption DEF UiTyped, Logs, WorkerTyped, Numbered
<1>3. /\ logs' \in Logs /\ Small(logs'.ring) /\ logs'.gen = logs.gen + 1
  <2>1. CASE logs' = [FreshLogs EXCEPT !.gen = logs.gen + 1, !.running = TRUE]
    <3>1. logs' = [gen |-> logs.gen + 1, running |-> TRUE, ended |-> FALSE, ring |-> << >>]
      BY <2>1 DEF FreshLogs
    <3>2. << >> \in Seq(Lines) /\ Len(<< >>) <= RingCap
      BY LogsAssumption
    <3>. QED BY <1>2, <3>1, <3>2 DEF Logs, Small
  <2>2. CASE logs' = [logs EXCEPT !.gen = @ + 1]
    BY <1>2, <2>2 DEF UiTyped, Logs
  <2>. QED BY <2>1, <2>2 DEF Start, Change
<1>4. r \in Stream /\ r.gen = logs.gen + 1 /\ Small(r.ring) /\ r.stage \in {"asked", "dropped"}
  BY <1>2, LogsAssumption DEF Stream, Stages, Small
<1>. HIDE DEF r
<1>5. /\ stream' \in Seq(Stream) /\ Len(stream') = s
      /\ Streams = 1..Len(stream) /\ Streams' = 1..s
      /\ \A t \in Streams : stream'[t] = stream[t]
      /\ stream'[s] = r
  BY <1>1, <1>4, AppendFacts DEF WorkerTyped, Streams
<1>6. \A t \in Streams' : t \in Streams \/ t = s
  BY <1>2, <1>5
<1>7. BusesTyped'
  BY <1>1, <1>2, IssueFacts DEF BusesTyped
<1>8. UiTyped'
  BY <1>1, <1>2, <1>3 DEF UiTyped
<1>9. WorkerTyped'
  BY <1>1, <1>4, <1>5, <1>6 DEF WorkerTyped
<1>10. Known'
  <2>1. Streams \subseteq Streams' /\ s \in Streams'
    BY <1>2, <1>5
  <2>2. ASSUME NEW i \in DOMAIN cmds', cmds'[i].type = "start"
        PROVE  cmds'[i].stream \in Streams'
    <3>1. \/ i \in DOMAIN cmds /\ cmds'[i] = cmds[i]
          \/ cmds'[i].stream = s
      BY <1>1, <1>2, <2>2, IssueFacts
    <3>2. i \in DOMAIN cmds /\ cmds'[i] = cmds[i] => cmds[i].stream \in Streams
      BY <2>2 DEF Known
    <3>. QED BY <2>1, <3>1, <3>2
  <2>3. ASSUME NEW i \in DOMAIN events
        PROVE  events[i].stream \in Streams' /\ events[i].gen = stream'[events[i].stream].gen
    BY <1>5, <2>1 DEF Known
  <2>. QED BY <1>1, <2>2, <2>3 DEF Known
<1>11. Numbered'
  BY <1>1, <1>2, <1>3, <1>4, <1>5, <1>6 DEF Numbered
<1>12. StopIsLast' /\ OneLive'
  BY <1>1, <1>4, <1>5, <1>6 DEF StopIsLast, OneLive, Live
<1>. QED BY <1>7, <1>8, <1>9, <1>10, <1>11, <1>12

\* The tab comes and goes; a StopLogs goes behind all other commands.
LEMMA TabInv ==
    ASSUME IInv, Stop \/ OpenTab \/ CloseTab \/ Destroyed
    PROVE  IInv'
<1>. USE DEF IInv, Typed
<1>1. /\ UNCHANGED <<events, stream, slot, cancelled>>
      /\ cmds' \in {cmds, Issue("stop", 0)}
  BY DEF Stop, OpenTab, CloseTab, Destroyed, worker
<1>2. 0 \in 0..MaxStreams /\ Len(stream) \in Nat
  BY LogsAssumption DEF WorkerTyped
<1>3. /\ logs' \in Logs /\ Small(logs'.ring) /\ logs'.gen \in {0, logs.gen}
      /\ Stop => logs'.gen = logs.gen
      /\ OpenTab => logs'.gen = 0
  <2>1. CASE Stop
    <3>1. logs' = [logs EXCEPT !.running = FALSE] /\ ~OpenTab
      BY <2>1 DEF Stop, OpenTab
    <3>2. logs' \in Logs /\ logs'.gen = logs.gen /\ logs'.ring = logs.ring
      BY <3>1 DEF UiTyped, Logs
    <3>. QED BY <3>1, <3>2 DEF UiTyped
  <2>2. CASE OpenTab \/ CloseTab \/ Destroyed
    <3>1. logs' = FreshLogs /\ (Stop => open /\ open' = open)
      BY <2>2 DEF OpenTab, CloseTab, Destroyed, Stop
    <3>2. ~Stop
      BY <2>2, <3>1 DEF OpenTab, CloseTab, Destroyed, Stop, UiTyped
    <3>. QED BY <3>1, <3>2, FreshFacts
  <2>. QED BY <2>1, <2>2
<1>4. UiTyped'
  <2>1. open' \in BOOLEAN /\ unstopped' \in BOOLEAN
    BY DEF UiTyped, Stop, OpenTab, CloseTab, Destroyed
  <2>2. opened' \in 0..MaxTabs /\ latest' \in 0..MaxStreams
    BY LogsAssumption DEF UiTyped, Stop, OpenTab, CloseTab, Destroyed
  <2>. QED BY <1>3, <2>1, <2>2 DEF UiTyped
<1>5. BusesTyped'
  BY <1>1, <1>2, IssueFacts DEF BusesTyped
<1>6. WorkerTyped' /\ OneLive'
  BY <1>1 DEF WorkerTyped, Streams, OneLive, Live
<1>7. Known'
  <2>1. ASSUME NEW i \in DOMAIN cmds', cmds'[i].type = "start"
        PROVE  cmds'[i].stream \in Streams
    BY <1>1, <1>2, <2>1, IssueFacts DEF Known
  <2>. QED BY <1>1, <2>1 DEF Known, Streams
<1>8. Numbered'
  <2>1. logs'.gen <= Len(stream)
    BY <1>2, <1>3 DEF Numbered, UiTyped, Logs
  <2>2. CASE Stop
    BY <1>1, <1>3, <2>1, <2>2 DEF Stop, Numbered, Streams
  <2>3. CASE OpenTab
    BY <1>1, <1>3, <2>1, <2>3 DEF OpenTab, Numbered, Streams, UiTyped
  <2>4. CASE CloseTab \/ Destroyed
    BY <1>1, <2>1, <2>4 DEF CloseTab, Destroyed, Numbered, Streams
  <2>. QED BY <2>2, <2>3, <2>4
<1>9. StopIsLast'
  <2>1. CASE Stop \/ OpenTab \/ Destroyed
    BY <2>1 DEF Stop, OpenTab, Destroyed, StopIsLast
  <2>2. CASE CloseTab
    <3>1. ~unstopped' => Accepted
      BY <2>2 DEF CloseTab
    <3>2. cmds' = Issue("stop", 0)
      BY <2>2 DEF CloseTab
    <3>. QED BY <1>2, <3>1, <3>2, IssueFacts DEF StopIsLast
  <2>. QED BY <2>1, <2>2
<1>. QED BY <1>4, <1>5, <1>6, <1>7, <1>8, <1>9

\* The worker takes a command.
LEMMA DispatchInv ==
    ASSUME IInv, DispatchStart \/ DispatchStop
    PROVE  IInv'
<1>. USE DEF IInv, Typed
<1>1. /\ cmds # << >> /\ cmds' = Tail(cmds) /\ cmds \in Seq(Commands) /\ Len(cmds) <= CmdCap
      /\ UNCHANGED <<open, opened, logs, latest, unstopped, events>>
      /\ cancelled' = cancelled \cup ({slot} \ {0})
  BY DEF DispatchStart, DispatchStop, ui, BusesTyped
<1>2. /\ Head(cmds) = cmds[1] /\ 1 \in DOMAIN cmds /\ Head(cmds) \in Commands
      /\ cmds' \in Seq(Commands) /\ Len(cmds') = Len(cmds) - 1 /\ Len(cmds') <= CmdCap
      /\ \A i \in DOMAIN cmds' : i + 1 \in DOMAIN cmds /\ cmds'[i] = cmds[i + 1]
      /\ Len(cmds) \in Nat \ {0}
      /\ cmds' # << >> => Len(cmds') \in Nat \ {0} /\ cmds'[Len(cmds')] = cmds[Len(cmds)]
      /\ cmds' = << >> => Len(cmds) = 1
  <2>1. /\ Head(cmds) = cmds[1] /\ 1 \in DOMAIN cmds /\ Head(cmds) \in Commands
        /\ cmds' \in Seq(Commands) /\ Len(cmds') = Len(cmds) - 1
        /\ DOMAIN cmds' = 1..(Len(cmds) - 1) /\ Len(cmds) \in Nat \ {0}
        /\ \A i \in DOMAIN cmds' : i + 1 \in DOMAIN cmds /\ cmds'[i] = cmds[i + 1]
        /\ cmds' # << >> => Len(cmds') \in Nat \ {0}
    BY <1>1, TailFacts
  <2>2. Len(cmds') <= CmdCap
    BY <1>1, <2>1, LogsAssumption
  <2>3. cmds' # << >> => Len(cmds') \in DOMAIN cmds' /\ Len(cmds') + 1 = Len(cmds)
    BY <2>1
  <2>4. cmds' # << >> => cmds'[Len(cmds')] = cmds[Len(cmds)]
    BY <2>1, <2>3
  <2>5. cmds' = << >> => Len(cmds) = 1
    BY <2>1
  <2>. QED BY <2>1, <2>2, <2>4, <2>5
<1>3. /\ stream' \in Seq(Stream) /\ Len(stream') = Len(stream) /\ Streams' = Streams
      /\ Streams = 1..Len(stream)
      /\ \A s \in Streams : /\ stream'[s].gen = stream[s].gen
                            /\ stream'[s].ring = stream[s].ring
                            /\ stream'[s].follow = stream[s].follow
                            /\ stream'[s] = stream[s] \/ (slot' = s /\ Head(cmds).type = "start")
      /\ slot' \in 0..MaxStreams
      /\ Head(cmds).type = "stop" => slot' = 0
  <2>1. CASE DispatchStop
    BY <1>1, <2>1, LogsAssumption DEF DispatchStop, WorkerTyped, Streams
  <2>2. CASE DispatchStart
    <3>. DEFINE s == Head(cmds).stream
                r == [stream[s] EXCEPT !.stage = "reading", !.pump = stream[s].follow]
    <3>1. s \in Streams /\ Streams = 1..Len(stream) /\ stream \in Seq(Stream) /\ s \in 0..MaxStreams
      BY <1>2, <2>2 DEF Known, DispatchStart, WorkerTyped, Streams, Commands
    <3>2. stream[s] \in Stream
      BY <3>1, ElementOfSeq
    <3>3. /\ r \in Stream /\ r.gen = stream[s].gen /\ r.ring = stream[s].ring
          /\ r.follow = stream[s].follow
      BY <3>2 DEF Stream, Stages
    <3>4. stream' = [stream EXCEPT ![s] = r] /\ slot' = s /\ Head(cmds).type = "start"
      BY <2>2 DEF DispatchStart
    <3>. HIDE DEF r, s
    <3>5. /\ stream' \in Seq(Stream) /\ Len(stream') = Len(stream)
          /\ \A j \in 1..Len(stream) : stream'[j] = IF j = s THEN r ELSE stream[j]
      BY <3>1, <3>3, <3>4, ExceptSeq
    <3>6. Streams' = Streams
      BY <3>5 DEF Streams
    <3>. QED BY <3>1, <3>3, <3>4, <3>5, <3>6
  <2>. QED BY <2>1, <2>2
<1>4. UiTyped' /\ BusesTyped'
  BY <1>1, <1>2 DEF UiTyped, BusesTyped
<1>5. WorkerTyped'
  BY <1>1, <1>3 DEF WorkerTyped
<1>6. Known'
  <2>1. \A i \in DOMAIN cmds' : cmds'[i].type = "start" => cmds'[i].stream \in Streams
    BY <1>2 DEF Known
  <2>. QED BY <1>1, <1>3, <2>1 DEF Known
<1>7. Numbered'
  BY <1>1, <1>3 DEF Numbered
<1>8. StopIsLast'
  BY <1>1, <1>2, <1>3 DEF StopIsLast
<1>9. OneLive'
  <2>. SUFFICES ASSUME NEW s \in Streams, Live(s)' PROVE slot' = s
    BY <1>3 DEF OneLive
  <2>1. CASE stream'[s] = stream[s]
    <3>1. (Live(s) /\ s # slot) \/ s = 0
      BY <1>1, <2>1 DEF Live
    <3>2. s # 0
      BY <1>3 DEF WorkerTyped
    <3>. QED BY <3>1, <3>2 DEF OneLive
  <2>. QED BY <1>3, <2>1
<1>. QED BY <1>4, <1>5, <1>6, <1>7, <1>8, <1>9

\* A step of one task: it goes on or ends, and keeps its generation.
LEMMA TaskStep ==
    ASSUME IInv, NEW s \in Streams, NEW r \in Stream, Small(r.ring), With(s, r), TaskOnly,
           r.gen = stream[s].gen, r.follow = stream[s].follow,
           r.stage \in {"reading", "joining"} => stream[s].stage \in {"reading", "joining"},
           events' = events \/ \E line \in 0..MaxLines :
               events' = Append(events, Event(s, line)) /\ Len(events) < EventCap
    PROVE  IInv'
<1>. USE DEF IInv, Typed
<1>1. UNCHANGED <<open, opened, logs, latest, unstopped, cmds, slot, cancelled>>
  BY DEF TaskOnly, ui
<1>2. /\ stream' \in Seq(Stream) /\ Len(stream') = Len(stream) /\ Streams' = Streams
      /\ Streams = 1..Len(stream) /\ stream'[s] = r
      /\ \A t \in Streams : t # s => stream'[t] = stream[t]
  <2>1. stream \in Seq(Stream) /\ Streams = 1..Len(stream) /\ stream' = [stream EXCEPT ![s] = r]
    BY DEF WorkerTyped, Streams, With
  <2>2. /\ stream' \in Seq(Stream) /\ Len(stream') = Len(stream)
        /\ \A j \in 1..Len(stream) : stream'[j] = IF j = s THEN r ELSE stream[j]
    BY <2>1, ExceptSeq
  <2>. QED BY <2>1, <2>2 DEF Streams
<1>3. \A t \in Streams : stream'[t].gen = stream[t].gen
  BY <1>2
<1>4. /\ events' \in Seq(Events) /\ Len(events') <= EventCap
      /\ \A i \in DOMAIN events' : /\ events'[i].stream \in Streams
                                   /\ events'[i].gen = stream[events'[i].stream].gen
  <2>1. events \in Seq(Events) /\ Len(events) <= EventCap
    BY DEF BusesTyped
  <2>2. CASE events' = events
    BY <2>1, <2>2 DEF Known
  <2>3. ASSUME NEW line \in 0..MaxLines, Len(events) < EventCap,
               events' = Append(events, Event(s, line))
        PROVE  /\ events' \in Seq(Events) /\ Len(events') <= EventCap
               /\ \A i \in DOMAIN events' : /\ events'[i].stream \in Streams
                                            /\ events'[i].gen = stream[events'[i].stream].gen
    <3>. DEFINE e == Event(s, line)
    <3>1. stream[s].gen \in 1..MaxStreams /\ s \in 1..MaxStreams
      <4>1. s \in 1..Len(stream) /\ stream \in Seq(Stream) /\ Len(stream) <= MaxStreams
        BY <1>2 DEF WorkerTyped
      <4>2. stream[s] \in Stream
        BY <4>1, ElementOfSeq
      <4>. QED BY <4>1, <4>2, LogsAssumption DEF Stream
    <3>2. e \in Events /\ e.stream = s /\ e.gen = stream[s].gen
      BY <3>1 DEF Event, Events
    <3>. HIDE DEF e
    <3>3. /\ events' \in Seq(Events) /\ Len(events') = Len(events) + 1 /\ Len(events) \in Nat
          /\ DOMAIN events = 1..Len(events) /\ DOMAIN events' = 1..(Len(events) + 1)
          /\ \A i \in DOMAIN events : events'[i] = events[i]
          /\ events'[Len(events) + 1] = e
      BY <2>1, <2>3, <3>2, AppendFacts DEF e
    <3>4. \A i \in DOMAIN events' : (i \in DOMAIN events /\ events'[i] = events[i]) \/ events'[i] = e
      BY <3>3
    <3>5. Len(events') <= EventCap
      <4>1. EventCap \in Nat /\ Len(events) < EventCap
        BY <2>3, LogsAssumption
      <4>2. Len(events') = Len(events) + 1 /\ Len(events) \in Nat
        BY <3>3
      <4>. QED BY <4>1, <4>2
    <3>6. ASSUME NEW i \in DOMAIN events'
          PROVE  events'[i].stream \in Streams
                 /\ events'[i].gen = stream[events'[i].stream].gen
      BY <3>2, <3>4 DEF Known
    <3>. QED BY <3>3, <3>5, <3>6
  <2>. QED BY <2>2, <2>3
<1>5. UiTyped' /\ BusesTyped' /\ WorkerTyped'
  BY <1>1, <1>2, <1>4 DEF UiTyped, BusesTyped, WorkerTyped
<1>6. Known'
  BY <1>1, <1>2, <1>3, <1>4 DEF Known
<1>7. Numbered' /\ StopIsLast'
  BY <1>1, <1>2, <1>3 DEF Numbered, StopIsLast
<1>8. OneLive'
  BY <1>1, <1>2 DEF OneLive, Live
<1>. QED BY <1>5, <1>6, <1>7, <1>8

\* The fields of a stream.
LEMMA StreamFacts ==
    ASSUME IInv, NEW s \in Streams
    PROVE  stream[s] \in Stream /\ Small(stream[s].ring)
<1>1. s \in 1..Len(stream) /\ stream \in Seq(Stream)
  BY DEF IInv, Typed, WorkerTyped, Streams
<1>. QED BY <1>1, ElementOfSeq DEF IInv, Typed, WorkerTyped

LEMMA LineInv ==
    ASSUME IInv, NEW s \in Streams, Line(s)
    PROVE  IInv'
<1>. DEFINE n == stream[s].made + 1
            ringed == [stream[s] EXCEPT !.made = n, !.ring = Pushed(@, n)]
            batched == [stream[s] EXCEPT !.made = n, !.batch = Append(@, n)]
<1>1. n \in 1..MaxLines /\ n \in 0..MaxLines
  BY StreamFacts, LogsAssumption DEF Line, Stream
<1>2. /\ Pushed(stream[s].ring, n) \in Seq(1..MaxLines) /\ Small(Pushed(stream[s].ring, n))
      /\ Append(stream[s].batch, n) \in Seq(1..MaxLines)
  <2>. DEFINE ring == stream[s].ring
              batch == stream[s].batch
  <2>1. ring \in Seq(1..MaxLines) /\ Small(ring) /\ batch \in Seq(1..MaxLines)
    BY StreamFacts DEF Stream
  <2>. HIDE DEF ring, batch
  <2>2. /\ Pushed(ring, n) \in Seq(1..MaxLines) /\ Small(Pushed(ring, n))
        /\ Append(batch, n) \in Seq(1..MaxLines)
    BY <1>1, <2>1, PushedFacts, AppendFacts
  <2>. QED BY <2>2 DEF ring, batch
<1>. HIDE DEF n
<1>3. /\ ringed \in Stream /\ Small(ringed.ring) /\ ringed.gen = stream[s].gen
      /\ ringed.follow = stream[s].follow /\ ringed.stage = stream[s].stage
  BY <1>1, <1>2, StreamFacts DEF Stream
<1>4. /\ batched \in Stream /\ Small(batched.ring) /\ batched.gen = stream[s].gen
      /\ batched.follow = stream[s].follow /\ batched.stage = stream[s].stage
  BY <1>1, <1>2, StreamFacts DEF Stream
<1>5. TaskOnly /\ events' = events /\ With(s, IF stream[s].follow THEN ringed ELSE batched)
  BY DEF Line, n
<1>. HIDE DEF ringed, batched
<1>6. CASE stream[s].follow
  <2>1. With(s, ringed)
    BY <1>5, <1>6
  <2>2. ringed.stage \in {"reading", "joining"} => stream[s].stage \in {"reading", "joining"}
    BY <1>3
  <2>. QED BY <1>3, <1>5, <2>1, <2>2, TaskStep
<1>7. CASE ~stream[s].follow
  <2>1. With(s, batched)
    BY <1>5, <1>7
  <2>2. batched.stage \in {"reading", "joining"} => stream[s].stage \in {"reading", "joining"}
    BY <1>4
  <2>. QED BY <1>4, <1>5, <2>1, <2>2, TaskStep
<1>. QED BY <1>6, <1>7

\* The process is gone, by itself or by its token: the task goes on to its end.
LEMMA EndInv ==
    ASSUME IInv, NEW s \in Streams, ProcessEnds(s) \/ SeesCancel(s)
    PROVE  IInv'
<1>. DEFINE joining == [stream[s] EXCEPT !.stage = "joining"]
            printing(lines) == [stream[s] EXCEPT !.stage = "printing", !.batch = lines]
<1>1. /\ joining \in Stream /\ Small(joining.ring) /\ joining.gen = stream[s].gen
      /\ joining.follow = stream[s].follow
  BY StreamFacts DEF Stream, Stages
<1>2. ASSUME NEW lines \in {stream[s].batch, << >>}
      PROVE  /\ printing(lines) \in Stream /\ Small(printing(lines).ring)
             /\ printing(lines).gen = stream[s].gen
             /\ printing(lines).follow = stream[s].follow
             /\ printing(lines).stage = "printing"
  <2>1. lines \in Seq(1..MaxLines)
    BY <1>2, StreamFacts, EmptySeq DEF Stream
  <2>. QED BY <2>1, StreamFacts DEF Stream, Stages
<1>3. /\ TaskOnly /\ events' = events /\ stream[s].stage = "reading"
      /\ With(s, joining) \/ \E lines \in {stream[s].batch, << >>} : With(s, printing(lines))
  BY DEF ProcessEnds, SeesCancel
<1>. HIDE DEF joining, printing
<1>4. CASE With(s, joining)
  <2>1. joining.stage \in {"reading", "joining"} => stream[s].stage \in {"reading", "joining"}
    BY <1>3
  <2>. QED BY <1>1, <1>3, <1>4, <2>1, TaskStep
<1>5. ASSUME NEW lines \in {stream[s].batch, << >>}, With(s, printing(lines))
      PROVE  IInv'
  <2>1. printing(lines).stage \in {"reading", "joining"} =>
          stream[s].stage \in {"reading", "joining"}
    BY <1>2
  <2>. QED BY <1>2, <1>3, <1>5, <2>1, TaskStep
<1>. QED BY <1>3, <1>4, <1>5

LEMMA PumpInv ==
    ASSUME IInv, NEW s \in Streams, Pump(s) \/ PumpStops(s)
    PROVE  IInv'
<1>. DEFINE pumped == [stream[s] EXCEPT !.batch = stream[s].ring, !.ring = << >>]
            stopped == [stream[s] EXCEPT !.pump = FALSE]
<1>1. /\ pumped \in Stream /\ pumped.ring = << >> /\ pumped.gen = stream[s].gen
      /\ pumped.follow = stream[s].follow /\ pumped.stage = stream[s].stage
  <2>1. << >> \in Seq(1..MaxLines)
    BY EmptySeq
  <2>. QED BY <2>1, StreamFacts DEF Stream
<1>2. /\ stopped \in Stream /\ stopped.ring = stream[s].ring /\ stopped.gen = stream[s].gen
      /\ stopped.follow = stream[s].follow /\ stopped.stage = stream[s].stage
  BY StreamFacts DEF Stream
<1>3. TaskOnly /\ events' = events /\ (With(s, pumped) \/ With(s, stopped))
  BY DEF Pump, PumpStops
<1>. HIDE DEF pumped, stopped
<1>4. Small(pumped.ring) /\ Small(stopped.ring)
  <2>1. Small(<< >>)
    BY LogsAssumption DEF Small
  <2>. QED BY <1>1, <1>2, <2>1, StreamFacts
<1>5. CASE With(s, pumped)
  <2>1. pumped.stage \in {"reading", "joining"} => stream[s].stage \in {"reading", "joining"}
    BY <1>1
  <2>. QED BY <1>1, <1>3, <1>4, <1>5, <2>1, TaskStep
<1>6. CASE With(s, stopped)
  <2>1. stopped.stage \in {"reading", "joining"} => stream[s].stage \in {"reading", "joining"}
    BY <1>2
  <2>. QED BY <1>2, <1>3, <1>4, <1>6, <2>1, TaskStep
<1>. QED BY <1>3, <1>5, <1>6

\* A line or the end goes on the bus, or is lost.
LEMMA EmitInv ==
    ASSUME IInv, NEW s \in Streams, Emit(s) \/ Report(s)
    PROVE  IInv'
<1>. DEFINE emitted == [stream[s] EXCEPT !.batch = Tail(@)]
            over(stage) == [stream[s] EXCEPT !.stage = stage]
<1>1. CASE Emit(s)
  <2>1. /\ stream[s].batch \in Seq(1..MaxLines) /\ stream[s].batch # << >>
        /\ Tail(stream[s].batch) \in Seq(1..MaxLines) /\ Head(stream[s].batch) \in 0..MaxLines
    <3>1. stream[s].batch \in Seq(1..MaxLines) /\ stream[s].batch # << >>
      BY <1>1, StreamFacts DEF Emit, Stream
    <3>2. Tail(stream[s].batch) \in Seq(1..MaxLines) /\ Head(stream[s].batch) \in 1..MaxLines
      BY <3>1, TailFacts
    <3>. QED BY <3>1, <3>2
  <2>2. /\ emitted \in Stream /\ emitted.ring = stream[s].ring /\ emitted.gen = stream[s].gen
        /\ emitted.follow = stream[s].follow /\ emitted.stage = stream[s].stage
    BY <2>1, StreamFacts DEF Stream
  <2>3. /\ TaskOnly /\ With(s, emitted)
        /\ events' = events \/ \E line \in 0..MaxLines :
             events' = Append(events, Event(s, line)) /\ Len(events) < EventCap
    BY <1>1, <2>1 DEF Emit, Room
  <2>. HIDE DEF emitted
  <2>4. Small(emitted.ring)
    BY <2>2, StreamFacts
  <2>5. emitted.stage \in {"reading", "joining"} => stream[s].stage \in {"reading", "joining"}
    BY <2>2
  <2>. QED BY <2>2, <2>3, <2>4, <2>5, TaskStep
<1>2. CASE Report(s)
  <2>1. ASSUME NEW stage \in {"reported", "lost"}
        PROVE  /\ over(stage) \in Stream /\ over(stage).ring = stream[s].ring
               /\ over(stage).gen = stream[s].gen /\ over(stage).follow = stream[s].follow
               /\ over(stage).stage = stage
    BY StreamFacts DEF Stream, Stages
  <2>2. PICK stage \in {"reported", "lost"} :
           /\ With(s, over(stage)) /\ TaskOnly
           /\ events' = events \/ (events' = Append(events, Event(s, 0)) /\ Len(events) < EventCap)
    BY <1>2 DEF Report, Room
  <2>. HIDE DEF over
  <2>3. events' = events \/ \E line \in 0..MaxLines :
             events' = Append(events, Event(s, line)) /\ Len(events) < EventCap
    BY <2>2, LogsAssumption
  <2>4. Small(over(stage).ring)
    BY <2>1, StreamFacts
  <2>5. over(stage).stage \notin {"reading", "joining"}
    BY <2>1
  <2>. QED BY <2>1, <2>2, <2>3, <2>4, <2>5, TaskStep
<1>. QED BY <1>1, <1>2

\* The tab takes an event; in the first tab one of another stream has no effect.
LEMMA HandleInv ==
    ASSUME IInv, Handle
    PROVE  IInv' /\ (opened <= 1 /\ Head(events).stream # latest => logs' = logs)
<1>. DEFINE e == Head(events)
<1>. USE DEF IInv, Typed
<1>1. /\ events # << >> /\ events' = Tail(events) /\ events \in Seq(Events)
      /\ Len(events) <= EventCap
      /\ UNCHANGED <<open, opened, latest, unstopped, cmds, stream, slot, cancelled>>
  BY DEF Handle, worker, BusesTyped
<1>2. /\ e = events[1] /\ 1 \in DOMAIN events /\ e \in Events
      /\ events' \in Seq(Events) /\ Len(events') = Len(events) - 1 /\ Len(events) \in Nat \ {0}
      /\ \A i \in DOMAIN events' : i + 1 \in DOMAIN events /\ events'[i] = events[i + 1]
  BY <1>1, TailFacts
<1>3. Len(events') <= EventCap
  BY <1>1, <1>2, LogsAssumption
<1>. HIDE DEF e
<1>4. e.stream \in Streams /\ e.gen = stream[e.stream].gen
  BY <1>2 DEF Known
<1>5. \/ logs' = logs
      \/ /\ open /\ e.gen = logs.gen
         /\ logs' \in Logs /\ Small(logs'.ring) /\ logs'.gen = logs.gen
  <2>1. CASE ~open \/ e.gen # logs.gen
    BY <2>1 DEF Handle, e
  <2>2. CASE open /\ e.gen = logs.gen /\ e.line = 0
    <3>1. logs' = [logs EXCEPT !.running = FALSE, !.ended = TRUE]
      BY <2>2 DEF Handle, e
    <3>2. logs' \in Logs /\ logs'.ring = logs.ring /\ logs'.gen = logs.gen
      BY <3>1 DEF UiTyped, Logs
    <3>. QED BY <2>2, <3>2 DEF UiTyped
  <2>3. CASE open /\ e.gen = logs.gen /\ e.line # 0
    <3>. DEFINE line == [stream |-> e.stream, line |-> e.line]
    <3>1. logs' = [logs EXCEPT !.ring = Pushed(@, line)]
      BY <2>3 DEF Handle, e
    <3>2. line \in Lines
      BY <1>2, <2>3, LogsAssumption DEF Events, Lines
    <3>3. Pushed(logs.ring, line) \in Seq(Lines) /\ Small(Pushed(logs.ring, line))
      BY <3>2, PushedFacts DEF UiTyped, Logs
    <3>. HIDE DEF line
    <3>4. logs' \in Logs /\ logs'.ring = Pushed(logs.ring, line) /\ logs'.gen = logs.gen
      BY <3>1, <3>3 DEF UiTyped, Logs
    <3>. QED BY <2>3, <3>3, <3>4
  <2>. QED BY <2>1, <2>2, <2>3
<1>6. UiTyped' /\ BusesTyped' /\ WorkerTyped'
  BY <1>1, <1>2, <1>3, <1>5 DEF UiTyped, BusesTyped, WorkerTyped, Streams
<1>7. Known'
  <2>1. \A i \in DOMAIN events' : /\ events'[i].stream \in Streams
                                  /\ events'[i].gen = stream[events'[i].stream].gen
    BY <1>2 DEF Known
  <2>. QED BY <1>1, <2>1 DEF Known, Streams
<1>8. Numbered' /\ StopIsLast' /\ OneLive'
  <2>1. logs'.gen = logs.gen
    BY <1>5
  <2>. QED BY <1>1, <2>1 DEF Numbered, StopIsLast, OneLive, Live, Streams
<1>9. opened <= 1 /\ e.stream # latest => logs' = logs
  BY <1>4, <1>5 DEF Numbered
<1>. QED BY <1>6, <1>7, <1>8, <1>9 DEF e

LEMMA StepInv == IInv /\ [Next]_vars => IInv'
<1>. SUFFICES ASSUME IInv, [Next]_vars PROVE IInv'
  OBVIOUS
<1>1. CASE \E follow \in BOOLEAN : Start(follow) \/ Change(follow)
  BY <1>1, AskInv
<1>2. CASE Stop \/ OpenTab \/ CloseTab \/ Destroyed
  BY <1>2, TabInv
<1>3. CASE DispatchStart \/ DispatchStop
  BY <1>3, DispatchInv
<1>4. CASE \E s \in Streams : Line(s) \/ Task(s)
  BY <1>4, LineInv, EndInv, PumpInv, EmitInv DEF Task
<1>5. CASE Handle
  BY <1>5, HandleInv
<1>6. CASE UNCHANGED vars
  <2>1. UNCHANGED <<open, opened, logs, latest, unstopped, cmds, events, stream, slot, cancelled>>
    BY <1>6 DEF vars
  <2>. QED BY <2>1 DEF IInv, Typed, UiTyped, BusesTyped, WorkerTyped, Known, Numbered,
                       StopIsLast, OneLive, Live, Streams
<1>. QED BY <1>1, <1>2, <1>3, <1>4, <1>5, <1>6 DEF Next

\* Only Handle takes an event off the bus.
LEMMA HandlesAlone ==
    ASSUME IInv, [Next]_vars, events # << >>, events' = Tail(events)
    PROVE  Handle
<1>0. \A n \in Nat : n - 1 # n /\ n - 1 # n + 1
  OBVIOUS
<1>1. /\ events \in Seq(Events) /\ Len(events) \in Nat /\ Len(events') = Len(events) - 1
      /\ events' # events
  <2>1. events \in Seq(Events)
    BY DEF IInv, Typed, BusesTyped
  <2>2. Len(events) \in Nat /\ Len(events') = Len(events) - 1
    BY <2>1, TailFacts
  <2>3. events' = events => Len(events') = Len(events)
    OBVIOUS
  <2>4. Len(events) - 1 # Len(events)
    BY <1>0, <2>2
  <2>5. events' # events
    BY <2>2, <2>3, <2>4, Zenon
  <2>. QED BY <2>1, <2>2, <2>5
<1>2. \A x : events' # Append(events, x)
  <2>. SUFFICES ASSUME NEW x, events' = Append(events, x) PROVE FALSE
    OBVIOUS
  <2>1. Len(Append(events, x)) = Len(events) + 1
    <3>1. events \in Seq(Events \cup {x})
      BY <1>1, SeqMonotonic
    <3>. QED BY <3>1, AppendFacts
  <2>2. Len(events') = Len(events) + 1
    BY <2>1
  <2>3. Len(events) - 1 # Len(events) + 1
    BY <1>0, <1>1
  <2>. QED BY <1>1, <2>2, <2>3, Zenon
<1>. QED BY <1>1, <1>2 DEF Next, Start, Change, AskFor, Stop, OpenTab, CloseTab, Destroyed,
              DispatchStart, DispatchStop, Line, Task, ProcessEnds, SeesCancel, Pump, PumpStops,
              Emit, Report, vars

-----------------------------------------------------------------------------
\* Every variable keeps its type, and neither a bus nor a ring grows over its
\* capacity.
THEOREM TypeCorrect == Spec => []TypeOK
<1>1. IInv => TypeOK
  <2>. SUFFICES ASSUME IInv PROVE TypeOK
    OBVIOUS
  <2>1. ASSUME NEW s \in Streams
        PROVE  /\ stream[s].gen \in 1..MaxStreams /\ stream[s].follow \in BOOLEAN
               /\ stream[s].stage \in Stages /\ stream[s].made \in 0..MaxLines
               /\ stream[s].ring \in Seq(1..MaxLines) /\ Len(stream[s].ring) <= RingCap
               /\ stream[s].batch \in Seq(1..MaxLines)
               /\ stream[s].pump \in BOOLEAN
    BY StreamFacts DEF Stream, Small
  <2>2. Streams \subseteq 1..MaxStreams
    BY LogsAssumption DEF IInv, Typed, WorkerTyped, Streams
  <2>3. /\ logs.gen \in 0..MaxStreams /\ logs.running \in BOOLEAN /\ logs.ended \in BOOLEAN
        /\ logs.ring \in Seq(Lines) /\ Len(logs.ring) <= RingCap
    BY DEF IInv, Typed, UiTyped, Logs, Small
  <2>. QED BY <2>1, <2>2, <2>3 DEF IInv, Typed, UiTyped, BusesTyped, WorkerTyped, TypeOK
<1>. QED BY <1>1, InitInv, StepInv, PTL DEF Spec

\* Every follow-mode task that goes on is the one whose token the worker holds,
\* and after the tab of the cluster is gone none goes on once the bus is empty,
\* unless the StopLogs was never sent: op_token fires what it replaces, and
\* close_tab's StopLogs goes behind every StartLogs of the tab.
THEOREM StreamsBelong == Spec => []StreamsBelongToTheTab
<1>1. IInv => StreamsBelongToTheTab
  <2>. SUFFICES ASSUME IInv, NEW s \in Streams, Live(s)
                PROVE  slot = s /\ (open \/ unstopped \/ cmds # << >>)
    BY DEF StreamsBelongToTheTab
  <2>1. slot = s
    BY DEF IInv, OneLive
  <2>2. s # 0
    BY DEF IInv, Typed, WorkerTyped, Streams
  <2>. QED BY <2>1, <2>2 DEF IInv, StopIsLast
<1>. QED BY <1>1, InitInv, StepInv, PTL DEF Spec

\* The first tab of a cluster takes in nothing of a stream it has replaced,
\* however late its lines and its end arrive.
THEOREM ReplacedAreDropped == Spec => ReplacedStreamsAreDropped
<1>1. IInv /\ [Next]_vars =>
        [opened <= 1 /\ events # << >> /\ events' = Tail(events) /\ Head(events).stream # latest
           => logs' = logs]_vars
  BY HandlesAlone, HandleInv
<1>. QED BY <1>1, InitInv, StepInv, PTL DEF Spec, ReplacedStreamsAreDropped
=============================================================================
