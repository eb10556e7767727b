--------------------------- MODULE OpPanels_proofs ---------------------------
(***************************************************************************)
(* Proofs about OpPanels, for all capacities of the two buses and any      *)
(* number of operations and progress events.                               *)
(***************************************************************************)
EXTENDS OpPanels, FiniteSetTheorems, TLAPS

\* TypeOK but for the bound of what a panel shows, which needs ProgressCounted.
Typed ==
    /\ op_gen \in 0..MaxOps
    /\ panel \in [gen : 0..MaxOps, kind : Kinds, finished : {"running"} \cup Outcomes, shown : Nat]
    /\ tab \in BOOLEAN
    /\ cmds \in Seq(Commands) /\ Len(cmds) <= CmdCap
    /\ events \in Seq(Events) /\ Len(events) <= EventCap
    /\ task \in [Gens -> Tasks] /\ \A g \in Gens : task[g].waiting <= task[g].sent
    /\ slots \in [Kinds -> 0..MaxOps]
    /\ cancelled \subseteq Gens
    /\ asked \in 0..MaxOps

\* The panel is the one of the latest operation, if there is one.
LatestShown ==
    /\ panel.gen \in {0, op_gen}
    /\ panel.gen = 0 => panel.finished = "running" /\ panel.shown = 0
    /\ asked <= op_gen

\* What the worker will find on its bus: operations it has not started, in the
\* order of their generations and after all those of the slots; and before a
\* Cancel, as in the slots, only what was there when it was clicked.
Waits(cmd) ==
    /\ cmd.gen \in Gens
    /\ task[cmd.gen].stage = "queued" /\ task[cmd.gen].kind = cmd.type
    /\ \A k \in Kinds : slots[k] < cmd.gen
Orderly(queue) ==
    /\ \A i \in DOMAIN queue : queue[i].type \in Kinds => Waits(queue[i])
    /\ \A i, j \in DOMAIN queue :
          i < j /\ queue[i].type \in Kinds /\ queue[j].type \in Kinds =>
            queue[i].gen < queue[j].gen
    /\ \A i \in DOMAIN queue : queue[i].type = "cancel" =>
          /\ \A k \in Kinds : slots[k] <= asked
          /\ \A j \in DOMAIN queue : j < i => queue[j].gen <= asked

SlotsOfTheirKind ==
    \A k \in Kinds : slots[k] # 0 => slots[k] \in Gens /\ task[slots[k]].kind = k

\* What the UI will find on its bus: outcomes are those their tasks reported,
\* and nothing of a generation follows its outcome.
Told(event) ==
    /\ event.gen \in Gens
    /\ event.type \in Outcomes =>
         task[event.gen].stage = "reported" /\ task[event.gen].result = event.type
OutcomesAreLast(queue) ==
    /\ \A i \in DOMAIN queue : Told(queue[i])
    /\ \A i, j \in DOMAIN queue :
          i < j /\ queue[i].type \in Outcomes => queue[j].gen # queue[i].gen
    /\ panel.finished # "running" => \A i \in DOMAIN queue : queue[i].gen # panel.gen
FinalTask(t) ==
    /\ t.stage = "finishing" => t.result \in Outcomes
    /\ t.stage = "reported" => t.waiting = 0
ForwardersDone == \A g \in Gens : FinalTask(task[g])

CancelInv == LatestShown /\ Orderly(cmds) /\ SlotsOfTheirKind /\ NobodyIsCancelledUnasked
EventInv == ItsOwn /\ OutcomesAreLast(events) /\ ForwardersDone

IInv == Typed /\ CancelInv /\ EventInv

-----------------------------------------------------------------------------
(* Queues.                                                                 *)

LEMMA AppendFacts ==
    ASSUME NEW S, NEW q \in Seq(S), NEW e \in S
    PROVE  /\ Append(q, e) \in Seq(S)
           /\ Len(q) \in Nat /\ Len(Append(q, e)) = Len(q) + 1
           /\ DOMAIN q = 1..Len(q) /\ DOMAIN Append(q, e) = 1..(Len(q) + 1)
           /\ \A i \in DOMAIN q : q[i] \in S /\ Append(q, e)[i] = q[i]
           /\ Append(q, e)[Len(q) + 1] = e
OBVIOUS

LEMMA TailFacts ==
    ASSUME NEW S, NEW q \in Seq(S), q # << >>
    PROVE  /\ Tail(q) \in Seq(S) /\ Head(q) = q[1] /\ Head(q) \in S
           /\ Len(q) \in Nat \ {0} /\ Len(Tail(q)) = Len(q) - 1
           /\ DOMAIN q = 1..Len(q) /\ DOMAIN Tail(q) = 1..(Len(q) - 1)
           /\ \A i \in DOMAIN Tail(q) : i + 1 \in DOMAIN q /\ Tail(q)[i] = q[i + 1]
           /\ \A i \in DOMAIN q : q[i] \in S
OBVIOUS

LEMMA CommandFacts ==
    /\ CancelOp \in Commands /\ CancelOp.type = "cancel" /\ CancelOp.gen = 0
    /\ Other \in Commands /\ Other.type = "other" /\ Other.gen = 0
    /\ \A c \in Commands : /\ c.gen \in 0..MaxOps
                           /\ c.type \in Kinds \cup {"cancel", "other"}
                           /\ c.type \in Kinds => c.gen \in 1..MaxOps
                           /\ c.type \notin Kinds => c.gen = 0
BY PanelsAssumption DEF CancelOp, Other, Commands, Kinds

\* One more command of a kind that no state depends on.
LEMMA IssueOther ==
    ASSUME NEW q \in Seq(Commands), Len(q) <= CmdCap, Orderly(q)
    PROVE  /\ Issue(q, Other) \in Seq(Commands) /\ Len(Issue(q, Other)) <= CmdCap
           /\ Orderly(Issue(q, Other))
<1>. DEFINE r == Append(q, Other)
<1>1. CASE Issue(q, Other) = q
  BY <1>1
<1>2. CASE Issue(q, Other) = r /\ Len(q) < CmdCap
  <2>1. /\ r \in Seq(Commands) /\ Len(r) <= CmdCap
        /\ DOMAIN q = 1..Len(q) /\ DOMAIN r = 1..(Len(q) + 1) /\ Len(q) \in Nat
        /\ \A i \in DOMAIN q : r[i] = q[i]
        /\ r[Len(q) + 1].type = "other" /\ r[Len(q) + 1].gen = 0
    BY <1>2, AppendFacts, CommandFacts, PanelsAssumption
  <2>2. \A i \in DOMAIN r : r[i].type # "other" => i \in DOMAIN q /\ r[i] = q[i]
    BY <2>1
  <2>3. \A i \in DOMAIN r : r[i].type \in Kinds \cup {"cancel"} => i \in DOMAIN q /\ r[i] = q[i]
    BY <2>2 DEF Kinds
  <2>4. \A i \in DOMAIN q, j \in DOMAIN r : j < i => j \in DOMAIN q /\ r[j] = q[j]
    BY <2>1
  <2>5. Orderly(r)
    <3>. HIDE DEF r
    <3>1. \A i \in DOMAIN r : r[i].type \in Kinds => Waits(r[i])
      BY <2>3 DEF Orderly
    <3>2. \A i, j \in DOMAIN r :
             i < j /\ r[i].type \in Kinds /\ r[j].type \in Kinds => r[i].gen < r[j].gen
      BY <2>3 DEF Orderly
    <3>3. \A i \in DOMAIN r : r[i].type = "cancel" =>
             /\ \A k \in Kinds : slots[k] <= asked
             /\ \A j \in DOMAIN r : j < i => r[j].gen <= asked
      BY <2>3, <2>4 DEF Orderly
    <3>. QED BY <3>1, <3>2, <3>3 DEF Orderly
  <2>. QED BY <1>2, <2>1, <2>5
<1>. QED BY <1>1, <1>2 DEF Issue, Accepted

\* What FollowUp, OpenTab and CloseTab put on the bus.
LEMMA IssueOthers ==
    ASSUME NEW q \in Seq(Commands), Len(q) <= CmdCap, Orderly(q),
           NEW r, r \in {q, Issue(q, Other), Issue(Issue(q, Other), Other),
                         WithFirstProbes(q), WithFirstProbes(Issue(q, Other))}
    PROVE  r \in Seq(Commands) /\ Len(r) <= CmdCap /\ Orderly(r)
<1>. DEFINE q1 == Issue(q, Other)
            q2 == Issue(q1, Other)
            q3 == Issue(q2, Other)
<1>1. q1 \in Seq(Commands) /\ Len(q1) <= CmdCap /\ Orderly(q1)
  BY IssueOther
<1>2. q2 \in Seq(Commands) /\ Len(q2) <= CmdCap /\ Orderly(q2)
  <2>. HIDE DEF q1
  <2>. QED BY <1>1, IssueOther
<1>3. q3 \in Seq(Commands) /\ Len(q3) <= CmdCap /\ Orderly(q3)
  <2>. HIDE DEF q2
  <2>. QED BY <1>2, IssueOther
<1>. QED BY <1>1, <1>2, <1>3 DEF WithFirstProbes

\* With the counter, the tasks, the slots and the question unchanged, the bus
\* of the worker is in order if it was put in order.
LEMMA KeepsOrder ==
    ASSUME UNCHANGED <<op_gen, task, slots, asked>>, NEW q, Orderly(q), cmds' = q
    PROVE  Orderly(cmds)'
BY DEF Orderly, Waits, Gens

\* As long as the tasks stay the same or go on, the cancelled stay justified.
LEMMA StillAsked ==
    ASSUME Typed, CancelInv, cancelled' = cancelled,
           op_gen' \in Nat, op_gen' >= op_gen, asked' \in Nat, asked' >= asked,
           \A g \in Gens : task'[g].kind = task[g].kind
                           /\ (task[g].stage # "dropped" => task'[g].stage # "dropped")
    PROVE  NobodyIsCancelledUnasked'
<1>. SUFFICES ASSUME NEW g \in cancelled
              PROVE  \/ g <= asked'
                     \/ \E h \in Gens' : h > g /\ task'[h].kind = task'[g].kind
                                                /\ task'[h].stage # "dropped"
  BY DEF NobodyIsCancelledUnasked
<1>0. g \in Gens /\ g \in Nat /\ asked \in Nat /\ Gens \subseteq Gens'
  BY PanelsAssumption DEF Typed, Gens
<1>1. CASE g <= asked
  BY <1>0, <1>1
<1>2. CASE \E h \in Gens : h > g /\ task[h].kind = task[g].kind /\ task[h].stage # "dropped"
  BY <1>0, <1>2
<1>. QED BY <1>1, <1>2 DEF CancelInv, NobodyIsCancelledUnasked

\* A step of one task.
Stages == {"queued", "dropped", "running", "finishing", "reported", "lost"}
LEMMA TaskStep ==
    ASSUME Typed, NEW g \in Gens, NEW t \in Tasks,
           task' = [task EXCEPT ![g] = t], op_gen' = op_gen
    PROVE  /\ task' \in [Gens' -> Tasks] /\ task'[g] = t
           /\ \A h \in Gens : h # g => task'[h] = task[h]
BY DEF Typed, Gens

-----------------------------------------------------------------------------
(* Each step keeps the invariant.                                          *)

LEMMA InitInv == Init => IInv
<1>. SUFFICES ASSUME Init PROVE IInv
  OBVIOUS
<1>1. Typed
  <2>1. panel = [gen |-> 0, kind |-> "create", finished |-> "running", shown |-> 0]
    BY DEF Init, NoPanel
  <2>2. task \in [Gens -> Tasks] /\ \A g \in Gens : task[g].waiting <= task[g].sent
    BY DEF Init, Gens
  <2>3. panel.gen \in {0, op_gen} /\ panel \in [gen : 0..MaxOps, kind : Kinds,
          finished : {"running"} \cup Outcomes, shown : Nat]
    BY <2>1, PanelsAssumption DEF Init, Kinds
  <2>4. /\ cmds \in Seq(Commands) /\ Len(cmds) <= CmdCap
        /\ events \in Seq(Events) /\ Len(events) <= EventCap
    BY PanelsAssumption DEF Init
  <2>5. /\ op_gen \in 0..MaxOps /\ asked \in 0..MaxOps
        /\ slots \in [Kinds -> 0..MaxOps]
    BY PanelsAssumption DEF Init
  <2>6. tab \in BOOLEAN /\ cancelled \subseteq Gens
    BY DEF Init
  <2>. QED BY <2>2, <2>3, <2>4, <2>5, <2>6 DEF Typed
<1>2. CancelInv
  BY DEF Init, CancelInv, LatestShown, Orderly, SlotsOfTheirKind, NobodyIsCancelledUnasked,
         NoPanel, Kinds
<1>3. EventInv
  BY DEF Init, EventInv, ItsOwn, OutcomesAreLast, ForwardersDone, FinalTask, NoPanel, Gens
<1>. QED BY <1>1, <1>2, <1>3 DEF IInv

LEMMA StartInv ==
    ASSUME IInv, NEW kind \in Kinds, Start(kind)
    PROVE  IInv'
<1>. DEFINE new == op_gen + 1
            cmd == [type |-> kind, gen |-> new]
            fresh == [kind |-> kind, stage |-> IF Accepted(cmds) THEN "queued" ELSE "dropped",
                      sent |-> 0, waiting |-> 0, result |-> "running"]
<1>. USE DEF IInv
<1>1. /\ op_gen \in Nat /\ op_gen' = new /\ new \in 1..MaxOps /\ MaxOps \in Nat
      /\ Gens = 1..op_gen /\ Gens' = 1..new /\ new \notin Gens /\ Gens \subseteq Gens'
  BY PanelsAssumption DEF Typed, Start, Gens
<1>2. /\ fresh \in Tasks /\ cmd \in Commands
      /\ panel' = [gen |-> new, kind |-> kind, finished |-> "running", shown |-> 0]
  <2>1. panel' = [gen |-> new, kind |-> kind, finished |-> "running", shown |-> 0]
    BY <1>1 DEF Start, NoPanel
  <2>2. fresh \in Tasks
    BY PanelsAssumption DEF Tasks
  <2>3. cmd \in Commands
    BY <1>1 DEF Commands
  <2>. QED BY <2>1, <2>2, <2>3
<1>3. /\ task' \in [Gens' -> Tasks] /\ task'[new] = fresh
      /\ \A g \in Gens : task'[g] = task[g] /\ g \in Gens' /\ g # new /\ g < new
  BY <1>1, <1>2 DEF Start, Typed
<1>4. /\ cmds' = Issue(cmds, cmd) /\ cmds \in Seq(Commands)
      /\ UNCHANGED <<tab, events, slots, cancelled, asked>>
  BY <1>1 DEF Start, Typed
<1>5. cmds' \in Seq(Commands) /\ Len(cmds') <= CmdCap
  BY <1>2, <1>4, AppendFacts, PanelsAssumption DEF Issue, Accepted, Typed
<1>6. Typed'
  <2>1. \A g \in Gens' : task'[g].waiting <= task'[g].sent
    BY <1>1, <1>3 DEF Typed
  <2>2. /\ op_gen' \in 0..MaxOps /\ tab' \in BOOLEAN /\ asked' \in 0..MaxOps
        /\ panel' \in [gen : 0..MaxOps, kind : Kinds, finished : {"running"} \cup Outcomes,
                       shown : Nat]
        /\ events' \in Seq(Events) /\ Len(events') <= EventCap
        /\ slots' \in [Kinds -> 0..MaxOps] /\ cancelled' \subseteq Gens'
    BY <1>1, <1>2, <1>4 DEF Typed, Outcomes
  <2>. QED BY <1>3, <1>5, <2>1, <2>2 DEF Typed
<1>7. Orderly(cmds)'
  <2>1. \A c \in Commands : Waits(c) => Waits(c)' /\ c.gen < new
    BY <1>1, <1>3, <1>4 DEF Waits
  <2>2. CASE ~Accepted(cmds)
    <3>1. cmds' = cmds
      BY <1>4, <2>2 DEF Issue
    <3>2. \A i \in DOMAIN cmds : cmds[i] \in Commands
      BY <1>4
    <3>. QED BY <1>4, <2>1, <3>1, <3>2 DEF CancelInv, Orderly
  <2>3. CASE Accepted(cmds)
    <3>. DEFINE last == Len(cmds) + 1
    <3>1. /\ DOMAIN cmds = 1..Len(cmds) /\ DOMAIN cmds' = 1..last /\ Len(cmds) \in Nat
          /\ \A i \in DOMAIN cmds : cmds[i] \in Commands /\ cmds'[i] = cmds[i]
          /\ cmds'[last] = cmd
      BY <1>2, <1>4, <2>3, AppendFacts DEF Issue
    <3>2. /\ cmd.gen = new /\ cmd.type = kind /\ new \in Gens'
          /\ task'[new].stage = "queued" /\ task'[new].kind = kind
          /\ \A k \in Kinds : slots'[k] < new
      <4>1. \A k \in Kinds : slots[k] < new
        BY <1>1 DEF CancelInv, SlotsOfTheirKind
      <4>2. task'[new].stage = "queued" /\ task'[new].kind = kind
        BY <1>3, <2>3
      <4>. QED BY <1>1, <1>4, <4>1, <4>2
    <3>3. \A i \in DOMAIN cmds' : i = last \/ (i \in DOMAIN cmds /\ i < last)
      BY <3>1
    <3>4. (\A i \in DOMAIN cmds : cmds[i].type \in Kinds => Waits(cmds[i]))'
      <4>. SUFFICES ASSUME NEW i \in DOMAIN cmds', cmds'[i].type \in Kinds
                    PROVE  /\ cmds'[i].gen \in Gens'
                           /\ task'[cmds'[i].gen].stage = "queued"
                           /\ task'[cmds'[i].gen].kind = cmds'[i].type
                           /\ \A k \in Kinds : slots'[k] < cmds'[i].gen
        BY DEF Waits
      <4>1. CASE i = last
        BY <3>1, <3>2, <4>1
      <4>2. CASE i \in DOMAIN cmds
        <5>1. Waits(cmds[i]) /\ cmds[i] \in Commands /\ cmds'[i] = cmds[i]
          BY <3>1, <4>2 DEF CancelInv, Orderly
        <5>. QED BY <2>1, <5>1 DEF Waits
      <4>. QED BY <3>3, <4>1, <4>2
    <3>5. \A i, j \in DOMAIN cmds' :
             i < j /\ cmds'[i].type \in Kinds /\ cmds'[j].type \in Kinds =>
               cmds'[i].gen < cmds'[j].gen
      BY <2>1, <3>1, <3>3 DEF CancelInv, Orderly
    <3>6. \A i \in DOMAIN cmds' : cmds'[i].type = "cancel" =>
             /\ \A k \in Kinds : slots[k] <= asked
             /\ \A j \in DOMAIN cmds' : j < i => cmds'[j].gen <= asked
      <4>1. cmd.type # "cancel"
        BY DEF Kinds
      <4>. QED BY <3>1, <3>3, <4>1 DEF CancelInv, Orderly
    <3>. QED BY <1>4, <3>4, <3>5, <3>6 DEF Orderly
  <2>. QED BY <2>2, <2>3
<1>8. CancelInv'
  <2>1. LatestShown'
    BY <1>1, <1>2, <1>4 DEF LatestShown, CancelInv, Typed
  <2>2. SlotsOfTheirKind'
    BY <1>3, <1>4 DEF SlotsOfTheirKind, CancelInv
  <2>3. NobodyIsCancelledUnasked'
    BY <1>1, <1>3, <1>4, StillAsked DEF Typed
  <2>. QED BY <1>7, <2>1, <2>2, <2>3 DEF CancelInv
<1>9. EventInv'
  <2>1. ItsOwn' /\ ForwardersDone'
    BY <1>1, <1>2, <1>3 DEF ItsOwn, ForwardersDone, FinalTask, EventInv
  <2>2. \A e \in Events : Told(e) => Told(e)'
    BY <1>3 DEF Told
  <2>3. \A i \in DOMAIN events : events[i] \in Events
    BY DEF Typed
  <2>4. OutcomesAreLast(events)'
    BY <1>2, <1>4, <2>2, <2>3 DEF OutcomesAreLast, EventInv
  <2>. QED BY <2>1, <2>4 DEF EventInv
<1>. QED BY <1>6, <1>8, <1>9

\* The user asks: what is on the bus, in the slots or running is not newer than
\* the panel.
LEMMA CancelStepInv ==
    ASSUME IInv, Cancel
    PROVE  IInv'
<1>. USE DEF IInv
<1>1. /\ panel.gen = op_gen /\ asked' = op_gen /\ asked' >= asked
      /\ UNCHANGED <<op_gen, panel, tab, events, task, slots, cancelled>>
      /\ cmds' = Issue(cmds, CancelOp) /\ cmds \in Seq(Commands)
      /\ op_gen \in Nat /\ op_gen <= MaxOps
  BY PanelsAssumption DEF Cancel, Typed, CancelInv, LatestShown, worker
<1>2. cmds' \in Seq(Commands) /\ Len(cmds') <= CmdCap
  BY <1>1, CommandFacts, AppendFacts, PanelsAssumption DEF Issue, Accepted, Typed
<1>3. Typed'
  BY <1>1, <1>2 DEF Typed, Gens
<1>4. Orderly(cmds)'
  <2>1. /\ \A k \in Kinds : slots[k] <= op_gen
        /\ \A i \in DOMAIN cmds : cmds[i].gen <= op_gen
    <3>1. \A k \in Kinds : slots[k] <= op_gen
      BY <1>1 DEF CancelInv, SlotsOfTheirKind, Gens
    <3>2. \A i \in DOMAIN cmds : cmds[i] \in Commands
      BY <1>1
    <3>3. \A i \in DOMAIN cmds : cmds[i].gen <= op_gen
      <4>. SUFFICES ASSUME NEW i \in DOMAIN cmds PROVE cmds[i].gen <= op_gen
        OBVIOUS
      <4>1. CASE cmds[i].type \in Kinds
        BY <1>1, <4>1 DEF CancelInv, Orderly, Waits, Gens
      <4>2. CASE cmds[i].type \notin Kinds
        BY <1>1, <3>2, <4>2, CommandFacts
      <4>. QED BY <4>1, <4>2
    <3>. QED BY <3>1, <3>3
  <2>2. \A c \in Commands : Waits(c) => Waits(c)'
    BY <1>1 DEF Waits, Gens
  <2>3. CASE cmds' = cmds
    <3>1. \A i \in DOMAIN cmds : cmds[i] \in Commands
      BY <1>1
    <3>. QED BY <1>1, <2>1, <2>2, <2>3, <3>1 DEF CancelInv, Orderly
  <2>4. CASE cmds' = Append(cmds, CancelOp)
    <3>. DEFINE last == Len(cmds) + 1
    <3>1. /\ DOMAIN cmds = 1..Len(cmds) /\ DOMAIN cmds' = 1..last /\ Len(cmds) \in Nat
          /\ \A i \in DOMAIN cmds : cmds[i] \in Commands /\ cmds'[i] = cmds[i]
          /\ cmds'[last] = CancelOp
      BY <1>1, <2>4, AppendFacts, CommandFacts
    <3>2. \A i \in DOMAIN cmds' : i = last \/ (i \in DOMAIN cmds /\ i < last)
      BY <3>1
    <3>3. \A i \in DOMAIN cmds' : cmds'[i].type \in Kinds => i \in DOMAIN cmds
      BY <3>1, <3>2, CommandFacts DEF Kinds
    <3>4. \A i, j \in DOMAIN cmds' : j < i => j \in DOMAIN cmds
      BY <3>1
    <3>5. (\A i \in DOMAIN cmds : cmds[i].type \in Kinds => Waits(cmds[i]))'
      BY <2>2, <3>1, <3>3 DEF CancelInv, Orderly, Waits
    <3>6. \A i, j \in DOMAIN cmds' :
             i < j /\ cmds'[i].type \in Kinds /\ cmds'[j].type \in Kinds =>
               cmds'[i].gen < cmds'[j].gen
      BY <3>1, <3>3 DEF CancelInv, Orderly
    <3>7. \A i \in DOMAIN cmds' : cmds'[i].type = "cancel" =>
             /\ \A k \in Kinds : slots[k] <= op_gen
             /\ \A j \in DOMAIN cmds' : j < i => cmds'[j].gen <= op_gen
      BY <2>1, <3>1, <3>4
    <3>. QED BY <1>1, <3>5, <3>6, <3>7 DEF Orderly
  <2>. QED BY <1>1, <2>3, <2>4 DEF Issue
<1>5. CancelInv'
  <2>1. LatestShown' /\ SlotsOfTheirKind'
    BY <1>1 DEF LatestShown, SlotsOfTheirKind, CancelInv, Gens
  <2>2. NobodyIsCancelledUnasked'
    BY <1>1, StillAsked DEF Typed
  <2>. QED BY <1>4, <2>1, <2>2 DEF CancelInv
<1>6. EventInv'
  BY <1>1 DEF EventInv, ItsOwn, OutcomesAreLast, Told, ForwardersDone, FinalTask, Gens
<1>. QED BY <1>3, <1>5, <1>6

LEMMA CloseInv ==
    ASSUME IInv, Close
    PROVE  IInv'
<1>. USE DEF IInv
<1>1. /\ panel' = [gen |-> 0, kind |-> "create", finished |-> "running", shown |-> 0]
      /\ UNCHANGED <<op_gen, tab, asked, cmds, events, task, slots, cancelled>>
  BY DEF Close, NoPanel, worker
<1>2. Typed'
  BY <1>1, PanelsAssumption DEF Typed, Gens, Kinds
<1>3. CancelInv'
  BY <1>1 DEF CancelInv, LatestShown, Orderly, Waits, SlotsOfTheirKind,
              NobodyIsCancelledUnasked, Gens
<1>4. EventInv'
  BY <1>1 DEF EventInv, ItsOwn, OutcomesAreLast, Told, ForwardersDone, FinalTask, Gens
<1>. QED BY <1>2, <1>3, <1>4

LEMMA TabInv ==
    ASSUME IInv, OpenTab \/ CloseTab
    PROVE  IInv'
<1>. USE DEF IInv
<1>1. /\ UNCHANGED <<op_gen, panel, asked, events, task, slots, cancelled>>
      /\ tab' \in BOOLEAN
      /\ cmds' \in {WithFirstProbes(cmds), Issue(Issue(cmds, Other), Other)}
  BY DEF OpenTab, CloseTab, worker
<1>2. cmds' \in Seq(Commands) /\ Len(cmds') <= CmdCap /\ Orderly(cmds')
  BY <1>1, IssueOthers DEF Typed, CancelInv
<1>3. Typed'
  BY <1>1, <1>2 DEF Typed, Gens
<1>4. Orderly(cmds)'
  BY <1>1, <1>2, KeepsOrder
<1>5. CancelInv'
  BY <1>1, <1>4 DEF CancelInv, LatestShown, SlotsOfTheirKind, NobodyIsCancelledUnasked, Gens
<1>6. EventInv'
  BY <1>1 DEF EventInv, ItsOwn, OutcomesAreLast, Told, ForwardersDone, FinalTask, Gens
<1>. QED BY <1>3, <1>5, <1>6

\* An operation starts: it takes the slot of its kind from an older one.
LEMMA DispatchInv ==
    ASSUME IInv, Dispatch
    PROVE  IInv'
<1>. DEFINE cmd == Head(cmds)
            g == cmd.gen
            kind == cmd.type
            t == [task[g] EXCEPT !.stage = "running"]
<1>. USE DEF IInv
<1>1. /\ cmds \in Seq(Commands) /\ cmds # << >> /\ cmds' = Tail(cmds)
      /\ cmd = cmds[1] /\ cmd \in Commands /\ 1 \in DOMAIN cmds
      /\ DOMAIN cmds' \subseteq Nat
      /\ cmds' \in Seq(Commands) /\ Len(cmds') <= CmdCap
      /\ \A i \in DOMAIN cmds' : i + 1 \in DOMAIN cmds /\ 1 < i + 1 /\ cmds'[i] = cmds[i + 1]
                                 /\ cmds'[i] \in Commands
  BY TailFacts, PanelsAssumption DEF Typed, Dispatch
<1>2. /\ kind \in Kinds
      /\ task' = [task EXCEPT ![g] = t]
      /\ slots' = [slots EXCEPT ![kind] = g]
      /\ cancelled' = cancelled \cup ({slots[kind]} \ {0})
      /\ UNCHANGED <<op_gen, panel, tab, asked, events>>
  BY DEF Dispatch, ui
<1>3. /\ g \in Gens /\ g \in 1..MaxOps
      /\ task[g].stage = "queued" /\ task[g].kind = kind
      /\ \A k \in Kinds : slots[k] < g
  BY <1>1, <1>2, CommandFacts DEF CancelInv, Orderly, Waits
<1>4. /\ t \in Tasks /\ t.stage = "running" /\ t.kind = kind
      /\ t.waiting = task[g].waiting /\ t.sent = task[g].sent
  <2>1. task[g] \in Tasks
    BY <1>3 DEF Typed
  <2>. QED BY <1>3, <2>1 DEF Tasks
<1>5. /\ task' \in [Gens' -> Tasks] /\ task'[g] = t
      /\ \A h \in Gens : h # g => task'[h] = task[h]
  <2>. HIDE DEF t, g
  <2>. QED BY <1>2, <1>3, <1>4, TaskStep
<1>6. /\ slots' \in [Kinds -> 0..MaxOps] /\ slots'[kind] = g
      /\ \A k \in Kinds : k # kind => slots'[k] = slots[k]
      /\ \A k \in Kinds : slots'[k] <= g
  <2>. HIDE DEF g, kind
  <2>1. /\ slots' \in [Kinds -> 0..MaxOps] /\ slots'[kind] = g
        /\ \A k \in Kinds : k # kind => slots'[k] = slots[k]
    BY <1>2, <1>3 DEF Typed
  <2>2. g \in Nat /\ \A k \in Kinds : slots[k] \in Nat
    BY <1>3 DEF Typed
  <2>. QED BY <1>3, <2>1, <2>2
<1>. HIDE DEF t, g, kind, cmd
<1>7. slots[kind] # 0 => slots[kind] \in Gens /\ task[slots[kind]].kind = kind
                         /\ slots[kind] # g
  BY <1>2, <1>3 DEF CancelInv, SlotsOfTheirKind
<1>8. Typed'
  <2>1. cancelled' \subseteq Gens'
    BY <1>2, <1>7 DEF Typed, Gens
  <2>2. \A h \in Gens' : task'[h].waiting <= task'[h].sent
    BY <1>2, <1>4, <1>5 DEF Typed, Gens
  <2>. QED BY <1>1, <1>2, <1>5, <1>6, <2>1, <2>2 DEF Typed
<1>9. Orderly(cmds)'
  <2>1. \A i \in DOMAIN cmds' : cmds'[i].type \in Kinds =>
           /\ cmds'[i].gen \in Gens /\ g < cmds'[i].gen
           /\ task[cmds'[i].gen].stage = "queued" /\ task[cmds'[i].gen].kind = cmds'[i].type
    BY <1>1, <1>2 DEF CancelInv, Orderly, Waits, g, kind
  <2>2. (\A i \in DOMAIN cmds : cmds[i].type \in Kinds => Waits(cmds[i]))'
    <3>. SUFFICES ASSUME NEW i \in DOMAIN cmds', cmds'[i].type \in Kinds
                  PROVE  /\ cmds'[i].gen \in Gens'
                         /\ task'[cmds'[i].gen].stage = "queued"
                         /\ task'[cmds'[i].gen].kind = cmds'[i].type
                         /\ \A k \in Kinds : slots'[k] < cmds'[i].gen
      BY DEF Waits
    <3>1. cmds'[i].gen \in Gens /\ g < cmds'[i].gen /\ cmds'[i].gen # g
      BY <1>3, <2>1 DEF Gens, Typed
    <3>2. \A k \in Kinds : slots'[k] < cmds'[i].gen
      BY <1>3, <1>6, <3>1 DEF Gens, Typed
    <3>. QED BY <1>2, <1>5, <2>1, <3>1, <3>2 DEF Gens
  <2>3. \A i, j \in DOMAIN cmds' :
           i < j /\ cmds'[i].type \in Kinds /\ cmds'[j].type \in Kinds =>
             cmds'[i].gen < cmds'[j].gen
    <3>1. \A i, j \in DOMAIN cmds' : i < j => i + 1 < j + 1
      BY <1>1
    <3>. QED BY <1>1, <3>1 DEF CancelInv, Orderly
  <2>4. \A i \in DOMAIN cmds' : cmds'[i].type = "cancel" =>
           /\ \A k \in Kinds : slots'[k] <= asked
           /\ \A j \in DOMAIN cmds' : j < i => cmds'[j].gen <= asked
    <3>1. ASSUME NEW i \in DOMAIN cmds', cmds'[i].type = "cancel"
          PROVE  \A k \in Kinds : slots'[k] <= asked
      <4>1. g <= asked /\ \A k \in Kinds : slots[k] <= asked
        BY <1>1, <3>1 DEF CancelInv, Orderly, g
      <4>. QED BY <1>6, <4>1
    <3>2. ASSUME NEW i \in DOMAIN cmds', cmds'[i].type = "cancel",
                 NEW j \in DOMAIN cmds', j < i
          PROVE  cmds'[j].gen <= asked
      <4>1. j + 1 < i + 1
        BY <1>1, <3>2
      <4>. QED BY <1>1, <3>2, <4>1 DEF CancelInv, Orderly
    <3>. QED BY <3>1, <3>2
  <2>. QED BY <1>2, <2>2, <2>3, <2>4 DEF Orderly
<1>10. CancelInv'
  <2>1. LatestShown'
    BY <1>2 DEF LatestShown, CancelInv
  <2>2. SlotsOfTheirKind'
    <3>. SUFFICES ASSUME NEW k \in Kinds, slots'[k] # 0
                  PROVE  slots'[k] \in Gens' /\ task'[slots'[k]].kind = k
      BY DEF SlotsOfTheirKind
    <3>1. CASE k = kind
      BY <1>2, <1>3, <1>4, <1>5, <1>6, <3>1 DEF Gens
    <3>2. CASE k # kind
      <4>1. slots'[k] = slots[k] /\ slots[k] \in Gens /\ task[slots[k]].kind = k
        BY <1>6, <3>2 DEF CancelInv, SlotsOfTheirKind
      <4>2. slots[k] # g
        BY <1>3, <4>1 DEF Gens, Typed
      <4>. QED BY <1>2, <1>5, <4>1, <4>2 DEF Gens
    <3>. QED BY <3>1, <3>2
  <2>3. NobodyIsCancelledUnasked'
    <3>. SUFFICES ASSUME NEW c \in cancelled'
                  PROVE  \/ c <= asked
                         \/ \E h \in Gens : h > c /\ task'[h].kind = task'[c].kind
                                                   /\ task'[h].stage # "dropped"
      BY <1>2 DEF NobodyIsCancelledUnasked, Gens
    <3>1. \A h \in Gens : task'[h].kind = task[h].kind
                          /\ (task[h].stage # "dropped" => task'[h].stage # "dropped")
      BY <1>3, <1>4, <1>5
    <3>2. CASE c \in cancelled
      BY <3>1, <3>2 DEF CancelInv, NobodyIsCancelledUnasked, Typed
    <3>3. CASE c = slots[kind] /\ c # 0
      <4>1. c \in Gens /\ task'[c].kind = kind /\ g > c
        BY <1>2, <1>3, <1>7, <3>1, <3>3 DEF Gens, Typed
      <4>2. task'[g].kind = kind /\ task'[g].stage # "dropped"
        BY <1>4, <1>5
      <4>. QED BY <1>3, <4>1, <4>2
    <3>. QED BY <1>2, <3>2, <3>3
  <2>. QED BY <1>9, <2>1, <2>2, <2>3 DEF CancelInv
<1>11. EventInv'
  <2>1. \A h \in Gens : task[h].stage = "reported" => h # g /\ task'[h] = task[h]
    BY <1>3, <1>5
  <2>2. ItsOwn'
    BY <1>2, <2>1 DEF ItsOwn, EventInv, Gens
  <2>3. \A e \in Events : Told(e) => Told(e)'
    BY <1>2, <2>1 DEF Told, Gens
  <2>4. \A i \in DOMAIN events : events[i] \in Events
    BY DEF Typed
  <2>5. OutcomesAreLast(events)'
    BY <1>2, <2>3, <2>4 DEF OutcomesAreLast, EventInv
  <2>6. ForwardersDone'
    BY <1>2, <1>4, <1>5 DEF ForwardersDone, FinalTask, EventInv, Gens
  <2>. QED BY <2>2, <2>5, <2>6 DEF EventInv
<1>. QED BY <1>8, <1>10, <1>11

\* A Cancel reaches the worker: all it fires was there when it was clicked.
LEMMA DispatchCancelInv ==
    ASSUME IInv, DispatchCancel \/ DispatchOther
    PROVE  IInv'
<1>. USE DEF IInv
<1>1. /\ cmds \in Seq(Commands) /\ cmds # << >> /\ cmds' = Tail(cmds)
      /\ Head(cmds) = cmds[1] /\ 1 \in DOMAIN cmds
      /\ DOMAIN cmds' \subseteq Nat
      /\ cmds' \in Seq(Commands) /\ Len(cmds') <= CmdCap
      /\ \A i \in DOMAIN cmds' : i + 1 \in DOMAIN cmds /\ cmds'[i] = cmds[i + 1]
                                 /\ cmds'[i] \in Commands
  <2>1. cmds # << >> /\ cmds' = Tail(cmds)
    BY DEF DispatchCancel, DispatchOther
  <2>2. cmds \in Seq(Commands) /\ Len(cmds) <= CmdCap
    BY DEF Typed
  <2>. QED BY <2>1, <2>2, TailFacts, PanelsAssumption
<1>2. /\ UNCHANGED <<op_gen, panel, tab, asked, events, task>>
      /\ \/ UNCHANGED <<slots, cancelled>>
         \/ /\ slots' = [k \in Kinds |-> 0]
            /\ cancelled' = cancelled \cup ({slots[k] : k \in Kinds} \ {0})
            /\ cmds[1].type = "cancel"
  BY <1>1 DEF DispatchCancel, DispatchOther, ui, worker
<1>3. /\ \A k \in Kinds : slots'[k] \in {0, slots[k]}
      /\ slots' \in [Kinds -> 0..MaxOps]
  BY <1>2, PanelsAssumption DEF Typed
<1>4. \A c \in cancelled' : c \in cancelled \/ (c \in Gens /\ c <= asked)
  BY <1>1, <1>2 DEF CancelInv, SlotsOfTheirKind, Orderly
<1>5. Typed'
  <2>1. cancelled' \subseteq Gens'
    BY <1>2, <1>4 DEF Typed, Gens
  <2>2. UNCHANGED <<op_gen, panel, tab, asked, events, task>>
    BY <1>2
  <2>. QED BY <1>1, <1>3, <2>1, <2>2 DEF Typed, Gens
<1>6. Orderly(cmds)'
  <2>1. (\A i \in DOMAIN cmds : cmds[i].type \in Kinds => Waits(cmds[i]))'
    <3>. SUFFICES ASSUME NEW i \in DOMAIN cmds', cmds'[i].type \in Kinds
                  PROVE  /\ cmds'[i].gen \in Gens'
                         /\ task'[cmds'[i].gen].stage = "queued"
                         /\ task'[cmds'[i].gen].kind = cmds'[i].type
                         /\ \A k \in Kinds : slots'[k] < cmds'[i].gen
      BY DEF Waits
    <3>1. Waits(cmds'[i])
      BY <1>1 DEF CancelInv, Orderly
    <3>. QED BY <1>2, <1>3, <3>1 DEF Waits, Gens
  <2>2. \A i, j \in DOMAIN cmds' :
           i < j /\ cmds'[i].type \in Kinds /\ cmds'[j].type \in Kinds =>
             cmds'[i].gen < cmds'[j].gen
    <3>1. \A i, j \in DOMAIN cmds' : i < j => i + 1 < j + 1
      BY <1>1
    <3>. QED BY <1>1, <3>1 DEF CancelInv, Orderly
  <2>3. \A i \in DOMAIN cmds' : cmds'[i].type = "cancel" =>
           /\ \A k \in Kinds : slots'[k] <= asked
           /\ \A j \in DOMAIN cmds' : j < i => cmds'[j].gen <= asked
    <3>1. \A i, j \in DOMAIN cmds' : j < i => j + 1 < i + 1
      BY <1>1
    <3>2. asked >= 0
      BY DEF Typed
    <3>. QED BY <1>1, <1>3, <3>1, <3>2 DEF CancelInv, Orderly
  <2>. QED BY <1>2, <2>1, <2>2, <2>3 DEF Orderly
<1>7. CancelInv'
  <2>1. LatestShown' /\ SlotsOfTheirKind'
    BY <1>2, <1>3 DEF LatestShown, SlotsOfTheirKind, CancelInv, Gens
  <2>2. NobodyIsCancelledUnasked'
    BY <1>2, <1>4 DEF CancelInv, NobodyIsCancelledUnasked, Gens
  <2>. QED BY <1>6, <2>1, <2>2 DEF CancelInv
<1>8. EventInv'
  BY <1>2 DEF EventInv, ItsOwn, OutcomesAreLast, Told, ForwardersDone, FinalTask, Gens
<1>. QED BY <1>5, <1>7, <1>8

\* A step of an operation that has started leaves the worker's side in order.
LEMMA TaskKeepsCancelInv ==
    ASSUME IInv, UNCHANGED <<op_gen, panel, tab, asked, cmds, slots, cancelled>>,
           NEW g \in Gens, NEW t \in Tasks, task' = [task EXCEPT ![g] = t],
           t.kind = task[g].kind,
           t.stage = task[g].stage \/ {task[g].stage, t.stage} \cap {"queued", "dropped"} = {}
    PROVE  CancelInv' /\ task' \in [Gens' -> Tasks]
<1>. USE DEF IInv
<1>1. /\ task' \in [Gens' -> Tasks] /\ task'[g] = t
      /\ \A h \in Gens : h # g => task'[h] = task[h]
  BY TaskStep
<1>2. \A h \in Gens : /\ task'[h].kind = task[h].kind
                      /\ task[h].stage = "queued" => task'[h].stage = "queued"
                      /\ task[h].stage # "dropped" => task'[h].stage # "dropped"
  BY <1>1
<1>3. Orderly(cmds)'
  BY <1>2 DEF CancelInv, Orderly, Waits, Gens
<1>4. LatestShown' /\ SlotsOfTheirKind'
  BY <1>2 DEF CancelInv, LatestShown, SlotsOfTheirKind, Gens
<1>5. NobodyIsCancelledUnasked'
  BY <1>2, StillAsked, PanelsAssumption DEF Typed
<1>. QED BY <1>1, <1>3, <1>4, <1>5 DEF CancelInv

\* A step of an operation that has not reported leaves the UI's side in order.
LEMMA TaskKeepsEventInv ==
    ASSUME IInv, UNCHANGED <<op_gen, panel, events>>,
           NEW g \in Gens, NEW t \in Tasks, task' = [task EXCEPT ![g] = t],
           task[g].stage # "reported", t.stage # "reported", FinalTask(t)
    PROVE  EventInv'
<1>. USE DEF IInv
<1>1. /\ task'[g] = t
      /\ \A h \in Gens : h # g => task'[h] = task[h]
  BY TaskStep
<1>2. \A h \in Gens : \/ task[h].stage = "reported" /\ task'[h] = task[h]
                      \/ task[h].stage # "reported" /\ task'[h].stage # "reported"
  BY <1>1
<1>. QED BY <1>2 DEF EventInv, ItsOwn, OutcomesAreLast, Told, ForwardersDone, FinalTask, Gens

LEMMA WorkInv ==
    ASSUME IInv, NEW g \in Gens, Progress(g) \/ Finish(g) \/ GiveUp(g)
    PROVE  IInv'
<1>. USE DEF IInv
<1>0. task[g] \in Tasks /\ UNCHANGED <<op_gen, panel, tab, asked, cmds, events, slots, cancelled>>
  BY DEF Typed, Progress, Finish, GiveUp, ui
<1>1. \E t \in Tasks : /\ task' = [task EXCEPT ![g] = t]
                       /\ t.kind = task[g].kind /\ t.waiting <= t.sent /\ FinalTask(t)
                       /\ task[g].stage \in {"running", "finishing"}
                       /\ t.stage \in {"running", "finishing", "lost"}
  <2>1. CASE Progress(g)
    <3>. DEFINE t == [task[g] EXCEPT !.sent = @ + 1, !.waiting = @ + 1]
    <3>1. /\ task[g].waiting \in 0..MaxProgress /\ task[g].sent \in 0..MaxProgress
          /\ task[g].waiting <= task[g].sent /\ task[g].sent < MaxProgress
      BY <1>0, <2>1 DEF Typed, Tasks, Progress
    <3>2. /\ task[g].waiting + 1 \in 0..MaxProgress /\ task[g].sent + 1 \in 0..MaxProgress
          /\ task[g].waiting + 1 <= task[g].sent + 1
      BY <3>1, PanelsAssumption
    <3>3. t \in Tasks /\ t.kind = task[g].kind /\ t.stage = "running" /\ t.waiting <= t.sent
      BY <1>0, <2>1, <3>2 DEF Progress, Tasks
    <3>4. task' = [task EXCEPT ![g] = t]
      BY <2>1 DEF Progress
    <3>. QED BY <2>1, <3>3, <3>4 DEF Progress, FinalTask
  <2>2. CASE Finish(g)
    <3>1. PICK result \in Outcomes :
             task' = [task EXCEPT ![g].stage = "finishing", ![g].result = result]
      BY <2>2 DEF Finish
    <3>. DEFINE t == [task[g] EXCEPT !.stage = "finishing", !.result = result]
    <3>2. t \in Tasks /\ t.kind = task[g].kind /\ t.stage = "finishing" /\ t.waiting <= t.sent
      BY <1>0 DEF Typed, Tasks
    <3>3. task' = [task EXCEPT ![g] = t]
      BY <3>1
    <3>4. FinalTask(t)
      BY <1>0 DEF FinalTask, Tasks
    <3>. QED BY <2>2, <3>2, <3>3, <3>4 DEF Finish
  <2>3. CASE GiveUp(g)
    <3>. DEFINE t == [task[g] EXCEPT !.stage = "lost"]
    <3>1. t \in Tasks /\ t.kind = task[g].kind /\ t.stage = "lost" /\ t.waiting <= t.sent
      BY <1>0 DEF Typed, Tasks
    <3>2. task' = [task EXCEPT ![g] = t]
      BY <2>3 DEF GiveUp
    <3>. QED BY <2>3, <3>1, <3>2 DEF GiveUp, FinalTask
  <2>. QED BY <2>1, <2>2, <2>3
<1>2. /\ CancelInv' /\ EventInv'
      /\ task' \in [Gens' -> Tasks] /\ \A h \in Gens' : task'[h].waiting <= task'[h].sent
  <2>1. PICK t \in Tasks : /\ task' = [task EXCEPT ![g] = t]
                           /\ t.kind = task[g].kind /\ t.waiting <= t.sent /\ FinalTask(t)
                           /\ task[g].stage \in {"running", "finishing"}
                           /\ t.stage \in {"running", "finishing", "lost"}
    BY <1>1
  <2>2. {task[g].stage, t.stage} \cap {"queued", "dropped"} = {}
    BY <2>1
  <2>3. task[g].stage # "reported" /\ t.stage # "reported"
    BY <2>1
  <2>4. CancelInv' /\ task' \in [Gens' -> Tasks] /\ EventInv'
    BY <1>0, <2>1, <2>2, <2>3, TaskKeepsCancelInv, TaskKeepsEventInv
  <2>5. \A h \in Gens' : task'[h].waiting <= task'[h].sent
    BY <1>0, <2>1, TaskStep DEF Typed, Gens
  <2>. QED BY <2>4, <2>5
<1>3. Typed'
  BY <1>0, <1>2 DEF Typed, Gens
<1>. QED BY <1>2, <1>3

\* One more event on the bus, of a generation that has had no outcome on it yet.
LEMMA AppendEvent ==
    ASSUME NEW q \in Seq(Events), OutcomesAreLast(q), NEW e \in Events, Told(e),
           \A i \in DOMAIN q : q[i].type \in Outcomes => q[i].gen # e.gen,
           panel.finished # "running" => panel.gen # e.gen
    PROVE  OutcomesAreLast(Append(q, e))
<1>. DEFINE r == Append(q, e)
<1>1. /\ DOMAIN q = 1..Len(q) /\ DOMAIN r = 1..(Len(q) + 1) /\ Len(q) \in Nat
      /\ \A i \in DOMAIN q : r[i] = q[i]
      /\ r[Len(q) + 1] = e
  BY AppendFacts
<1>. HIDE DEF r
<1>2. \A i \in DOMAIN r : (i \in DOMAIN q /\ i < Len(q) + 1) \/ i = Len(q) + 1
  BY <1>1
<1>3. \A i, j \in DOMAIN r : i < j => i \in DOMAIN q
  BY <1>1
<1>4. \A i \in DOMAIN r : Told(r[i])
  BY <1>1, <1>2 DEF OutcomesAreLast
<1>5. \A i, j \in DOMAIN r : i < j /\ r[i].type \in Outcomes => r[j].gen # r[i].gen
  BY <1>1, <1>2, <1>3 DEF OutcomesAreLast
<1>6. panel.finished # "running" => \A i \in DOMAIN r : r[i].gen # panel.gen
  BY <1>1, <1>2 DEF OutcomesAreLast
<1>7. OutcomesAreLast(r)
  BY <1>4, <1>5, <1>6 DEF OutcomesAreLast
<1>. QED BY <1>7 DEF r

\* Progress waits: its operation has not reported.
LEMMA ForwardInv ==
    ASSUME IInv, NEW g \in Gens, Forward(g)
    PROVE  IInv'
<1>. DEFINE t == [task[g] EXCEPT !.waiting = @ - 1]
            e == Event("progress", g)
<1>. USE DEF IInv
<1>1. /\ UNCHANGED <<op_gen, panel, tab, asked, cmds, slots, cancelled>>
      /\ task' = [task EXCEPT ![g] = t]
      /\ events' = IF Room THEN Append(events, e) ELSE events
  BY DEF Forward, ui
<1>2. /\ t \in Tasks /\ t.kind = task[g].kind /\ t.stage = task[g].stage
      /\ t.waiting <= t.sent /\ t.result = task[g].result
  <2>1. /\ task[g] \in Tasks /\ task[g].waiting > 0 /\ task[g].waiting <= task[g].sent
        /\ task[g].waiting - 1 \in 0..MaxProgress /\ task[g].waiting - 1 <= task[g].sent
    BY PanelsAssumption DEF Typed, Forward, Tasks
  <2>. QED BY <2>1 DEF Tasks
<1>. HIDE DEF t
<1>3. /\ task' \in [Gens' -> Tasks] /\ task'[g] = t
      /\ \A h \in Gens : h # g => task'[h] = task[h]
  BY <1>1, <1>2, TaskStep
<1>4. CancelInv'
  BY <1>1, <1>2, TaskKeepsCancelInv
<1>5. /\ task[g].stage # "reported" /\ e \in Events /\ Told(e) /\ e.gen = g
      /\ e.type = "progress"
  <2>1. task[g].stage # "reported"
    BY DEF Forward, EventInv, ForwardersDone, FinalTask
  <2>2. e \in Events
    BY PanelsAssumption DEF Event, Events, Gens, Typed
  <2>. QED BY <2>1, <2>2 DEF Event, Told, Outcomes
<1>. HIDE DEF e
<1>6. Typed'
  <2>1. events' \in Seq(Events) /\ Len(events') <= EventCap
    BY <1>1, <1>5, AppendFacts, PanelsAssumption DEF Room, Typed
  <2>2. \A h \in Gens' : task'[h].waiting <= task'[h].sent
    BY <1>1, <1>2, <1>3 DEF Typed, Gens
  <2>. QED BY <1>1, <1>3, <2>1, <2>2 DEF Typed, Gens
<1>7. EventInv'
  <2>1. OutcomesAreLast(events')
    <3>1. \A i \in DOMAIN events : events[i].type \in Outcomes => events[i].gen # g
      BY <1>5 DEF EventInv, OutcomesAreLast, Told
    <3>2. panel.finished # "running" => panel.gen # g
      BY <1>5 DEF EventInv, ItsOwn
    <3>3. events \in Seq(Events) /\ OutcomesAreLast(events)
      BY DEF Typed, EventInv
    <3>. QED BY <1>1, <1>5, <3>1, <3>2, <3>3, AppendEvent
  <2>2. \A h \in Gens : task'[h].stage = task[h].stage /\ task'[h].result = task[h].result
    BY <1>2, <1>3
  <2>3. OutcomesAreLast(events)'
    BY <1>1, <2>1, <2>2 DEF OutcomesAreLast, Told, Gens
  <2>4. ItsOwn' /\ ForwardersDone'
    BY <1>1, <1>3, <1>5, <2>2 DEF EventInv, ItsOwn, ForwardersDone, FinalTask, Gens
  <2>. QED BY <2>3, <2>4 DEF EventInv
<1>. QED BY <1>4, <1>6, <1>7

\* The outcome goes behind all that its forwarder handed over.
LEMMA ReportInv ==
    ASSUME IInv, NEW g \in Gens, Report(g)
    PROVE  IInv'
<1>. DEFINE t == [task[g] EXCEPT !.stage = "reported"]
            e == Event(task[g].result, g)
<1>. USE DEF IInv
<1>1. /\ UNCHANGED <<op_gen, panel, tab, asked, cmds, slots, cancelled>>
      /\ task' = [task EXCEPT ![g] = t]
      /\ events' = Append(events, e) /\ Len(events) < EventCap
      /\ task[g].stage = "finishing" /\ task[g].waiting = 0
  BY DEF Report, ui, Room
<1>2. /\ t \in Tasks /\ t.kind = task[g].kind /\ t.stage = "reported"
      /\ t.waiting <= t.sent /\ t.result = task[g].result /\ t.waiting = 0
  <2>1. task[g] \in Tasks /\ task[g].waiting <= task[g].sent
    BY DEF Typed
  <2>. QED BY <1>1, <2>1 DEF Tasks
<1>3. task[g].result \in Outcomes
  BY <1>1 DEF EventInv, ForwardersDone, FinalTask
<1>. HIDE DEF t
<1>4. /\ task' \in [Gens' -> Tasks] /\ task'[g] = t
      /\ \A h \in Gens : h # g => task'[h] = task[h]
  BY <1>1, <1>2, TaskStep
<1>5. CancelInv'
  BY <1>1, <1>2, TaskKeepsCancelInv
<1>6. e \in Events /\ e.gen = g /\ e.type = task[g].result
  BY <1>3, PanelsAssumption DEF Event, Events, Gens, Typed
<1>. HIDE DEF e
<1>7. Typed'
  <2>1. events' \in Seq(Events) /\ Len(events') <= EventCap
    BY <1>1, <1>6, AppendFacts, PanelsAssumption DEF Typed
  <2>2. \A h \in Gens' : task'[h].waiting <= task'[h].sent
    BY <1>1, <1>2, <1>4 DEF Typed, Gens
  <2>. QED BY <1>1, <1>4, <2>1, <2>2 DEF Typed, Gens
<1>8. EventInv'
  <2>1. \A h \in Gens : task[h].stage = "reported" => task'[h] = task[h]
    BY <1>1, <1>4
  <2>2. \A i \in DOMAIN events : events[i].type \in Outcomes => events[i].gen # g
    BY <1>1 DEF EventInv, OutcomesAreLast, Told
  <2>3. panel.finished # "running" => panel.gen # g
    BY <1>1 DEF EventInv, ItsOwn
  <2>4. ItsOwn' /\ ForwardersDone'
    BY <1>1, <1>2, <1>4, <2>1 DEF EventInv, ItsOwn, ForwardersDone, FinalTask, Gens
  <2>5. OutcomesAreLast(events)'
    <3>. DEFINE last == Len(events) + 1
    <3>1. /\ DOMAIN events = 1..Len(events) /\ DOMAIN events' = 1..last /\ Len(events) \in Nat
          /\ \A i \in DOMAIN events : events[i] \in Events /\ events'[i] = events[i]
          /\ events'[last] = e
      BY <1>1, <1>6, AppendFacts DEF Typed
    <3>2. \A i \in DOMAIN events' : (i \in DOMAIN events /\ i < last) \/ i = last
      BY <3>1
    <3>3. \A i, j \in DOMAIN events' : i < j => i \in DOMAIN events
      BY <3>1
    <3>4. (\A i \in DOMAIN events : Told(events[i]))'
      <4>. SUFFICES ASSUME NEW i \in DOMAIN events'
                    PROVE  /\ events'[i].gen \in Gens
                           /\ events'[i].type \in Outcomes =>
                                /\ task'[events'[i].gen].stage = "reported"
                                /\ task'[events'[i].gen].result = events'[i].type
        BY <1>1 DEF Told, Gens
      <4>1. CASE i \in DOMAIN events
        <5>1. Told(events[i]) /\ events'[i] = events[i]
          BY <3>1, <4>1 DEF EventInv, OutcomesAreLast
        <5>. QED BY <2>1, <5>1 DEF Told
      <4>2. CASE i = last
        BY <1>2, <1>4, <1>6, <3>1, <4>2
      <4>. QED BY <3>2, <4>1, <4>2
    <3>5. \A i, j \in DOMAIN events' :
             i < j /\ events'[i].type \in Outcomes => events'[j].gen # events'[i].gen
      BY <1>6, <2>2, <3>1, <3>2, <3>3 DEF EventInv, OutcomesAreLast
    <3>6. panel.finished # "running" => \A i \in DOMAIN events' : events'[i].gen # panel.gen
      BY <1>6, <2>3, <3>1, <3>2 DEF EventInv, OutcomesAreLast
    <3>. QED BY <1>1, <3>4, <3>5, <3>6 DEF OutcomesAreLast
  <2>. QED BY <2>4, <2>5 DEF EventInv
<1>. QED BY <1>5, <1>7, <1>8

\* The UI takes an event: a finished panel has no more events to come.
LEMMA HandleInv ==
    ASSUME IInv, HandleProgress \/ HandleDone
    PROVE  IInv' /\ (panel.finished # "running" => panel' = panel)
<1>. DEFINE e == Head(events)
<1>. USE DEF IInv
<1>1. /\ events # << >> /\ events' = Tail(events) /\ events \in Seq(Events)
      /\ UNCHANGED <<op_gen, asked, task, slots, cancelled>>
  BY DEF HandleProgress, HandleDone, worker, Typed
<1>2. /\ e = events[1] /\ 1 \in DOMAIN events /\ e \in Events
      /\ DOMAIN events' \subseteq Nat
      /\ events' \in Seq(Events) /\ Len(events') <= EventCap
      /\ \A i \in DOMAIN events' : i + 1 \in DOMAIN events /\ 1 < i + 1
                                   /\ events'[i] = events[i + 1]
  BY <1>1, TailFacts, PanelsAssumption DEF Typed
<1>. HIDE DEF e
<1>3. /\ panel.finished # "running" => e.gen # panel.gen
      /\ \A i \in DOMAIN events' : e.type \in Outcomes => events'[i].gen # e.gen
      /\ Told(e)
  BY <1>2 DEF EventInv, OutcomesAreLast
<1>4. \/ panel' = panel
      \/ /\ e.type = "progress" /\ panel.gen = e.gen
         /\ panel' = [panel EXCEPT !.shown = @ + 1]
      \/ /\ e.type \in Outcomes /\ panel.gen = e.gen
         /\ panel' = [panel EXCEPT !.finished = e.type]
  BY DEF HandleProgress, HandleDone, e
<1>5. /\ panel' \in [gen : 0..MaxOps, kind : Kinds, finished : {"running"} \cup Outcomes, shown : Nat]
      /\ panel'.gen = panel.gen
      /\ panel'.finished = panel.finished
         \/ (e.type \in Outcomes /\ panel.gen = e.gen /\ panel'.finished = e.type)
  BY <1>4 DEF Typed
<1>6. tab' \in BOOLEAN /\ cmds' \in Seq(Commands) /\ Len(cmds') <= CmdCap /\ Orderly(cmds)'
  <2>1. /\ cmds \in Seq(Commands) /\ Len(cmds) <= CmdCap /\ Orderly(cmds)
        /\ tab \in BOOLEAN
    BY DEF Typed, CancelInv
  <2>2. CASE HandleProgress
    <3>1. UNCHANGED <<tab, cmds>>
      BY <2>2 DEF HandleProgress
    <3>. QED BY <1>1, <2>1, <3>1, KeepsOrder
  <2>3. CASE HandleDone
    <3>1. FollowUp(e.type)
      BY <2>3 DEF HandleDone, e
    <3>2. /\ tab' \in BOOLEAN
          /\ cmds' \in {cmds, Issue(cmds, Other), WithFirstProbes(Issue(cmds, Other))}
      BY <2>1, <3>1 DEF FollowUp
    <3>3. cmds' \in Seq(Commands) /\ Len(cmds') <= CmdCap /\ Orderly(cmds')
      BY <2>1, <3>2, IssueOthers
    <3>. QED BY <1>1, <3>2, <3>3, KeepsOrder
  <2>. QED BY <2>2, <2>3
<1>7. Typed'
  BY <1>1, <1>2, <1>5, <1>6 DEF Typed, Gens
<1>8. CancelInv'
  <2>1. LatestShown'
    <3>1. Told(e) => e.gen # 0
      BY DEF Told, Gens
    <3>2. panel.gen = 0 => panel' = panel
      BY <1>3, <1>4, <3>1
    <3>. QED BY <1>1, <1>5, <3>2 DEF CancelInv, LatestShown
  <2>2. SlotsOfTheirKind' /\ NobodyIsCancelledUnasked'
    BY <1>1 DEF CancelInv, SlotsOfTheirKind, NobodyIsCancelledUnasked, Gens
  <2>. QED BY <1>6, <2>1, <2>2 DEF CancelInv
<1>9. EventInv'
  <2>1. ItsOwn'
    BY <1>1, <1>3, <1>5 DEF EventInv, ItsOwn, Told, Gens
  <2>2. ForwardersDone'
    BY <1>1 DEF EventInv, ForwardersDone, FinalTask, Gens
  <2>3. (\A i \in DOMAIN events : Told(events[i]))'
    BY <1>1, <1>2 DEF EventInv, OutcomesAreLast, Told, Gens
  <2>4. \A i, j \in DOMAIN events' :
           i < j /\ events'[i].type \in Outcomes => events'[j].gen # events'[i].gen
    <3>1. \A i, j \in DOMAIN events' : i < j => i + 1 < j + 1
      BY <1>2
    <3>. QED BY <1>2, <3>1 DEF EventInv, OutcomesAreLast
  <2>5. panel'.finished # "running" => \A i \in DOMAIN events' : events'[i].gen # panel'.gen
    BY <1>2, <1>3, <1>5 DEF EventInv, OutcomesAreLast
  <2>. QED BY <2>1, <2>2, <2>3, <2>4, <2>5 DEF EventInv, OutcomesAreLast
<1>10. panel.finished # "running" => panel' = panel
  BY <1>3, <1>4
<1>. QED BY <1>7, <1>8, <1>9, <1>10

LEMMA StepInv ==
    ASSUME IInv, [Next]_vars
    PROVE  /\ IInv'
           /\ panel.finished # "running" /\ panel'.gen = panel.gen => panel' = panel
<1>1. CASE \E k \in Kinds : Start(k)
  <2>1. op_gen' = op_gen + 1 /\ panel'.gen = op_gen'
    BY <1>1 DEF Start, NoPanel
  <2>2. panel.gen <= op_gen /\ op_gen \in Nat /\ panel.gen \in Nat
    BY PanelsAssumption DEF IInv, CancelInv, LatestShown, Typed
  <2>. QED BY <1>1, <2>1, <2>2, StartInv
<1>2. CASE Cancel \/ OpenTab \/ CloseTab
  BY <1>2, CancelStepInv, TabInv DEF Cancel, OpenTab, CloseTab
<1>3. CASE Close
  BY <1>3, CloseInv DEF Close, NoPanel
<1>4. CASE Dispatch \/ DispatchCancel \/ DispatchOther
  BY <1>4, DispatchInv, DispatchCancelInv DEF Dispatch, DispatchCancel, DispatchOther, ui
<1>5. CASE \E g \in Gens : Progress(g) \/ Forward(g) \/ Finish(g) \/ Report(g) \/ GiveUp(g)
  BY <1>5, WorkInv, ForwardInv, ReportInv DEF Progress, Forward, Finish, Report, GiveUp, ui
<1>6. CASE HandleProgress \/ HandleDone
  BY <1>6, HandleInv
<1>7. CASE UNCHANGED vars
  <2>1. UNCHANGED <<op_gen, panel, tab, cmds, events, task, slots, cancelled, asked>>
    BY <1>7 DEF vars
  <2>. QED BY <2>1 DEF IInv, Typed, CancelInv, LatestShown, Orderly, Waits, SlotsOfTheirKind,
                       NobodyIsCancelledUnasked, EventInv, ItsOwn, OutcomesAreLast, Told,
                       ForwardersDone, FinalTask, Gens
<1>. QED BY <1>1, <1>2, <1>3, <1>4, <1>5, <1>6, <1>7 DEF Next

-----------------------------------------------------------------------------
\* Whatever the two buses lose, and in whatever order operations are started,
\* replaced and cancelled, the worker only fires tokens of operations that were
\* running when Cancel was clicked or that a later one of their kind replaced:
\* a Cancel still on the bus is never overtaken by an operation started after it.
THEOREM NobodyElseIsCancelled == Spec => []NobodyIsCancelledUnasked
<1>1. IInv => NobodyIsCancelledUnasked
  BY DEF IInv, CancelInv
<1>. QED BY <1>1, InitInv, StepInv, PTL DEF Spec

\* Whatever the two buses lose and however the events of replaced operations
\* mix with those of the latest, a finished panel shows what the task of its own
\* generation reported, and never changes again.
THEOREM OutcomesAreOwnAndFinal == Spec => OutcomeIsOwnAndFinal
<1>1. IInv' => ItsOwn'
  BY DEF IInv, EventInv
<1>2. IInv /\ [Next]_vars =>
        [ItsOwn' /\ (panel.finished # "running" /\ panel'.gen = panel.gen => panel' = panel)]_vars
  BY <1>1, StepInv
<1>. QED BY <1>2, InitInv, StepInv, PTL DEF Spec, OutcomeIsOwnAndFinal

-----------------------------------------------------------------------------
(* What a panel shows stays within what its operation produced: every      *)
(* progress event is waiting, on the bus, lost, or shown once.             *)

Marks(queue, g) == {i \in DOMAIN queue : queue[i] = Event("progress", g)}
Count(queue, g) == Cardinality(Marks(queue, g))
Shown(g) == IF panel.gen = g THEN panel.shown ELSE 0
ProgressCounted ==
    \A g \in Gens : Count(events, g) + task[g].waiting + Shown(g) <= task[g].sent

LEMMA CountType ==
    ASSUME NEW q \in Seq(Events), NEW g
    PROVE  IsFiniteSet(Marks(q, g)) /\ Count(q, g) \in Nat
<1>1. Len(q) \in Nat /\ DOMAIN q = 1..Len(q) /\ Marks(q, g) \in SUBSET (1..Len(q))
  BY DEF Marks
<1>2. IsFiniteSet(1..Len(q))
  BY <1>1, FS_Interval
<1>3. IsFiniteSet(Marks(q, g))
  BY <1>1, <1>2, FS_Subset
<1>. QED BY <1>3, FS_CardinalityType DEF Count

LEMMA CountAppend ==
    ASSUME NEW q \in Seq(Events), NEW e \in Events, NEW g
    PROVE  Count(Append(q, e), g)
             = IF e = Event("progress", g) THEN Count(q, g) + 1 ELSE Count(q, g)
<1>. DEFINE r == Append(q, e)
            last == Len(q) + 1
<1>1. /\ DOMAIN q = 1..Len(q) /\ DOMAIN r = 1..last /\ Len(q) \in Nat
      /\ \A i \in DOMAIN q : r[i] = q[i]
      /\ r[last] = e
  BY AppendFacts
<1>2. last \notin Marks(q, g) /\ IsFiniteSet(Marks(q, g))
  <2>1. last \notin DOMAIN q
    BY <1>1
  <2>. QED BY <2>1, CountType DEF Marks
<1>. HIDE DEF r
<1>3. \A i : i \in 1..last <=> i \in 1..Len(q) \/ i = last
  BY <1>1
<1>. HIDE DEF last
<1>4. CASE e = Event("progress", g)
  <2>1. Marks(r, g) = Marks(q, g) \cup {last}
    BY <1>1, <1>3, <1>4 DEF Marks
  <2>. QED BY <1>2, <1>4, <2>1, FS_AddElement DEF Count, r
<1>5. CASE e # Event("progress", g)
  <2>1. Marks(r, g) = Marks(q, g)
    BY <1>1, <1>3, <1>5 DEF Marks
  <2>. QED BY <1>5, <2>1 DEF Count, r
<1>. QED BY <1>4, <1>5

LEMMA CountTail ==
    ASSUME NEW q \in Seq(Events), q # << >>, NEW g
    PROVE  Count(q, g)
             = IF Head(q) = Event("progress", g) THEN Count(Tail(q), g) + 1 ELSE Count(Tail(q), g)
<1>. DEFINE r == Tail(q)
            S == Marks(q, g) \ {1}
            T == Marks(r, g)
            shift == [i \in T |-> i + 1]
<1>1. /\ r \in Seq(Events) /\ Head(q) = q[1] /\ Len(q) \in Nat \ {0}
      /\ DOMAIN q = 1..Len(q) /\ DOMAIN r = 1..(Len(q) - 1)
      /\ \A i \in DOMAIN r : i + 1 \in DOMAIN q /\ r[i] = q[i + 1]
  BY TailFacts
<1>. HIDE DEF r
<1>2. IsFiniteSet(T) /\ Count(r, g) \in Nat /\ IsFiniteSet(Marks(q, g))
  BY <1>1, CountType
<1>3. shift \in Bijection(T, S)
  <2>1. \A i \in T : i \in Nat \ {0} /\ i + 1 \in S
    BY <1>1 DEF Marks
  <2>2. \A j \in S : j \in Nat /\ j - 1 \in T /\ j = (j - 1) + 1
    <3>. SUFFICES ASSUME NEW j \in S PROVE j \in Nat /\ j - 1 \in T /\ j = (j - 1) + 1
      OBVIOUS
    <3>1. j \in 1..Len(q) /\ j # 1 /\ q[j] = Event("progress", g)
      BY <1>1 DEF Marks
    <3>2. j - 1 \in DOMAIN r /\ j = (j - 1) + 1
      BY <1>1, <3>1
    <3>3. r[j - 1] = q[j]
      BY <1>1, <3>2
    <3>. QED BY <3>1, <3>2, <3>3 DEF Marks
  <2>. HIDE DEF S, T
  <2>3. shift \in [T -> S]
    BY <2>1
  <2>4. \A i, j \in T : shift[i] = shift[j] => i = j
    BY <2>1
  <2>5. \A j \in S : \E i \in T : shift[i] = j
    <3>. SUFFICES ASSUME NEW j \in S PROVE \E i \in T : shift[i] = j
      OBVIOUS
    <3>1. j - 1 \in T /\ shift[j - 1] = j
      BY <2>2
    <3>. QED BY <3>1
  <2>. HIDE DEF shift
  <2>. QED BY <2>3, <2>4, <2>5 DEF Bijection, Injection, Surjection, IsInjective
<1>4. Cardinality(S) = Count(r, g)
  BY <1>2, <1>3, FS_Bijection DEF Count, ExistsBijection
<1>5. Cardinality(S) = IF 1 \in Marks(q, g) THEN Count(q, g) - 1 ELSE Count(q, g)
  BY <1>2, FS_RemoveElement DEF Count
<1>6. 1 \in Marks(q, g) <=> Head(q) = Event("progress", g)
  BY <1>1 DEF Marks
<1>7. Count(q, g) \in Nat
  BY CountType
<1>. QED BY <1>2, <1>4, <1>5, <1>6, <1>7 DEF r

LEMMA CountFacts ==
    ASSUME IInv, NEW g \in Gens
    PROVE  /\ Count(events, g) \in Nat /\ Shown(g) \in Nat
           /\ task[g].waiting \in Nat /\ task[g].sent \in 0..MaxProgress
           /\ g # 0 /\ task[g] \in Tasks
<1>1. Count(events, g) \in Nat
  BY CountType DEF IInv, Typed
<1>2. Shown(g) \in Nat
  BY DEF IInv, Typed, Shown
<1>3. task[g] \in Tasks /\ task[g].waiting \in Nat /\ task[g].sent \in 0..MaxProgress
  BY DEF IInv, Typed, Tasks
<1>. QED BY <1>1, <1>2, <1>3 DEF Gens

LEMMA CountInit == Init => ProgressCounted
BY DEF Init, ProgressCounted, Gens

LEMMA CountStep ==
    ASSUME IInv, ProgressCounted, [Next]_vars
    PROVE  ProgressCounted'
<1>1. ASSUME NEW k \in Kinds, Start(k)
      PROVE  ProgressCounted'
  <2>. DEFINE new == op_gen + 1
  <2>1. /\ Gens' = Gens \cup {new} /\ new \notin Gens /\ events' = events
        /\ op_gen \in Nat /\ op_gen' = new
    BY <1>1, PanelsAssumption DEF Start, Gens, IInv, Typed
  <2>2. /\ panel'.gen = new /\ panel'.shown = 0
        /\ \A g \in Gens : task'[g] = task[g]
        /\ task'[new].sent = 0 /\ task'[new].waiting = 0
    BY <1>1, <2>1 DEF Start, NoPanel, Gens
  <2>3. \A g \in Gens' : Shown(g)' = 0
    BY <2>2 DEF Shown
  <2>4. Count(events, new) = 0
    <3>1. Marks(events, new) = {}
      BY <2>1 DEF Marks, IInv, EventInv, OutcomesAreLast, Told, Event
    <3>. QED BY <3>1, FS_EmptySet DEF Count
  <2>5. ASSUME NEW g \in Gens PROVE Count(events, g) + task[g].waiting + 0 <= task[g].sent
    BY CountFacts DEF ProgressCounted
  <2>. HIDE DEF new
  <2>. QED BY <2>1, <2>2, <2>3, <2>4, <2>5 DEF ProgressCounted
<1>2. ASSUME NEW g \in Gens, Progress(g) \/ Forward(g) \/ Report(g)
      PROVE  ProgressCounted'
  <2>1. /\ UNCHANGED <<op_gen, panel>> /\ Gens' = Gens
        /\ \A h \in Gens : h # g => /\ task'[h] = task[h] /\ Count(events', h) = Count(events, h)
    <3>1. /\ UNCHANGED <<op_gen, panel>> /\ Gens' = Gens
          /\ \A h \in Gens : h # g => task'[h] = task[h]
      BY <1>2 DEF Progress, Forward, Report, ui, Gens, IInv, Typed
    <3>2. ASSUME NEW h \in Gens, h # g PROVE Count(events', h) = Count(events, h)
      <4>1. CASE events' = events
        BY <4>1
      <4>2. CASE \E e \in Events : events' = Append(events, e) /\ e.gen = g
        <5>1. PICK e \in Events : events' = Append(events, e) /\ e.gen = g
          BY <4>2
        <5>2. e # Event("progress", h)
          BY <3>2, <5>1 DEF Event
        <5>. QED BY <5>1, <5>2, CountAppend DEF IInv, Typed
      <4>3. events' = events \/ \E e \in Events : events' = Append(events, e) /\ e.gen = g
        <5>1. CASE Progress(g)
          BY <5>1 DEF Progress
        <5>2. CASE Forward(g)
          <6>1. Event("progress", g) \in Events /\ Event("progress", g).gen = g
            BY PanelsAssumption DEF Event, Events, Gens, IInv, Typed
          <6>. QED BY <5>2, <6>1 DEF Forward
        <5>3. CASE Report(g)
          <6>1. task[g].result \in Outcomes
            BY <5>3 DEF Report, IInv, EventInv, ForwardersDone, FinalTask
          <6>2. /\ Event(task[g].result, g) \in Events
                /\ Event(task[g].result, g).gen = g
            BY <6>1, PanelsAssumption DEF Event, Events, Gens, IInv, Typed
          <6>. QED BY <5>3, <6>2 DEF Report
        <5>. QED BY <1>2, <5>1, <5>2, <5>3
      <4>. QED BY <4>1, <4>2, <4>3
    <3>. QED BY <3>1, <3>2
  <2>2. Count(events', g) + task'[g].waiting + Shown(g) <= task'[g].sent
    <3>0. Count(events, g) + task[g].waiting + Shown(g) <= task[g].sent
      BY DEF ProgressCounted
    <3>1. CASE Progress(g)
      <4>1. /\ events' = events /\ task'[g].waiting = task[g].waiting + 1
            /\ task'[g].sent = task[g].sent + 1
        BY <3>1, CountFacts DEF Progress, IInv, Typed, Tasks
      <4>. QED BY <3>0, <4>1, CountFacts
    <3>2. CASE Forward(g)
      <4>1. /\ task'[g].waiting = task[g].waiting - 1 /\ task'[g].sent = task[g].sent
        BY <3>2, CountFacts DEF Forward, IInv, Typed, Tasks
      <4>2. Event("progress", g) \in Events
        BY PanelsAssumption DEF Event, Events, Gens, IInv, Typed
      <4>3. Count(events', g) \in {Count(events, g), Count(events, g) + 1}
        BY <3>2, <4>2, CountAppend DEF Forward, IInv, Typed
      <4>. QED BY <3>0, <4>1, <4>3, CountFacts
    <3>3. CASE Report(g)
      <4>1. /\ task'[g].waiting = task[g].waiting /\ task'[g].sent = task[g].sent
        BY <3>3, CountFacts DEF Report, IInv, Typed, Tasks
      <4>2. task[g].result \in Outcomes
        BY <3>3 DEF Report, IInv, EventInv, ForwardersDone, FinalTask
      <4>3. /\ Event(task[g].result, g) \in Events
            /\ Event(task[g].result, g) # Event("progress", g)
        BY <4>2, PanelsAssumption DEF Event, Events, Gens, Outcomes, IInv, Typed
      <4>4. Count(events', g) = Count(events, g)
        BY <3>3, <4>3, CountAppend DEF Report, IInv, Typed
      <4>. QED BY <3>0, <4>1, <4>4
    <3>. QED BY <1>2, <3>1, <3>2, <3>3
  <2>3. \A h : Shown(h)' = Shown(h)
    BY <2>1 DEF Shown
  <2>4. ASSUME NEW h \in Gens
        PROVE  Count(events', h) + task'[h].waiting + Shown(h)' <= task'[h].sent
    BY <2>1, <2>2, <2>3 DEF ProgressCounted
  <2>5. \A h : Count(events, h)' = Count(events', h)
    BY DEF Count, Marks
  <2>. QED BY <2>1, <2>4, <2>5 DEF ProgressCounted
<1>3. CASE HandleProgress \/ HandleDone
  <2>1. /\ UNCHANGED <<op_gen, task>> /\ Gens' = Gens /\ events # << >> /\ events' = Tail(events)
        /\ events \in Seq(Events)
    BY <1>3 DEF HandleProgress, HandleDone, worker, Gens, IInv, Typed
  <2>2. ASSUME NEW g \in Gens
        PROVE  Count(events', g) + task[g].waiting + Shown(g)' <= task[g].sent
    <3>1. /\ Count(events, g) = IF Head(events) = Event("progress", g)
                                THEN Count(events', g) + 1 ELSE Count(events', g)
          /\ Count(events, g) + task[g].waiting + Shown(g) <= task[g].sent
      BY <2>1, CountTail DEF ProgressCounted
    <3>2. Count(events', g) \in Nat
      BY <2>1, CountType, TailFacts
    <3>3. CASE Shown(g)' = Shown(g)
      BY <3>1, <3>2, <3>3, CountFacts
    <3>4. CASE Shown(g)' # Shown(g)
      <4>1. HandleProgress /\ panel.gen = Head(events).gen /\ panel.gen = g
            /\ panel' = [panel EXCEPT !.shown = @ + 1]
        BY <1>3, <3>4 DEF HandleProgress, HandleDone, Shown, IInv, Typed
      <4>2. Shown(g)' = Shown(g) + 1
        BY <4>1 DEF Shown, IInv, Typed
      <4>3. Head(events) = Event("progress", g)
        <5>1. Head(events) \in Events /\ Head(events).type = "progress" /\ Head(events).gen = g
          BY <2>1, <4>1, TailFacts DEF HandleProgress
        <5>2. \A x \in Events : x = [type |-> x.type, gen |-> x.gen]
          BY DEF Events
        <5>. QED BY <5>1, <5>2 DEF Event
      <4>. QED BY <3>1, <3>2, <4>2, <4>3, CountFacts
    <3>. QED BY <3>3, <3>4
  <2>3. \A h : Count(events, h)' = Count(events', h)
    BY DEF Count, Marks
  <2>. QED BY <2>1, <2>2, <2>3 DEF ProgressCounted
<1>4. CASE Close
  <2>1. /\ UNCHANGED <<op_gen, task, events>> /\ panel'.gen = 0
    BY <1>4 DEF Close, worker, NoPanel
  <2>2. ASSUME NEW g \in Gens PROVE Count(events, g) + task[g].waiting + 0 <= task[g].sent
    BY CountFacts DEF ProgressCounted
  <2>3. \A g \in Gens : Shown(g)' = 0
    BY <2>1 DEF Shown, Gens
  <2>. QED BY <2>1, <2>2, <2>3 DEF ProgressCounted, Gens, Count, Marks
<1>5. CASE \/ Cancel \/ OpenTab \/ CloseTab \/ Dispatch \/ DispatchCancel \/ DispatchOther
           \/ (\E g \in Gens : Finish(g) \/ GiveUp(g)) \/ UNCHANGED vars
  <2>1. /\ UNCHANGED <<op_gen, panel, events>>
        /\ task' = task \/ \E g \in Gens, t \in Tasks :
               task' = [task EXCEPT ![g] = t] /\ t.waiting = task[g].waiting /\ t.sent = task[g].sent
    <3>1. CASE UNCHANGED task
      BY <1>5, <3>1 DEF Cancel, OpenTab, CloseTab, Dispatch, DispatchCancel, DispatchOther,
                        Finish, GiveUp, ui, worker, vars
    <3>2. CASE Dispatch
      <4>. DEFINE g == Head(cmds).gen
                  t == [task[g] EXCEPT !.stage = "running"]
      <4>1. g \in Gens
        BY <3>2, TailFacts DEF Dispatch, IInv, Typed, CancelInv, Orderly, Waits
      <4>2. t \in Tasks /\ t.waiting = task[g].waiting /\ t.sent = task[g].sent
        BY <4>1, CountFacts DEF Tasks
      <4>3. task' = [task EXCEPT ![g] = t] /\ UNCHANGED <<op_gen, panel, events>>
        BY <3>2 DEF Dispatch, ui
      <4>. QED BY <4>1, <4>2, <4>3
    <3>3. ASSUME NEW g \in Gens, Finish(g) \/ GiveUp(g)
          PROVE  /\ UNCHANGED <<op_gen, panel, events>>
                 /\ \E t \in Tasks : task' = [task EXCEPT ![g] = t]
                                     /\ t.waiting = task[g].waiting /\ t.sent = task[g].sent
      <4>1. CASE Finish(g)
        <5>1. PICK result \in Outcomes :
                 task' = [task EXCEPT ![g].stage = "finishing", ![g].result = result]
          BY <4>1 DEF Finish
        <5>. DEFINE t == [task[g] EXCEPT !.stage = "finishing", !.result = result]
        <5>2. t \in Tasks /\ t.waiting = task[g].waiting /\ t.sent = task[g].sent
          BY CountFacts DEF Tasks
        <5>3. task' = [task EXCEPT ![g] = t]
          BY <5>1
        <5>. QED BY <4>1, <5>2, <5>3 DEF Finish, ui
      <4>2. CASE GiveUp(g)
        <5>. DEFINE t == [task[g] EXCEPT !.stage = "lost"]
        <5>1. t \in Tasks /\ t.waiting = task[g].waiting /\ t.sent = task[g].sent
          BY CountFacts DEF Tasks
        <5>2. task' = [task EXCEPT ![g] = t]
          BY <4>2 DEF GiveUp
        <5>. QED BY <4>2, <5>1, <5>2 DEF GiveUp, ui
      <4>. QED BY <3>3, <4>1, <4>2
    <3>4. \/ UNCHANGED task \/ Dispatch \/ \E g \in Gens : Finish(g) \/ GiveUp(g)
      BY <1>5 DEF Cancel, OpenTab, CloseTab, DispatchCancel, DispatchOther, worker, vars
    <3>. QED BY <3>1, <3>2, <3>3, <3>4
  <2>2. \A h \in Gens : task'[h].waiting = task[h].waiting /\ task'[h].sent = task[h].sent
    BY <2>1, TaskStep DEF IInv
  <2>. QED BY <2>1, <2>2 DEF ProgressCounted, Gens, Count, Marks, Shown
<1>. QED BY <1>1, <1>2, <1>3, <1>4, <1>5 DEF Next

\* Every variable of the panels, the buses and the operations keeps its type,
\* the buses stay within their capacities, and a panel never shows more progress
\* than its operation produced: an event is shown once, or lost.
THEOREM TypeCorrect == Spec => []TypeOK
<1>1. IInv /\ ProgressCounted => TypeOK
  <2>. SUFFICES ASSUME IInv, ProgressCounted PROVE TypeOK
    OBVIOUS
  <2>1. panel.shown <= MaxProgress
    <3>1. CASE panel.gen \in Gens
      <4>. DEFINE g == panel.gen
      <4>1. Shown(g) = panel.shown
        BY DEF Shown
      <4>2. Count(events, g) + task[g].waiting + Shown(g) <= task[g].sent
        BY <3>1 DEF ProgressCounted
      <4>. HIDE DEF g
      <4>3. g \in Gens
        BY <3>1 DEF g
      <4>. QED BY <4>1, <4>2, <4>3, CountFacts, PanelsAssumption
    <3>2. CASE panel.gen = 0
      BY <3>2, PanelsAssumption DEF IInv, CancelInv, LatestShown
    <3>. QED BY <3>1, <3>2, PanelsAssumption DEF IInv, CancelInv, LatestShown, Typed, Gens
  <2>2. panel \in Panels
    BY <2>1, PanelsAssumption DEF Panels, IInv, Typed
  <2>. QED BY <2>2, PanelsAssumption DEF TypeOK, IInv, Typed, Gens
<1>. QED BY <1>1, InitInv, StepInv, CountInit, CountStep, PTL DEF Spec
=============================================================================
