--------------------------- MODULE Topology_proofs ---------------------------
(***************************************************************************)
(* Proofs about Topology, for all capacities of the buses and any number   *)
(* of tabs, fetches, loops and changes of the cluster; and about the       *)
(* picture, for all clusters and whatever happens to them during a poll.   *)
(***************************************************************************)
EXTENDS Dashboard, SequenceTheorems, FiniteSetTheorems, TLAPS

\* Requests are numbered as they are asked, and each gets one task at most.
Pending(q) == cmds[q].do # "off"

Numbered ==
    /\ asked >= 1
    /\ \A q \in 1..Len(cmds) : Pending(q) => /\ cmds[q].request \in 1..asked
                                             /\ task[cmds[q].request].kind = "none"
    /\ \A p, q \in 1..Len(cmds) : p < q /\ Pending(p) /\ Pending(q)
                                    => cmds[p].request # cmds[q].request
    /\ \A r \in Requests : r > asked => task[r].kind = "none"
    /\ \A r \in Requests : task[r].kind = "none" => task[r].stage = "none"
    /\ \A i \in 1..Len(events) : /\ task[events[i].request].kind # "none"
                                 /\ task[events[i].request].gen = events[i].gen

\* The slot holds the one loop that goes on.
OneLoop ==
    /\ \A r \in Requests : Live(r) => slot = r
    /\ slot # 0 => Live(slot)

\* The worker's slot, or the last command about the loop that it has not taken
\* yet, say what the tab believes.
Says(n) ==
    IF n = 0 THEN slot ELSE IF cmds[n].do = "auto" THEN cmds[n].request ELSE 0
LastWord(n) ==
    /\ n # 0 => cmds[n].do # "fetch"
    /\ \A p \in 1..Len(cmds) : p > n => cmds[p].do = "fetch"
Wanted == IF open THEN auto ELSE 0
Told ==
    lost \cap {"command", "off"} = {} =>
        \A n \in 0..Len(cmds) : LastWord(n) => Says(n) = Wanted

\* As long as no counter has begun again, the present generations are those
\* of the last fetch and of the present loop alone.
FirstTime == asked = manualGen + autoGen
OfKind(kind, r, gen) ==
    /\ kind = "manual" => gen <= manualGen /\ (gen = manualGen => r = manual)
    /\ kind = "auto" => gen <= autoGen /\ (gen = autoGen => r = auto)
Sends == [fetch |-> "manual", auto |-> "auto", off |-> "none"]
Distinct ==
    /\ manualGen + autoGen <= asked
    /\ FirstTime =>
         /\ \A q \in 1..Len(cmds) : OfKind(Sends[cmds[q].do], cmds[q].request, cmds[q].gen)
         /\ \A r \in Requests : OfKind(task[r].kind, r, task[r].gen)

IInv == TypeOK /\ Numbered /\ OneLoop /\ Told /\ Distinct

-----------------------------------------------------------------------------
(* The buses.                                                              *)

LEMMA AppendFacts ==
    ASSUME NEW S, NEW q \in Seq(S), NEW e \in S
    PROVE  /\ Append(q, e) \in Seq(S) /\ Append(q, e) # << >>
           /\ Len(q) \in Nat /\ Len(Append(q, e)) = Len(q) + 1
           /\ \A i \in 1..Len(q) : q[i] \in S /\ Append(q, e)[i] = q[i]
           /\ Append(q, e)[Len(q) + 1] = e
OBVIOUS

LEMMA TailFacts ==
    ASSUME NEW S, NEW q \in Seq(S), q # << >>
    PROVE  /\ Tail(q) \in Seq(S) /\ Head(q) = q[1] /\ Head(q) \in S
           /\ Len(q) \in Nat \ {0} /\ Len(Tail(q)) = Len(q) - 1
           /\ \A i \in 1..Len(Tail(q)) : i + 1 \in 1..Len(q) /\ Tail(q)[i] = q[i + 1]
OBVIOUS

\* A command goes behind all others, or is noted as lost.
LEMMA IssueFacts ==
    ASSUME TypeOK, NEW c \in Commands, Issue(c)
    PROVE  /\ cmds' \in Seq(Commands) /\ Len(cmds') <= CmdCap /\ Len(cmds) \in Nat
           /\ lost' \subseteq {"command", "snapshot", "off"} /\ lost \subseteq lost'
           /\ \/ cmds' = cmds /\ "command" \in lost'
              \/ /\ lost' = lost
                 /\ Len(cmds') = Len(cmds) + 1 /\ cmds'[Len(cmds) + 1] = c
                 /\ \A q \in 1..Len(cmds) : cmds'[q] = cmds[q]
<1>1. cmds \in Seq(Commands) /\ Len(cmds) <= CmdCap /\ Len(cmds) \in Nat
  BY DEF TypeOK
<1>2. CASE Len(cmds) < CmdCap /\ cmds' = Append(cmds, c) /\ UNCHANGED lost
  <2>1. /\ cmds' \in Seq(Commands) /\ Len(cmds') = Len(cmds) + 1
        /\ cmds'[Len(cmds) + 1] = c /\ \A q \in 1..Len(cmds) : cmds'[q] = cmds[q]
    BY <1>1, <1>2, AppendFacts
  <2>2. Len(cmds') <= CmdCap
    BY <1>1, <1>2, <2>1, TopologyAssumption
  <2>. QED BY <1>1, <1>2, <2>1, <2>2 DEF TypeOK
<1>3. CASE Len(cmds) = CmdCap /\ lost' = lost \cup {"command"} /\ UNCHANGED cmds
  BY <1>1, <1>3 DEF TypeOK
<1>. QED BY <1>2, <1>3 DEF Issue

LEMMA InitInv == Init => IInv
<1>. SUFFICES ASSUME Init PROVE IInv
  OBVIOUS
<1>1. asked = 1 /\ 1 \in 1..MaxFetches /\ 1 \in Gens /\ 0 \in Gens
  BY TopologyAssumption DEF Init, Gens
<1>2. /\ cmds \in Seq(Commands) /\ Len(cmds) = 1
      /\ cmds[1] = [do |-> "fetch", request |-> 1, gen |-> 1]
  <2>1. [do |-> "fetch", request |-> 1, gen |-> 1] \in Commands
    BY <1>1 DEF Commands
  <2>. QED BY <2>1 DEF Init
<1>3. events \in Seq(Events) /\ Len(events) = 0
  BY DEF Init
<1>4. /\ NoTask \in Tasks /\ 0 \in Versions
      /\ NoTask.kind = "none" /\ NoTask.stage = "none"
  BY <1>1, TopologyAssumption DEF NoTask, Tasks, Stages, Versions
<1>5. TypeOK
  BY <1>1, <1>2, <1>3, <1>4, TopologyAssumption DEF Init, TypeOK, Nothing
<1>6. Numbered
  BY <1>1, <1>2, <1>3, <1>4 DEF Init, Numbered, Pending, Requests
<1>7. OneLoop
  BY <1>4 DEF Init, OneLoop, Live
<1>8. Told
  BY <1>2 DEF Init, Told, LastWord, Says, Wanted
<1>9. Distinct
  BY <1>1, <1>2, <1>4 DEF Init, Distinct, FirstTime, OfKind, Sends, Requests
<1>. QED BY <1>5, <1>6, <1>7, <1>8, <1>9 DEF IInv

-----------------------------------------------------------------------------
(* The tab.                                                                *)

\* What one more command says, when it was accepted, is the last word; other
\* commands keep theirs.
LEMMA ToldStep ==
    ASSUME TypeOK, Told, NEW c \in Commands, Issue(c), slot' = slot,
           c.do = "fetch" => Wanted' = Wanted,
           c.do = "auto" => Wanted' = c.request,
           c.do = "off" => Wanted' = 0
    PROVE  Told'
<1>. SUFFICES ASSUME lost' \cap {"command", "off"} = {},
                     NEW n \in 0..Len(cmds'), LastWord(n)'
              PROVE  Says(n)' = Wanted'
  BY DEF Told
<1>1. /\ lost' = lost /\ Len(cmds) \in Nat
      /\ Len(cmds') = Len(cmds) + 1 /\ cmds'[Len(cmds) + 1] = c
      /\ \A q \in 1..Len(cmds) : cmds'[q] = cmds[q]
  BY IssueFacts
<1>2. CASE n = Len(cmds) + 1
  <2>1. Says(n)' = IF c.do = "auto" THEN c.request ELSE 0
    BY <1>1, <1>2 DEF Says
  <2>2. c.do \in {"auto", "off"}
    BY <1>1, <1>2 DEF LastWord, Commands
  <2>. QED BY <2>1, <2>2
<1>3. CASE n \in 0..Len(cmds)
  <2>1. c.do = "fetch"
    BY <1>1, <1>3 DEF LastWord
  <2>2. LastWord(n)
    BY <1>1, <1>3 DEF LastWord
  <2>3. Says(n) = Wanted
    BY <1>1, <1>3, <2>2 DEF Told
  <2>. QED BY <1>1, <1>3, <2>1, <2>3 DEF Says
<1>. QED BY <1>1, <1>2, <1>3

\* A request takes the next number, and no task has it.
LEMMA AskedStep ==
    ASSUME TypeOK, Numbered, OneLoop, NEW c \in Commands, Issue(c), c.do # "off",
           asked < MaxFetches, asked' = asked + 1, c.request = asked + 1,
           UNCHANGED <<task, events, slot>>
    PROVE  Numbered' /\ OneLoop'
<1>1. /\ asked \in Nat /\ asked + 1 \in Requests /\ asked >= 1 /\ asked \in 0..MaxFetches
  BY TopologyAssumption DEF TypeOK, Numbered, Requests
<1>2. task[asked + 1].kind = "none"
  BY <1>1 DEF Numbered
<1>3. Len(cmds) \in Nat
  BY DEF TypeOK
<1>4. ASSUME NEW q \in 1..Len(cmds')
      PROVE  \/ q \in 1..Len(cmds) /\ cmds'[q] = cmds[q]
             \/ q = Len(cmds) + 1 /\ cmds'[q] = c
  BY <1>3, IssueFacts
<1>5. ASSUME NEW q \in 1..Len(cmds'), Pending(q)'
      PROVE  cmds'[q].request \in 1..(asked + 1) /\ task[cmds'[q].request].kind = "none"
  <2>1. CASE q \in 1..Len(cmds) /\ cmds'[q] = cmds[q]
    <3>1. cmds[q].request \in 1..asked /\ task[cmds[q].request].kind = "none"
      BY <1>5, <2>1 DEF Numbered, Pending
    <3>. QED BY <1>1, <2>1, <3>1
  <2>2. CASE cmds'[q] = c
    BY <1>1, <1>2, <2>2
  <2>. QED BY <1>4, <2>1, <2>2
<1>6. ASSUME NEW p \in 1..Len(cmds'), NEW q \in 1..Len(cmds'), p < q,
             Pending(p)', Pending(q)'
      PROVE  cmds'[p].request # cmds'[q].request
  <2>1. p \in 1..Len(cmds) /\ cmds'[p] = cmds[p] /\ cmds[p].request \in 1..asked
    <3>1. p \in 1..Len(cmds) /\ cmds'[p] = cmds[p]
      BY <1>3, <1>4, <1>6
    <3>. QED BY <1>6, <3>1 DEF Numbered, Pending
  <2>2. CASE q \in 1..Len(cmds) /\ cmds'[q] = cmds[q]
    BY <1>6, <2>1, <2>2 DEF Numbered, Pending
  <2>3. CASE cmds'[q] = c
    BY <1>1, <2>1, <2>3
  <2>. QED BY <1>4, <2>2, <2>3
<1>7. /\ asked' >= 1 /\ \A r \in Requests : r > asked' => task[r].kind = "none"
      /\ \A r \in Requests : task[r].kind = "none" => task[r].stage = "none"
  BY <1>1 DEF Numbered, Requests
<1>8. Numbered'
  BY <1>1, <1>5, <1>6, <1>7 DEF Numbered
<1>9. OneLoop'
  BY DEF OneLoop, Live
<1>. QED BY <1>8, <1>9

\* A new generation of either kind.
LEMMA DistinctStep ==
    ASSUME TypeOK, Numbered, Distinct, NEW c \in Commands, Issue(c),
           asked < MaxFetches, asked' = asked + 1, c.request = asked + 1,
           UNCHANGED task,
           \/ /\ c.do = "fetch" /\ c.gen = manualGen' /\ manual' = c.request
              /\ manualGen' = manualGen + 1 /\ UNCHANGED <<autoGen, auto>>
           \/ /\ c.do = "auto" /\ c.gen = autoGen' /\ auto' = c.request
              /\ autoGen' = autoGen + 1 /\ UNCHANGED <<manualGen, manual>>
    PROVE  Distinct'
<1>1. /\ asked \in Nat /\ manualGen \in Nat /\ autoGen \in Nat /\ Len(cmds) \in Nat
      /\ manualGen + autoGen <= asked
  BY TopologyAssumption DEF TypeOK, Gens, Distinct
<1>2. manualGen' + autoGen' <= asked' /\ (FirstTime' => FirstTime)
  BY <1>1 DEF FirstTime
<1>. SUFFICES ASSUME FirstTime
              PROVE  /\ \A q \in 1..Len(cmds') :
                           OfKind(Sends[cmds[q].do], cmds[q].request, cmds[q].gen)'
                     /\ \A r \in Requests : OfKind(task[r].kind, r, task[r].gen)'
  BY <1>2 DEF Distinct
<1>3. Sends["fetch"] = "manual" /\ Sends["auto"] = "auto" /\ Sends["off"] = "none"
  BY DEF Sends
<1>4. ASSUME NEW q \in 1..Len(cmds')
      PROVE  OfKind(Sends[cmds[q].do], cmds[q].request, cmds[q].gen)'
  <2>1. CASE q \in 1..Len(cmds) /\ cmds'[q] = cmds[q]
    <3>1. cmds[q].gen \in Nat /\ OfKind(Sends[cmds[q].do], cmds[q].request, cmds[q].gen)
      <4>1. cmds[q] \in Commands
        BY <2>1 DEF TypeOK
      <4>. QED BY <2>1, <4>1, TopologyAssumption DEF Commands, Gens, Distinct
    <3>2. OfKind(Sends[cmds[q].do], cmds[q].request, cmds[q].gen)'
      BY <1>1, <2>1, <3>1 DEF OfKind
    <3>. QED BY <3>2
  <2>2. CASE cmds'[q] = c
    BY <1>1, <1>3, <2>2 DEF OfKind
  <2>. QED BY <1>1, <2>1, <2>2, IssueFacts
<1>5. ASSUME NEW r \in Requests PROVE OfKind(task[r].kind, r, task[r].gen)'
  <2>1. task[r].gen \in Nat /\ OfKind(task[r].kind, r, task[r].gen)
    BY TopologyAssumption DEF TypeOK, Tasks, Gens, Distinct
  <2>2. OfKind(task[r].kind, r, task[r].gen)'
    BY <1>1, <2>1 DEF OfKind
  <2>. QED BY <2>2
<1>. QED BY <1>4, <1>5

LEMMA AskInv ==
    ASSUME IInv, OpenTab \/ Refresh \/ (SetAuto /\ ~AutoOff)
    PROVE  IInv'
<1>. USE DEF IInv
<1>1. /\ asked \in 0..MaxFetches /\ asked >= 1 /\ manualGen \in Nat /\ autoGen \in Nat
      /\ manualGen + autoGen <= asked /\ 1 \in Gens /\ 0 \in Gens
      /\ asked + 1 <= MaxFetches => asked + 1 \in 1..MaxFetches
      /\ asked + 1 <= MaxFetches =>
           manualGen + 1 \in Gens /\ autoGen + 1 \in Gens
      /\ MaxFetches \in Nat
  BY TopologyAssumption DEF TypeOK, Gens, Numbered, Distinct
<1>2. /\ asked < MaxFetches /\ asked' = asked + 1
      /\ UNCHANGED <<world, events, task, slot>>
  BY DEF OpenTab, Refresh, SetAuto, AutoOn, ChangeInterval, StartAuto, Fetch, NewRequest
<1>3. asked + 1 \in 1..MaxFetches /\ asked + 1 \in 0..MaxFetches /\ asked' \in 0..MaxFetches
  BY <1>1, <1>2
<1>4. CASE OpenTab
  <2>. DEFINE c == [do |-> "fetch", request |-> asked + 1, gen |-> 1]
  <2>1. /\ ~open /\ tabs < MaxTabs /\ open' = TRUE /\ tabs' = tabs + 1
        /\ manualGen' = 1 /\ manual' = asked + 1 /\ loading' = TRUE /\ Issue(c)
        /\ autoGen' = 0 /\ auto' = 0 /\ shown' = Nothing
    BY <1>2, <1>4 DEF OpenTab, Fetch, NewRequest
  <2>2. c \in Commands /\ c.do = "fetch" /\ c.request = asked + 1
    BY <1>1, <1>3 DEF Commands
  <2>. HIDE DEF c
  <2>3. Numbered' /\ OneLoop'
    BY <1>2, <2>1, <2>2, AskedStep
  <2>4. Told'
    BY <1>2, <2>1, <2>2, ToldStep DEF Wanted
  <2>5. manualGen' + autoGen' <= asked' /\ ~FirstTime'
    BY <1>1, <1>2, <2>1 DEF FirstTime
  <2>6. Nothing \in [request : 0..MaxFetches, got : Versions] /\ tabs' \in 1..MaxTabs
    BY <2>1, TopologyAssumption DEF Nothing, Versions, TypeOK
  <2>7. TypeOK'
    BY <1>1, <1>2, <1>3, <2>1, <2>2, <2>6, IssueFacts DEF TypeOK
  <2>. QED BY <2>3, <2>4, <2>5, <2>7 DEF Distinct
<1>5. CASE Refresh
  <2>. DEFINE c == [do |-> "fetch", request |-> asked + 1, gen |-> manualGen + 1]
  <2>1. /\ manualGen' = manualGen + 1 /\ manual' = asked + 1 /\ loading' = TRUE /\ Issue(c)
        /\ UNCHANGED <<open, tabs, autoGen, auto, shown>>
    BY <1>2, <1>5 DEF Refresh, Fetch, NewRequest
  <2>2. c \in Commands /\ c.do = "fetch" /\ c.request = asked + 1 /\ c.gen = manualGen + 1
    BY <1>1, <1>2, <1>3 DEF Commands
  <2>. HIDE DEF c
  <2>3. Numbered' /\ OneLoop'
    BY <1>2, <2>1, <2>2, AskedStep
  <2>4. Told'
    BY <1>2, <2>1, <2>2, ToldStep DEF Wanted
  <2>5. Distinct'
    BY <1>2, <2>1, <2>2, DistinctStep
  <2>6. TypeOK'
    BY <1>1, <1>2, <1>3, <2>1, <2>2, IssueFacts DEF TypeOK
  <2>. QED BY <2>3, <2>4, <2>5, <2>6
<1>6. CASE SetAuto /\ ~AutoOff
  <2>. DEFINE c == [do |-> "auto", request |-> asked + 1, gen |-> autoGen + 1]
  <2>1. /\ open /\ autoGen' = autoGen + 1 /\ auto' = asked + 1 /\ Issue(c)
        /\ UNCHANGED <<open, tabs, manualGen, loading, shown, manual>>
    BY <1>1, <1>2, <1>6 DEF SetAuto, AutoOn, ChangeInterval, StartAuto, NewRequest
  <2>2. c \in Commands /\ c.do = "auto" /\ c.request = asked + 1 /\ c.gen = autoGen + 1
    BY <1>1, <1>2, <1>3 DEF Commands
  <2>. HIDE DEF c
  <2>3. Numbered' /\ OneLoop'
    BY <1>2, <2>1, <2>2, AskedStep
  <2>4. Told'
    BY <1>2, <2>1, <2>2, ToldStep DEF Wanted
  <2>5. Distinct'
    BY <1>2, <2>1, <2>2, DistinctStep
  <2>6. TypeOK'
    BY <1>1, <1>2, <1>3, <2>1, <2>2, IssueFacts DEF TypeOK
  <2>. QED BY <2>3, <2>4, <2>5, <2>6
<1>. QED BY <1>4, <1>5, <1>6

\* The tab has no loop any more.
LEMMA OffInv ==
    ASSUME IInv, (AutoOff /\ SetAuto) \/ CloseTab \/ Destroyed
    PROVE  IInv'
<1>. USE DEF IInv
<1>. DEFINE g == IF SetAuto /\ AutoOff THEN autoGen + 1 ELSE 0
            c == [do |-> "off", request |-> 0, gen |-> g]
<1>1. /\ UNCHANGED <<world, tabs, manualGen, loading, shown, manual, asked, events, task, slot>>
      /\ open /\ open' \in BOOLEAN
  BY DEF AutoOff, SetAuto, CloseTab, Destroyed
<1>2. /\ asked \in Nat /\ manualGen \in Nat /\ autoGen \in Nat /\ manualGen + autoGen <= asked
      /\ asked <= MaxFetches /\ 0 \in 0..MaxFetches /\ 0 \in Gens /\ autoGen + 1 \in Gens
      /\ Len(cmds) \in Nat
  BY TopologyAssumption DEF TypeOK, Gens, Distinct
<1>3. c \in Commands /\ c.do = "off" /\ c.request = 0
  BY <1>2 DEF Commands
<1>4. \/ Issue(c)
      \/ cmds' = cmds /\ lost' \in {lost, lost \cup {"off"}}
  BY DEF AutoOff, SetAuto, CloseTab, Destroyed
<1>. HIDE DEF c, g
<1>5. /\ cmds' \in Seq(Commands) /\ Len(cmds') <= CmdCap
      /\ lost' \subseteq {"command", "snapshot", "off"} /\ lost \subseteq lost'
      /\ \A q \in 1..Len(cmds') :
            \/ q \in 1..Len(cmds) /\ cmds'[q] = cmds[q]
            \/ q = Len(cmds) + 1 /\ cmds'[q] = c
  <2>1. CASE Issue(c)
    BY <1>2, <1>3, <2>1, IssueFacts
  <2>2. CASE cmds' = cmds /\ lost' \in {lost, lost \cup {"off"}}
    BY <2>2 DEF TypeOK
  <2>. QED BY <1>4, <2>1, <2>2
<1>6. \/ UNCHANGED <<autoGen, auto>>
      \/ autoGen # 0 /\ autoGen' = 0 /\ auto' = 0 /\ UNCHANGED open
  BY DEF AutoOff, SetAuto, CloseTab, Destroyed
<1>7. TypeOK'
  BY <1>1, <1>2, <1>5, <1>6 DEF TypeOK
<1>8. Numbered'
  <2>1. \A q \in 1..Len(cmds') :
          Pending(q)' => q \in 1..Len(cmds) /\ cmds'[q] = cmds[q] /\ Pending(q)
    BY <1>3, <1>5 DEF Pending
  <2>. QED BY <1>1, <2>1 DEF Numbered
<1>9. OneLoop'
  BY <1>1 DEF OneLoop, Live
<1>10. Told'
  <2>1. CASE SetAuto /\ AutoOff
    BY <1>1, <1>3, <2>1, ToldStep DEF SetAuto, AutoOff, Wanted, c, g
  <2>2. CASE CloseTab
    <3>1. Wanted' = 0 /\ Issue(c)
      BY <2>2 DEF CloseTab, Wanted, c, g, SetAuto
    <3>. QED BY <1>1, <1>3, <3>1, ToldStep
  <2>3. CASE Destroyed
    <3>1. /\ cmds' = cmds /\ ~open' /\ auto' = auto
          /\ lost' = IF auto # 0 THEN lost \cup {"off"} ELSE lost
      BY <2>3 DEF Destroyed
    <3>2. CASE auto # 0
      BY <3>1, <3>2 DEF Told
    <3>3. CASE auto = 0
      BY <1>1, <3>1, <3>3 DEF Told, LastWord, Says, Wanted
    <3>. QED BY <3>2, <3>3
  <2>. QED BY <2>1, <2>2, <2>3
<1>11. Distinct'
  <2>1. CASE UNCHANGED <<autoGen, auto>>
    <3>. SUFFICES ASSUME FirstTime
                  PROVE  \A q \in 1..Len(cmds') :
                           OfKind(Sends[cmds[q].do], cmds[q].request, cmds[q].gen)'
      BY <1>1, <2>1 DEF Distinct, FirstTime, OfKind
    <3>1. Sends["off"] = "none"
      BY DEF Sends
    <3>. QED BY <1>1, <1>3, <1>5, <2>1, <3>1 DEF Distinct, OfKind
  <2>2. CASE autoGen # 0 /\ autoGen' = 0
    BY <1>1, <1>2, <2>2 DEF Distinct, FirstTime
  <2>. QED BY <1>6, <2>1, <2>2
<1>. QED BY <1>7, <1>8, <1>9, <1>10, <1>11

LEMMA HandleInv ==
    ASSUME IInv, HandleTopology
    PROVE  IInv'
<1>. USE DEF IInv
<1>1. /\ UNCHANGED <<world, open, tabs, manualGen, autoGen, manual, auto, asked, cmds, task, slot,
                     lost>>
      /\ events' = Tail(events) /\ events # << >>
  BY DEF HandleTopology
<1>2. /\ events' \in Seq(Events) /\ Len(events') <= EventCap /\ Head(events) \in Events
      /\ \A i \in 1..Len(events') : i + 1 \in 1..Len(events) /\ events'[i] = events[i + 1]
  <2>1. events \in Seq(Events) /\ Len(events) <= EventCap
    BY DEF TypeOK
  <2>. QED BY <1>1, <2>1, TailFacts, TopologyAssumption
<1>3. shown' \in [request : 0..MaxFetches, got : Versions] /\ loading' \in BOOLEAN
  <2>1. ApplyTopology(Head(events)) \/ UNCHANGED <<shown, loading>>
    BY DEF HandleTopology
  <2>2. ASSUME Head(events).got # Err
        PROVE  [request |-> Head(events).request, got |-> Head(events).got]
                    \in [request : 0..MaxFetches, got : Versions]
    BY <1>2, <2>2, TopologyAssumption DEF Events, Requests
  <2>. QED BY <2>1, <2>2 DEF ApplyTopology, TypeOK
<1>4. TypeOK'
  BY <1>1, <1>2, <1>3 DEF TypeOK
<1>5. Numbered'
  BY <1>1, <1>2 DEF Numbered, Pending
<1>6. OneLoop' /\ Told' /\ Distinct'
  BY <1>1 DEF OneLoop, Live, Told, LastWord, Says, Wanted, Distinct, FirstTime, OfKind
<1>. QED BY <1>4, <1>5, <1>6

-----------------------------------------------------------------------------
(* The worker.                                                             *)

LEMMA CancelSlotFacts ==
    ASSUME TypeOK
    PROVE  /\ CancelSlot \in [Requests -> Tasks]
           /\ \A r \in Requests : /\ CancelSlot[r].kind = task[r].kind
                                  /\ CancelSlot[r].gen = task[r].gen
                                  /\ CancelSlot[r].stage = task[r].stage
                                  /\ r = slot => CancelSlot[r].cancelled
                                  /\ r # slot => CancelSlot[r] = task[r]
<1>1. ASSUME NEW r \in Requests
      PROVE  /\ CancelSlot[r] \in Tasks
             /\ CancelSlot[r].kind = task[r].kind
             /\ CancelSlot[r].gen = task[r].gen
             /\ CancelSlot[r].stage = task[r].stage
             /\ r = slot => CancelSlot[r].cancelled
             /\ r # slot => CancelSlot[r] = task[r]
  <2>. DEFINE t == [task[r] EXCEPT !.cancelled = TRUE]
  <2>1. task[r] \in Tasks
    BY DEF TypeOK
  <2>2. /\ t \in Tasks /\ t.kind = task[r].kind /\ t.gen = task[r].gen
        /\ t.stage = task[r].stage /\ t.cancelled
    BY <2>1 DEF Tasks
  <2>3. CancelSlot[r] = IF r = slot THEN t ELSE task[r]
    BY DEF CancelSlot
  <2>. HIDE DEF t
  <2>. QED BY <2>1, <2>2, <2>3
<1>2. CancelSlot = [r \in Requests |-> CancelSlot[r]]
  BY DEF CancelSlot
<1>. QED BY <1>1, <1>2

\* What the worker has taken from the queue is what the queue said.
LEMMA TakenFacts ==
    ASSUME TypeOK, cmds # << >>, cmds' = Tail(cmds)
    PROVE  /\ cmds' \in Seq(Commands) /\ Len(cmds') <= CmdCap
           /\ Head(cmds) = cmds[1] /\ Head(cmds) \in Commands
           /\ Len(cmds) \in Nat \ {0} /\ 1 \in 1..Len(cmds) /\ Len(cmds') = Len(cmds) - 1
           /\ \A q \in 1..Len(cmds') : q + 1 \in 1..Len(cmds) /\ cmds'[q] = cmds[q + 1]
<1>1. cmds \in Seq(Commands) /\ Len(cmds) <= CmdCap
  BY DEF TypeOK
<1>. QED BY <1>1, TailFacts, TopologyAssumption

LEMMA TakenTold ==
    ASSUME TypeOK, Told, cmds # << >>, cmds' = Tail(cmds), UNCHANGED <<open, auto, lost>>,
           Head(cmds).do = "fetch" => slot' = slot,
           Head(cmds).do = "auto" => slot' = Head(cmds).request,
           Head(cmds).do = "off" => slot' = 0
    PROVE  Told'
<1>. SUFFICES ASSUME lost \cap {"command", "off"} = {},
                     NEW n \in 0..Len(cmds'), LastWord(n)'
              PROVE  Says(n)' = Wanted
  BY DEF Told, Wanted
<1>1. /\ Head(cmds) = cmds[1] /\ Head(cmds) \in Commands
      /\ Len(cmds) \in Nat \ {0} /\ Len(cmds') = Len(cmds) - 1
      /\ \A q \in 1..Len(cmds') : q + 1 \in 1..Len(cmds) /\ cmds'[q] = cmds[q + 1]
  BY TakenFacts
<1>2. ASSUME NEW p \in 2..Len(cmds)
      PROVE  p - 1 \in 1..Len(cmds') /\ cmds'[p - 1] = cmds[p]
  BY <1>1
<1>3. CASE n # 0
  <2>1. n + 1 \in 1..Len(cmds) /\ cmds'[n] = cmds[n + 1]
    BY <1>1, <1>3
  <2>2. ASSUME NEW p \in 1..Len(cmds), p > n + 1 PROVE cmds[p].do = "fetch"
    <3>1. p \in 2..Len(cmds) /\ p - 1 > n
      BY <1>1, <1>3, <2>2
    <3>. QED BY <1>2, <3>1 DEF LastWord
  <2>3. LastWord(n + 1)
    BY <1>1, <1>3, <2>1, <2>2 DEF LastWord
  <2>4. Says(n + 1) = Wanted
    BY <2>1, <2>3 DEF Told
  <2>. QED BY <1>1, <1>3, <2>1, <2>4 DEF Says
<1>4. CASE n = 0
  <2>1. \A p \in 2..Len(cmds) : cmds[p].do = "fetch"
    <3>. TAKE p \in 2..Len(cmds)
    <3>1. p - 1 > n
      BY <1>4
    <3>. QED BY <1>2, <3>1 DEF LastWord
  <2>2. CASE Head(cmds).do = "fetch"
    <3>1. LastWord(0) /\ 0 \in 0..Len(cmds)
      BY <1>1, <2>1, <2>2 DEF LastWord
    <3>. QED BY <1>4, <2>2, <3>1 DEF Told, Says
  <2>3. CASE Head(cmds).do # "fetch"
    <3>1. LastWord(1) /\ 1 \in 0..Len(cmds)
      BY <1>1, <2>1, <2>3 DEF LastWord
    <3>2. Says(1) = Wanted
      BY <3>1 DEF Told
    <3>. QED BY <1>1, <1>4, <2>3, <3>2 DEF Says, Commands
  <2>. QED BY <2>2, <2>3
<1>. QED BY <1>3, <1>4

LEMMA TakeInv ==
    ASSUME IInv, TakeCommand
    PROVE  IInv'
<1>. USE DEF IInv
<1>. DEFINE c == Head(cmds)
<1>1. /\ cmds # << >> /\ cmds' = Tail(cmds)
      /\ UNCHANGED <<world, open, tabs, manualGen, autoGen, loading, shown, manual, auto,
                     asked, events, lost>>
  BY DEF TakeCommand, tab
<1>2. /\ cmds' \in Seq(Commands) /\ Len(cmds') <= CmdCap
      /\ c = cmds[1] /\ c \in Commands
      /\ Len(cmds) \in Nat \ {0} /\ 1 \in 1..Len(cmds) /\ Len(cmds') = Len(cmds) - 1
      /\ \A q \in 1..Len(cmds') : q + 1 \in 1..Len(cmds) /\ cmds'[q] = cmds[q + 1]
  BY <1>1, TakenFacts
<1>3. /\ c.do = "fetch" => slot' = slot
      /\ c.do = "auto" => slot' = c.request
      /\ c.do = "off" => slot' = 0
      /\ c.do \in {"fetch", "auto", "off"}
  BY <1>2 DEF TakeCommand, Commands
<1>4. Told' /\ \A r \in 1..asked : r \in Requests
  <2>1. asked \in 0..MaxFetches /\ MaxFetches \in Nat
    BY TopologyAssumption DEF TypeOK
  <2>. QED BY <1>1, <1>3, <2>1, TakenTold DEF Requests
<1>. DEFINE new == [kind |-> Sends[c.do], gen |-> c.gen, stage |-> "fetch", got |-> 0,
                    cancelled |-> FALSE]
<1>5. Sends["fetch"] = "manual" /\ Sends["auto"] = "auto" /\ Sends["off"] = "none"
  BY DEF Sends
<1>6. c.do # "off" => /\ c.request \in 1..asked /\ c.request \in Requests
                      /\ task[c.request].kind = "none"
                      /\ c.request # slot
  <2>1. c.do # "off" => c.request \in 1..asked /\ task[c.request].kind = "none"
    BY <1>2 DEF Numbered, Pending
  <2>2. c.do # "off" => c.request \in Requests
    BY <1>4, <2>1
  <2>3. c.do # "off" => c.request # slot
    BY <2>1, <2>2 DEF OneLoop, Live, Requests
  <2>. QED BY <2>1, <2>2, <2>3
<1>7. c.do # "off" => /\ new \in Tasks /\ new.kind = Sends[c.do] /\ new.gen = c.gen
                      /\ new.stage = "fetch" /\ ~new.cancelled
  BY <1>2, <1>5, TopologyAssumption DEF Tasks, Commands, Versions, Stages
\* Each task but the new one is what it was, or was in the slot and is cancelled.
<1>8. \/ c.do = "fetch" /\ task' = [task EXCEPT ![c.request] = new]
      \/ c.do = "auto" /\ task' = [CancelSlot EXCEPT ![c.request] = new]
      \/ c.do = "off" /\ task' = CancelSlot
  BY <1>5 DEF TakeCommand, Spawned
<1>. HIDE DEF new
<1>9. /\ task' \in [Requests -> Tasks]
      /\ c.do # "off" => task'[c.request] = new
      /\ \A r \in Requests : c.do = "off" \/ r # c.request =>
            /\ task'[r].kind = task[r].kind /\ task'[r].gen = task[r].gen
            /\ task'[r].stage = task[r].stage
            /\ task'[r] = task[r] \/ (r = slot /\ c.do # "fetch")
            /\ r = slot /\ c.do # "fetch" => task'[r].cancelled
  <2>1. task \in [Requests -> Tasks]
    BY DEF TypeOK
  <2>2. CASE c.do = "fetch" /\ task' = [task EXCEPT ![c.request] = new]
    BY <1>6, <1>7, <2>1, <2>2
  <2>3. CASE c.do = "auto" /\ task' = [CancelSlot EXCEPT ![c.request] = new]
    <3>1. /\ CancelSlot \in [Requests -> Tasks]
          /\ \A r \in Requests : /\ CancelSlot[r].kind = task[r].kind
                                 /\ CancelSlot[r].gen = task[r].gen
                                 /\ CancelSlot[r].stage = task[r].stage
                                 /\ r = slot => CancelSlot[r].cancelled
                                 /\ r # slot => CancelSlot[r] = task[r]
      BY CancelSlotFacts
    <3>. QED BY <1>6, <1>7, <2>3, <3>1
  <2>4. CASE c.do = "off" /\ task' = CancelSlot
    BY <2>4, CancelSlotFacts
  <2>. QED BY <1>8, <2>2, <2>3, <2>4
<1>10. TypeOK'
  <2>1. slot' \in 0..MaxFetches
    BY <1>3, <1>6, TopologyAssumption DEF TypeOK, Requests
  <2>. QED BY <1>1, <1>2, <1>9, <2>1 DEF TypeOK
<1>11. Numbered'
  <2>1. ASSUME NEW q \in 1..Len(cmds'), Pending(q)'
        PROVE  cmds'[q].request \in 1..asked /\ task'[cmds'[q].request].kind = "none"
    <3>1. /\ q + 1 \in 1..Len(cmds) /\ cmds'[q] = cmds[q + 1] /\ Pending(q + 1)
          /\ 1 < q + 1
      BY <1>2, <2>1 DEF Pending
    <3>2. /\ cmds'[q].request \in 1..asked /\ task[cmds'[q].request].kind = "none"
          /\ c.do # "off" => cmds'[q].request # c.request
      BY <1>2, <3>1 DEF Numbered, Pending
    <3>3. cmds'[q].request \in Requests
      BY <1>4, <3>2
    <3>. QED BY <1>9, <3>2, <3>3
  <2>2. ASSUME NEW p \in 1..Len(cmds'), NEW q \in 1..Len(cmds'), p < q,
               Pending(p)', Pending(q)'
        PROVE  cmds'[p].request # cmds'[q].request
    BY <1>2, <2>2 DEF Numbered, Pending
  <2>3. ASSUME NEW r \in Requests
        PROVE  /\ r > asked => task'[r].kind = "none"
               /\ task'[r].kind = "none" => task'[r].stage = "none"
    <3>1. CASE c.do # "off" /\ r = c.request
      <4>1. r \in 1..asked /\ task'[r].kind \in {"manual", "auto"}
        BY <1>3, <1>5, <1>6, <1>7, <1>9, <3>1
      <4>2. ~(r > asked)
        BY <4>1 DEF TypeOK
      <4>. QED BY <4>1, <4>2
    <3>2. CASE c.do = "off" \/ r # c.request
      BY <1>9, <3>2 DEF Numbered
    <3>. QED BY <3>1, <3>2
  <2>4. ASSUME NEW i \in 1..Len(events)
        PROVE  /\ task'[events[i].request].kind # "none"
               /\ task'[events[i].request].gen = events[i].gen
    <3>1. events[i] \in Events /\ events[i].request \in Requests
      <4>1. events[i] \in Events
        BY DEF TypeOK
      <4>. QED BY <4>1 DEF Events
    <3>2. /\ task[events[i].request].kind # "none"
          /\ task[events[i].request].gen = events[i].gen
      BY DEF Numbered
    <3>. QED BY <1>6, <1>9, <3>1, <3>2
  <2>. QED BY <1>1, <2>1, <2>2, <2>3, <2>4 DEF Numbered
<1>12. OneLoop'
  <2>1. ASSUME NEW r \in Requests, Live(r)' PROVE slot' = r
    <3>1. CASE c.do # "off" /\ r = c.request
      BY <1>3, <1>5, <1>7, <1>9, <2>1, <3>1 DEF Live
    <3>2. CASE c.do = "off" \/ r # c.request
      <4>1. Live(r) /\ ~(r = slot /\ c.do # "fetch")
        BY <1>9, <2>1, <3>2 DEF Live
      <4>. QED BY <1>3, <4>1 DEF OneLoop
    <3>. QED BY <3>1, <3>2
  <2>2. slot' # 0 => Live(slot)'
    <3>1. CASE c.do = "fetch"
      <4>1. slot' = slot /\ c.request # slot
        BY <1>3, <1>6, <3>1
      <4>2. slot # 0 => slot \in Requests /\ Live(slot)
        BY DEF OneLoop, TypeOK, Requests
      <4>. QED BY <1>9, <3>1, <4>1, <4>2 DEF Live
    <3>2. CASE c.do = "auto"
      BY <1>3, <1>5, <1>7, <1>9, <3>2 DEF Live
    <3>. QED BY <1>3, <3>1, <3>2
  <2>. QED BY <2>1, <2>2 DEF OneLoop
<1>13. Distinct'
  <2>. SUFFICES ASSUME FirstTime
                PROVE  /\ \A q \in 1..Len(cmds') :
                            OfKind(Sends[cmds'[q].do], cmds'[q].request, cmds'[q].gen)
                       /\ \A r \in Requests : OfKind(task'[r].kind, r, task'[r].gen)
    BY <1>1 DEF Distinct, FirstTime, OfKind
  <2>1. /\ \A q \in 1..Len(cmds) : OfKind(Sends[cmds[q].do], cmds[q].request, cmds[q].gen)
        /\ \A r \in Requests : OfKind(task[r].kind, r, task[r].gen)
    BY DEF Distinct
  <2>2. ASSUME NEW r \in Requests PROVE OfKind(task'[r].kind, r, task'[r].gen)
    <3>1. CASE c.do # "off" /\ r = c.request
      BY <1>2, <1>7, <1>9, <2>1, <3>1
    <3>2. CASE c.do = "off" \/ r # c.request
      BY <1>9, <2>1, <3>2
    <3>. QED BY <3>1, <3>2
  <2>. QED BY <1>2, <2>1, <2>2
<1>. QED BY <1>4, <1>10, <1>11, <1>12, <1>13

\* A task goes on: it keeps its generation and its token, and a loop ends only
\* when it is cancelled.
LEMMA GoesOn ==
    ASSUME TypeOK, OneLoop, Told, Distinct, NEW r \in Requests, NEW t \in Tasks,
           task' = [task EXCEPT ![r] = t],
           t.kind = task[r].kind, t.gen = task[r].gen, t.cancelled = task[r].cancelled,
           task[r].stage # "ended",
           t.stage = "ended" /\ t.kind = "auto" => t.cancelled,
           UNCHANGED <<open, manualGen, autoGen, manual, auto, asked, cmds, slot>>,
           lost \subseteq lost'
    PROVE  /\ task' \in [Requests -> Tasks]
           /\ \A q \in Requests : /\ task'[q].kind = task[q].kind
                                  /\ task'[q].gen = task[q].gen
                                  /\ q # r => task'[q] = task[q]
           /\ OneLoop' /\ Told' /\ Distinct'
<1>1. task \in [Requests -> Tasks]
  BY DEF TypeOK
<1>2. /\ task' \in [Requests -> Tasks] /\ task'[r] = t
      /\ \A q \in Requests : q # r => task'[q] = task[q]
  BY <1>1
<1>3. \A q \in Requests : task'[q].kind = task[q].kind /\ task'[q].gen = task[q].gen
  BY <1>2
<1>4. \A q \in Requests : Live(q)' <=> Live(q)
  BY <1>2 DEF Live
<1>5. OneLoop'
  <2>1. slot # 0 => slot \in Requests
    BY DEF TypeOK, Requests
  <2>. QED BY <1>4, <2>1 DEF OneLoop
<1>6. Told'
  BY DEF Told, LastWord, Says, Wanted
<1>7. Distinct'
  BY <1>3 DEF Distinct, FirstTime, OfKind
<1>. QED BY <1>2, <1>3, <1>5, <1>6, <1>7

LEMMA WorksInv ==
    ASSUME IInv, NEW r \in Requests, Works(r)
    PROVE  IInv'
<1>. USE DEF IInv
<1>1. /\ UNCHANGED <<world, open, tabs, manualGen, autoGen, loading, shown, manual, auto,
                     asked, cmds, slot>>
      /\ task[r] \in Tasks /\ task \in [Requests -> Tasks]
      /\ task[r].stage \notin {"ended", "none"}
  BY DEF Works, Reads, Emits, Wakes, EndsUnstarted, tab, TypeOK
<1>2. task[r].kind # "none"
  BY <1>1 DEF Numbered
\* Tasks and buses of each step.
<1>. DEFINE Keeps(t) == /\ task' = [task EXCEPT ![r] = t] /\ t \in Tasks
                        /\ t.kind = task[r].kind /\ t.gen = task[r].gen
                        /\ t.cancelled = task[r].cancelled
                        /\ t.stage = "ended" /\ t.kind = "auto" => t.cancelled
<1>3. \E t \in Tasks : Keeps(t)
  <2>1. CASE Reads(r)
    <3>1. PICK got \in {world, Err} : task' = [task EXCEPT ![r].stage = "emit", ![r].got = got]
      BY <2>1 DEF Reads
    <3>. DEFINE t == [task[r] EXCEPT !.stage = "emit", !.got = got]
    <3>2. task' = [task EXCEPT ![r] = t]
      BY <3>1
    <3>3. got \in Versions \cup {Err}
      BY DEF TypeOK
    <3>4. /\ t \in Tasks /\ t.kind = task[r].kind /\ t.gen = task[r].gen
          /\ t.cancelled = task[r].cancelled /\ t.stage = "emit"
      BY <1>1, <3>3 DEF Tasks, Stages
    <3>. HIDE DEF t
    <3>. QED BY <3>2, <3>4
  <2>2. ASSUME NEW stage \in {"sleep", "ended", "fetch"},
               task' = [task EXCEPT ![r].stage = stage],
               stage = "ended" => task[r].kind # "auto" \/ task[r].cancelled
        PROVE  \E t \in Tasks : Keeps(t)
    <3>. DEFINE t == [task[r] EXCEPT !.stage = stage]
    <3>1. task' = [task EXCEPT ![r] = t]
      BY <2>2
    <3>2. /\ t \in Tasks /\ t.kind = task[r].kind /\ t.gen = task[r].gen
          /\ t.cancelled = task[r].cancelled /\ t.stage = stage
      BY <1>1 DEF Tasks, Stages
    <3>. HIDE DEF t
    <3>. QED BY <2>2, <3>1, <3>2
  <2>3. CASE Emits(r)
    <3>. DEFINE stage == IF task[r].kind = "auto" THEN "sleep" ELSE "ended"
    <3>1. task' = [task EXCEPT ![r].stage = stage]
      BY <2>3 DEF Emits
    <3>2. stage \in {"sleep", "ended", "fetch"} /\ (stage = "ended" => task[r].kind # "auto")
      OBVIOUS
    <3>. HIDE DEF stage, Keeps
    <3>. QED BY <2>2, <3>1, <3>2
  <2>4. CASE Wakes(r) \/ EndsUnstarted(r)
    <3>1. \/ task' = [task EXCEPT ![r].stage = "ended"] /\ task[r].cancelled
          \/ task' = [task EXCEPT ![r].stage = "fetch"]
      BY <2>4 DEF Wakes, EndsUnstarted
    <3>. HIDE DEF Keeps
    <3>. QED BY <2>2, <3>1
  <2>. QED BY <2>1, <2>3, <2>4 DEF Works
<1>4. PICK t \in Tasks : Keeps(t)
  BY <1>3
<1>5. /\ events' \in Seq(Events) /\ Len(events') <= EventCap
      /\ \A i \in 1..Len(events') :
            \/ i \in 1..Len(events) /\ events'[i] = events[i]
            \/ events'[i].request = r /\ events'[i].gen = task[r].gen
      /\ lost' \subseteq {"command", "snapshot", "off"} /\ lost \subseteq lost'
  <2>1. events \in Seq(Events) /\ Len(events) <= EventCap /\ Len(events) \in Nat
    BY DEF TypeOK
  <2>2. CASE Emits(r)
    <3>. DEFINE e == [request |-> r, gen |-> task[r].gen, got |-> task[r].got]
    <3>1. e \in Events /\ e.request = r /\ e.gen = task[r].gen
      BY <1>1 DEF Events, Tasks
    <3>2. /\ events' = IF Len(events) < EventCap THEN Append(events, e) ELSE events
          /\ lost' = IF Len(events) < EventCap THEN lost ELSE lost \cup {"snapshot"}
      BY <2>2 DEF Emits
    <3>. HIDE DEF e
    <3>3. lost' \subseteq {"command", "snapshot", "off"} /\ lost \subseteq lost'
      BY <3>2 DEF TypeOK
    <3>4. CASE Len(events) < EventCap
      <4>1. /\ events' \in Seq(Events) /\ Len(events') = Len(events) + 1
            /\ events'[Len(events) + 1] = e
            /\ \A i \in 1..Len(events) : events'[i] = events[i]
        BY <2>1, <3>1, <3>2, <3>4, AppendFacts
      <4>2. Len(events') <= EventCap
        BY <2>1, <3>4, <4>1, TopologyAssumption
      <4>3. \A i \in 1..Len(events') : i \in 1..Len(events) \/ i = Len(events) + 1
        BY <2>1, <4>1
      <4>. QED BY <3>1, <3>3, <4>1, <4>2, <4>3
    <3>. QED BY <2>1, <3>2, <3>3, <3>4
  <2>3. CASE Reads(r) \/ Wakes(r) \/ EndsUnstarted(r)
    BY <2>1, <2>3 DEF Reads, Wakes, EndsUnstarted, TypeOK
  <2>. QED BY <2>2, <2>3 DEF Works
<1>6. /\ task' \in [Requests -> Tasks]
      /\ \A q \in Requests : /\ task'[q].kind = task[q].kind
                             /\ task'[q].gen = task[q].gen
                             /\ q # r => task'[q] = task[q]
      /\ OneLoop' /\ Told' /\ Distinct'
  BY <1>1, <1>4, <1>5, GoesOn
<1>7. TypeOK'
  BY <1>1, <1>5, <1>6 DEF TypeOK
<1>8. Numbered'
  <2>1. \A q \in 1..Len(cmds) : Pending(q) => cmds[q].request \in Requests
    <3>1. asked \in 0..MaxFetches /\ MaxFetches \in Nat
      BY TopologyAssumption DEF TypeOK
    <3>. QED BY <3>1 DEF Numbered, Requests
  <2>2. ASSUME NEW i \in 1..Len(events')
        PROVE  /\ task'[events'[i].request].kind # "none"
               /\ task'[events'[i].request].gen = events'[i].gen
    <3>1. CASE i \in 1..Len(events) /\ events'[i] = events[i]
      <4>1. events[i] \in Events
        BY <3>1 DEF TypeOK
      <4>. QED BY <1>6, <3>1, <4>1 DEF Numbered, Events
    <3>2. CASE events'[i].request = r /\ events'[i].gen = task[r].gen
      BY <1>2, <1>6, <3>2
    <3>. QED BY <1>5, <3>1, <3>2
  <2>3. /\ \A q \in Requests : q > asked => task'[q].kind = "none"
        /\ \A q \in Requests : task'[q].kind = "none" => task'[q].stage = "none"
    BY <1>2, <1>6 DEF Numbered
  <2>4. \A q \in 1..Len(cmds) : Pending(q) => task'[cmds[q].request].kind = "none"
    BY <1>6, <2>1 DEF Numbered
  <2>. QED BY <1>1, <2>2, <2>3, <2>4 DEF Numbered, Pending
<1>. QED BY <1>6, <1>7, <1>8

LEMMA NextInv == IInv /\ [Next]_vars => IInv'
<1>. SUFFICES ASSUME IInv, [Next]_vars PROVE IInv'
  OBVIOUS
<1>1. CASE Changes
  <2>1. world' \in Versions
    BY <1>1, TopologyAssumption DEF Changes, IInv, TypeOK, Versions
  <2>2. UNCHANGED <<open, tabs, manualGen, autoGen, loading, shown, manual, auto, asked,
                    cmds, events, task, slot, lost>>
    BY <1>1 DEF Changes, tab
  <2>. QED BY <2>1, <2>2 DEF IInv, TypeOK, Numbered, Pending, OneLoop, Live, Told,
       LastWord, Says, Wanted, Distinct, FirstTime, OfKind
<1>2. CASE UNCHANGED vars
  BY <1>2 DEF vars, IInv, TypeOK, Numbered, Pending, OneLoop, Live, Told,
     LastWord, Says, Wanted, Distinct, FirstTime, OfKind
<1>3. CASE User
  BY <1>3, AskInv, OffInv DEF User
<1>4. CASE HandleTopology
  BY <1>4, HandleInv
<1>5. CASE TakeCommand
  BY <1>5, TakeInv
<1>6. ASSUME NEW r \in Requests, Works(r) PROVE IInv'
  BY <1>6, WorksInv
<1>. QED BY <1>1, <1>2, <1>3, <1>4, <1>5, <1>6 DEF Next

-----------------------------------------------------------------------------
(* The theorems.                                                           *)

\* The tab, the worker's tasks and what is on the buses have their types; in
\* particular a request is numbered once, and no generation is beyond it.
THEOREM TypeCorrect == Spec => []TypeOK
<1>1. IInv => TypeOK
  BY DEF IInv
<1>. QED BY <1>1, InitInv, NextInv, PTL DEF Spec

\* However tabs are opened and closed and auto-refresh is set, and whatever
\* fetches and loops are at work meanwhile: once the worker has taken what the
\* tab sent, the loops that go on are the one the tab believes in, or none.
THEOREM LoopsFollowTheTab == Spec => []LoopsAreTheTabs
<1>1. IInv => LoopsAreTheTabs
  <2>. SUFFICES ASSUME IInv, cmds = << >>, lost \cap {"command", "off"} = {}
                PROVE  {r \in Requests : Live(r)} = IF open /\ auto # 0 THEN {auto} ELSE {}
    BY DEF LoopsAreTheTabs
  <2>1. slot = Wanted
    <3>1. Len(cmds) = 0 /\ LastWord(0)
      BY DEF LastWord
    <3>. QED BY <3>1 DEF IInv, Told, Says
  <2>2. slot # 0 => slot \in Requests
    BY DEF IInv, TypeOK, Requests
  <2>3. {r \in Requests : Live(r)} = IF slot # 0 THEN {slot} ELSE {}
    <3>1. 0 \notin Requests
      BY DEF Requests
    <3>. QED BY <2>2, <3>1 DEF IInv, OneLoop
  <2>. QED BY <2>1, <2>3 DEF Wanted
<1>. QED BY <1>1, InitInv, NextInv, PTL DEF Spec

\* The snapshot of a fetch that another has replaced, or of a loop that was
\* stopped or replaced, never comes onto the screen, as long as generations
\* tell fetches apart.
THEOREM ReplacedAreDropped == Spec => ReplacedFetchesAreDropped
<1>1. ASSUME IInv, HandleTopology, shown' # shown, FirstTime,
             Head(events).gen # (IF task[Head(events).request].kind = "manual"
                                   THEN autoGen ELSE manualGen)
      PROVE  shown'.request \in {manual, auto}
  <2>. DEFINE e == Head(events)
  <2>1. /\ events # << >> /\ open /\ AcceptTopology(e.gen)
        /\ shown' = [request |-> e.request, got |-> e.got]
    BY <1>1 DEF HandleTopology, ApplyTopology
  <2>2. e \in Events /\ e = events[1] /\ 1 \in 1..Len(events)
    <3>1. events \in Seq(Events)
      BY <1>1 DEF IInv, TypeOK
    <3>2. Head(events) = events[1] /\ Head(events) \in Events /\ Len(events) \in Nat \ {0}
      BY <2>1, <3>1, TailFacts
    <3>3. 1 \in 1..Len(events)
      BY <3>2
    <3>. QED BY <3>2, <3>3
  <2>3. /\ task[e.request].kind # "none" /\ task[e.request].gen = e.gen
        /\ e.request \in Requests /\ task[e.request] \in Tasks
    <3>1. e.request \in Requests
      BY <2>2 DEF Events
    <3>. QED BY <1>1, <2>2, <3>1 DEF IInv, Numbered, TypeOK
  <2>4. OfKind(task[e.request].kind, e.request, e.gen)
    BY <1>1, <2>3 DEF IInv, Distinct
  <2>5. task[e.request].kind \in {"manual", "auto"}
    BY <2>3 DEF Tasks
  <2>. QED BY <1>1, <2>1, <2>4, <2>5 DEF AcceptTopology, OfKind
<1>2. IInv /\ [Next]_vars =>
        [HandleTopology /\ shown' # shown
         /\ asked = manualGen + autoGen
         /\ Head(events).gen # (IF task[Head(events).request].kind = "manual"
                                  THEN autoGen ELSE manualGen)
           => shown'.request \in {manual, auto}]_vars
  BY <1>1 DEF FirstTime
<1>. QED BY <1>2, InitInv, NextInv, PTL DEF Spec, ReplacedFetchesAreDropped

-----------------------------------------------------------------------------
(* Kinds and views.                                                        *)

Kinds == {"Namespace", "Deployment", "StatefulSet", "DaemonSet", "Job", "CronJob", "Pod",
          "Service", "Ingress", "Node", "Event"}
OfWorkloads == {"Deployment", "StatefulSet", "DaemonSet", "Job", "CronJob"}

LEMMA ListsFacts ==
    /\ DOMAIN Lists = 1..11
    /\ \A kind : kind \in Kinds <=> \E i \in 1..11 : Lists[i] = kind
<1>1. DOMAIN Lists = 1..11
  BY DEF Lists
<1>2. /\ Lists[1] = "Namespace" /\ Lists[2] = "Deployment" /\ Lists[3] = "StatefulSet"
      /\ Lists[4] = "DaemonSet" /\ Lists[5] = "Job" /\ Lists[6] = "CronJob" /\ Lists[7] = "Pod"
      /\ Lists[8] = "Service" /\ Lists[9] = "Ingress" /\ Lists[10] = "Node"
      /\ Lists[11] = "Event"
  BY DEF Lists
<1>. QED BY <1>1, <1>2 DEF Kinds

LEMMA WorkloadFacts ==
    /\ DOMAIN WorkloadKinds = 1..5
    /\ \A o : IsWorkload(o) <=> o.kind \in OfWorkloads
<1>1. DOMAIN WorkloadKinds = 1..5
  BY DEF WorkloadKinds
<1>2. /\ WorkloadKinds[1] = "Deployment" /\ WorkloadKinds[2] = "StatefulSet"
      /\ WorkloadKinds[3] = "DaemonSet" /\ WorkloadKinds[4] = "Job"
      /\ WorkloadKinds[5] = "CronJob"
  BY DEF WorkloadKinds
<1>. QED BY <1>1, <1>2 DEF IsWorkload, OfWorkloads

\* A view has the identity of its object.
LEMMA ViewFacts ==
    ASSUME NEW o
    PROVE  /\ View(o).kind = o.kind /\ View(o).ns = o.ns /\ View(o).name = o.name
           /\ IsWorkload(View(o)) <=> IsWorkload(o)
           /\ LayoutKind(View(o)) = LayoutKind(o) /\ LayoutId(View(o)) = LayoutId(o)
           /\ o.kind = "Pod" => View(o) = PodView(o)
           /\ o.kind = "Ingress" => View(o) = IngressView(o)
           /\ IsWorkload(o) => View(o) = WorkloadView(o)
           /\ o.kind \in {"Namespace", "Service"} => View(o) = o
<1>1. o.kind = "Pod" => View(o) = PodView(o)
  BY WorkloadFacts DEF View, OfWorkloads
<1>2. o.kind = "Ingress" => View(o) = IngressView(o)
  BY WorkloadFacts DEF View, OfWorkloads
<1>3. IsWorkload(o) => View(o) = WorkloadView(o)
  BY WorkloadFacts DEF View, OfWorkloads
<1>4. o.kind # "Pod" /\ o.kind # "Ingress" /\ ~IsWorkload(o) => View(o) = o
  BY DEF View
<1>5. View(o).kind = o.kind /\ View(o).ns = o.ns /\ View(o).name = o.name
  BY <1>1, <1>2, <1>3, <1>4 DEF PodView, IngressView, WorkloadView
<1>6. IsWorkload(View(o)) <=> IsWorkload(o)
  BY <1>5 DEF IsWorkload
<1>7. LayoutKind(View(o)) = LayoutKind(o) /\ LayoutId(View(o)) = LayoutId(o)
  BY <1>5, <1>6 DEF LayoutKind, LayoutId
<1>8. o.kind \in {"Namespace", "Service"} => View(o) = o
  BY <1>4, WorkloadFacts DEF OfWorkloads
<1>. QED BY <1>1, <1>2, <1>3, <1>5, <1>6, <1>7, <1>8

-----------------------------------------------------------------------------
(* A poll.                                                                 *)

HistoryFits(history) ==
    /\ Len(history) \in Nat \ {0} /\ DOMAIN history = 1..Len(history)
    /\ \A k \in DOMAIN history : ClusterFits(history[k])

\* What a poll makes of a cluster: all that stayed, and nothing that never was.
Polled(history, graph) ==
    /\ \A o \in Stayed(history) : View(o) \in graph
    /\ \A v \in graph : \E o \in Ever(history) : v = View(o)

LEMMA PollIsPolled ==
    ASSUME NEW history, HistoryFits(history), NEW befores \in Moments(Len(history) - 1)
    PROVE  Polled(history, PollTopology(history, befores))
<1>. DEFINE n == Len(history) - 1
            Past(i) == {k \in DOMAIN befores : befores[k] <= i}
            Now(i) == history[1 + Cardinality(Past(i))]
<1>1. n \in Nat /\ DOMAIN befores = 1..n
  BY DEF HistoryFits, Moments
<1>2. \A i \in DOMAIN Lists : 1 + Cardinality(Past(i)) \in DOMAIN history
  <2>1. IsFiniteSet(1..n) /\ Cardinality(1..n) = n
    BY <1>1, FS_Interval
  <2>2. ASSUME NEW i \in DOMAIN Lists
        PROVE  1 + Cardinality(Past(i)) \in DOMAIN history
    <3>1. Past(i) \subseteq 1..n
      BY <1>1
    <3>2. IsFiniteSet(Past(i)) /\ Cardinality(Past(i)) <= n
      BY <2>1, <3>1, FS_Subset
    <3>3. Cardinality(Past(i)) \in Nat
      BY <3>2, FS_CardinalityType
    <3>. QED BY <1>1, <3>2, <3>3 DEF HistoryFits
  <2>. QED BY <2>2
<1>3. PollTopology(history, befores) =
        UNION {{View(o) : o \in Of(Now(i), Lists[i])} : i \in DOMAIN Lists}
  BY DEF PollTopology
<1>. HIDE DEF Now
<1>4. \A i \in DOMAIN Lists : \E k \in DOMAIN history : Now(i) = history[k]
  BY <1>2 DEF Now
<1>5. ASSUME NEW o \in Stayed(history) PROVE View(o) \in PollTopology(history, befores)
  <2>1. 1 \in DOMAIN history /\ \A k \in DOMAIN history : o \in history[k]
    BY DEF Stayed, HistoryFits
  <2>2. PICK i \in DOMAIN Lists : Lists[i] = o.kind
    BY <2>1 DEF HistoryFits, ClusterFits
  <2>3. o \in Of(Now(i), Lists[i])
    BY <1>4, <2>1, <2>2 DEF Of
  <2>. QED BY <1>3, <2>3
<1>6. ASSUME NEW v \in PollTopology(history, befores)
      PROVE  \E o \in Ever(history) : v = View(o)
  <2>1. PICK i \in DOMAIN Lists : v \in {View(o) : o \in Of(Now(i), Lists[i])}
    BY <1>3
  <2>2. PICK o \in Now(i) : v = View(o)
    BY <2>1 DEF Of
  <2>. QED BY <1>4, <2>2 DEF Ever
<1>. QED BY <1>5, <1>6 DEF Polled

-----------------------------------------------------------------------------
(* Whose id, and whose pod.                                                *)

Unmistaken(o, history) == ~(IsWorkload(o) /\ Mistakable(o, Ever(history)))

LEMMA KindsFit ==
    ASSUME NEW history, HistoryFits(history), NEW o \in Ever(history)
    PROVE  /\ o.kind \in Kinds /\ (IsWorkload(o) => o.name \in Seq(STRING))
           /\ o.kind = "Pod" => OwnerFits(o)
<1>1. PICK k \in DOMAIN history : o \in history[k]
  BY DEF Ever
<1>2. ClusterFits(history[k])
  BY DEF HistoryFits
<1>. QED BY <1>1, <1>2, ListsFacts DEF ClusterFits

LEMMA StayedWas ==
    ASSUME NEW history, HistoryFits(history)
    PROVE  Stayed(history) \subseteq Ever(history)
<1>1. 1 \in DOMAIN history
  BY DEF HistoryFits
<1>. QED BY <1>1 DEF Stayed, Ever

\* No other object has the id of one that nothing is mistaken for.
LEMMA Identity ==
    ASSUME NEW history, HistoryFits(history), NEW o \in Stayed(history), NEW x \in Ever(history),
           LayoutId(x) = LayoutId(o), Unmistaken(o, history)
    PROVE  x = o
<1>1. LayoutKind(x) = LayoutKind(o) /\ x.ns = o.ns /\ x.name = o.name
  BY DEF LayoutId
<1>2. o.kind \in Kinds /\ x.kind \in Kinds
  BY StayedWas, KindsFit
<1>3. x.kind = o.kind
  <2>1. CASE IsWorkload(o)
    <3>1. IsWorkload(x)
      BY <1>1, <1>2, <2>1 DEF LayoutKind, Kinds
    <3>2. x.kind # o.kind => Mistakable(o, Ever(history))
      <4>. SUFFICES ASSUME x.kind # o.kind PROVE Mistakable(o, Ever(history))
        OBVIOUS
      <4>. DEFINE w == <<x.kind, x.name>>
      <4>1. w \in WorkloadsOf(o.ns, Ever(history))
        BY <1>1, <3>1 DEF WorkloadsOf, Workloads
      <4>2. w # <<o.kind, o.name>> /\ w[2] = o.name
        BY <1>1
      <4>. QED BY <4>1, <4>2 DEF Mistakable
    <3>. QED BY <2>1, <3>2 DEF Unmistaken
  <2>2. CASE ~IsWorkload(o)
    BY <1>1, <1>2, <2>2 DEF LayoutKind, Kinds
  <2>. QED BY <2>1, <2>2
<1>4. PICK k \in DOMAIN history : x \in history[k]
  BY DEF Ever
<1>5. o \in history[k] /\ ClusterFits(history[k])
  BY DEF Stayed, HistoryFits
<1>. QED BY <1>1, <1>3, <1>4, <1>5 DEF ClusterFits

\* What begins a sequence is the sequence without its last word, or begins it.
LEMMA BeginsFront ==
    ASSUME NEW s \in Seq(STRING), NEW t \in Seq(STRING), IsStrictPrefix(s, t)
    PROVE  s = Front(t) \/ IsStrictPrefix(s, Front(t))
<1>1. /\ Len(s) <= Len(t) /\ SubSeq(s, 1, Len(s)) = SubSeq(t, 1, Len(s)) /\ s # t
      /\ Len(s) \in Nat /\ Len(t) \in Nat
  BY DEF IsStrictPrefix, IsPrefix
<1>2. \A i \in 1..Len(s) : s[i] = t[i]
  <2>1. ASSUME NEW i \in 1..Len(s) PROVE s[i] = t[i]
    <3>1. SubSeq(s, 1, Len(s))[i] = s[i] /\ SubSeq(t, 1, Len(s))[i] = t[i]
      BY <1>1
    <3>. QED BY <1>1, <3>1
  <2>. QED BY <2>1
<1>3. Len(s) # Len(t)
  <2>. SUFFICES ASSUME Len(s) = Len(t) PROVE s = t
    BY <1>1
  <2>. QED BY <1>2
<1>4. /\ Front(t) \in Seq(STRING) /\ Len(Front(t)) = Len(t) - 1
      /\ \A i \in 1..(Len(t) - 1) : Front(t)[i] = t[i]
  <2>1. Len(t) - 1 \in Nat /\ Len(t) - 1 <= Len(t)
    BY <1>1, <1>3
  <2>2. Front(t) = SubSeq(t, 1, Len(t) - 1)
    BY DEF Front
  <2>3. /\ SubSeq(t, 1, Len(t) - 1) \in Seq(STRING) /\ Len(SubSeq(t, 1, Len(t) - 1)) = Len(t) - 1
        /\ \A i \in 1..(Len(t) - 1) : SubSeq(t, 1, Len(t) - 1)[i] = t[i]
    <3>1. \A i \in 1..(Len(t) - 1) : t[i] \in STRING /\ 1 + i - 1 = i
      BY <1>1, <2>1
    <3>2. /\ SubSeq(t, 1, Len(t) - 1) \in Seq(STRING)
          /\ Len(SubSeq(t, 1, Len(t) - 1)) =
               IF 1 <= Len(t) - 1 THEN Len(t) - 1 - 1 + 1 ELSE 0
          /\ \A i \in 1..(Len(t) - 1 - 1 + 1) : SubSeq(t, 1, Len(t) - 1)[i] = t[1 + i - 1]
      BY <2>1, <3>1, SubSeqProperties
    <3>3. \A m \in Nat : m - 1 + 1 = m /\ (~(1 <= m) => m = 0)
      OBVIOUS
    <3>. QED BY <2>1, <3>1, <3>2, <3>3
  <2>. QED BY <2>2, <2>3
<1>5. SubSeq(s, 1, Len(s)) = SubSeq(Front(t), 1, Len(s))
  BY <1>1, <1>2, <1>3, <1>4
<1>. QED BY <1>1, <1>3, <1>4, <1>5 DEF IsStrictPrefix, IsPrefix

\* The code's test for a pod's owner is right for such a workload.
LEMMA Ownership ==
    ASSUME NEW history, HistoryFits(history),
           NEW w \in Ever(history), IsWorkload(w), Unmistaken(w, history),
           NEW p \in Ever(history), p.kind = "Pod"
    PROVE  PodOwnedBy(View(p), View(w)) <=> Controls(w, p)
<1>1. OwnerFits(p) /\ w.name \in Seq(STRING)
  BY KindsFit
<1>2. /\ View(p).ns = p.ns /\ View(w).ns = w.ns /\ View(w).name = w.name
      /\ View(p).owner = IF p.owners = <<>> THEN NoOwner ELSE Head(p.owners)
  <2>1. View(p) = PodView(p)
    BY ViewFacts
  <2>2. PodView(p).owner = IF p.owners = <<>> THEN NoOwner ELSE Head(p.owners)
    BY DEF PodView
  <2>. QED BY <2>1, <2>2, ViewFacts
<1>3. CASE p.owners = <<>>
  BY <1>1, <1>2, <1>3 DEF OwnerFits, PodOwnedBy, Controls
<1>4. CASE p.owners # <<>>
  <2>. DEFINE owner == Head(p.owners)
              mine == <<w.kind, w.name>>
  <2>1. /\ owner # NoOwner /\ owner \in Seq(STRING) /\ View(p).owner = owner
        /\ \A k \in DOMAIN WorkloadKinds : \A c \in p.controllers :
             c[1] = WorkloadKinds[k] => c[2] = owner \/ IsStrictPrefix(c[2], owner)
        /\ \E c \in p.controllers : c[2] = owner \/ c[2] = Front(owner)
    BY <1>1, <1>2, <1>4 DEF OwnerFits
  <2>2. mine[2] = w.name /\ \E k \in DOMAIN WorkloadKinds : mine[1] = WorkloadKinds[k]
    BY DEF IsWorkload
  <2>3. ASSUME Controls(w, p) PROVE PodOwnedBy(View(p), View(w))
    <3>1. w.ns = p.ns /\ mine \in p.controllers
      BY <2>3 DEF Controls
    <3>2. w.name = owner \/ IsStrictPrefix(w.name, owner)
      BY <2>1, <2>2, <3>1
    <3>. QED BY <1>2, <2>1, <3>1, <3>2 DEF PodOwnedBy
  <2>4. ASSUME PodOwnedBy(View(p), View(w)), ~Controls(w, p) PROVE FALSE
    <3>1. p.ns = w.ns /\ (owner = w.name \/ IsStrictPrefix(w.name, owner))
      BY <1>2, <2>1, <2>4 DEF PodOwnedBy
    <3>2. PICK c \in p.controllers : c[2] = owner \/ c[2] = Front(owner)
      BY <2>1
    <3>3. c # mine
      BY <2>4, <3>1, <3>2 DEF Controls
    <3>4. c \in WorkloadsOf(w.ns, Ever(history))
      BY <3>1, <3>2 DEF WorkloadsOf, Of
    <3>5. p \in Of(Ever(history), "Pod")
      BY DEF Of
    <3>6. Mistakable(w, Ever(history))
      <4>1. CASE owner = w.name
        BY <1>4, <2>4, <3>1, <3>5, <4>1 DEF Mistakable
      <4>2. CASE IsStrictPrefix(w.name, owner)
        <5>1. c[2] = w.name \/ IsStrictPrefix(w.name, c[2])
          <6>1. CASE c[2] = owner
            BY <4>2, <6>1
          <6>2. CASE c[2] = Front(owner)
            BY <1>1, <2>1, <4>2, <6>2, BeginsFront
          <6>. QED BY <3>2, <6>1, <6>2
        <5>. QED BY <3>3, <3>4, <5>1 DEF Mistakable
      <4>. QED BY <3>1, <4>1, <4>2
    <3>. QED BY <3>6 DEF Unmistaken
  <2>. QED BY <2>3, <2>4
<1>. QED BY <1>3, <1>4

\* The lines between such objects are those of the cluster.
LEMMA LinesAreTrue ==
    ASSUME NEW history, HistoryFits(history),
           NEW from \in Ever(history), Unmistaken(from, history),
           NEW to \in Ever(history), Unmistaken(to, history)
    PROVE  Joined(View(from), View(to)) <=> Related(from, to)
<1>1. /\ View(from).kind = from.kind /\ View(to).kind = to.kind
      /\ View(from).ns = from.ns /\ View(to).ns = to.ns /\ View(to).name = to.name
      /\ IsWorkload(View(from)) <=> IsWorkload(from)
      /\ IsWorkload(View(to)) <=> IsWorkload(to)
  BY ViewFacts
<1>2. from.kind = "Service" => View(from) = from
  BY ViewFacts
<1>3. IsWorkload(to) => View(to).labels = to.template
  BY ViewFacts DEF WorkloadView
<1>4. from.kind = "Ingress" => View(from).backends = from.paths \cup from.default
  BY ViewFacts DEF IngressView
<1>5. (/\ from.kind = "Service" /\ IsWorkload(to) /\ from.ns = to.ns
       /\ SelectorMatches(View(from).selector, View(to).labels))
      <=> (/\ from.kind = "Service" /\ IsWorkload(to) /\ from.ns = to.ns
           /\ from.selector # {} /\ \A l \in from.selector : l \in to.template)
  BY <1>2, <1>3 DEF SelectorMatches
<1>6. (IsWorkload(from) /\ to.kind = "Pod" /\ PodOwnedBy(View(to), View(from)))
      <=> (IsWorkload(from) /\ to.kind = "Pod" /\ Controls(from, to))
  BY Ownership
<1>7. (/\ from.kind = "Ingress" /\ to.kind = "Service" /\ from.ns = to.ns
       /\ to.name \in View(from).backends)
      <=> (/\ from.kind = "Ingress" /\ to.kind = "Service" /\ from.ns = to.ns
           /\ (to.name \in from.paths \/ to.name \in from.default))
  BY <1>4
<1>. QED BY <1>1, <1>5, <1>6, <1>7 DEF Joined, Related

-----------------------------------------------------------------------------
(* The picture.                                                            *)

LEMMA DrawnIsVisible ==
    ASSUME NEW history, NEW graph, Polled(history, graph), NEW collapsed,
           NEW o \in Drawn(history, collapsed)
    PROVE  View(o) \in Visible(graph, collapsed)
<1>1. View(o) \in graph
  BY DEF Drawn, Polled
<1>2. LayoutKind(o) \in Drawable /\ (o.kind = "Namespace" \/ o.ns \notin collapsed)
  BY DEF Drawn
<1>. QED BY <1>1, <1>2, ViewFacts DEF Visible

\* A workload that nothing is mistaken for is found by its id.
LEMMA WorkloadIsFound ==
    ASSUME NEW history, HistoryFits(history), NEW graph, Polled(history, graph),
           NEW o \in Stayed(history), IsWorkload(o), Unmistaken(o, history)
    PROVE  Found(graph, View(o)) = View(o)
<1>. DEFINE v == View(o)
            same == {w \in Workloads(graph) : LayoutId(w) = LayoutId(v)}
            IsFirst(k) == /\ \E w \in same : w.kind = WorkloadKinds[k]
                          /\ \A w \in same : \E j \in DOMAIN WorkloadKinds :
                                w.kind = WorkloadKinds[j] /\ k <= j
            first == CHOOSE k \in DOMAIN WorkloadKinds : IsFirst(k)
<1>1. Found(graph, v) = CHOOSE w \in same : w.kind = WorkloadKinds[first]
  BY DEF Found
<1>2. same = {v}
  <2>1. v \in same
    BY ViewFacts DEF Polled, Workloads
  <2>2. ASSUME NEW w \in same PROVE w = v
    <3>1. PICK x \in Ever(history) : w = View(x)
      BY DEF Polled, Workloads
    <3>2. LayoutId(x) = LayoutId(o)
      BY <3>1, ViewFacts
    <3>. QED BY <3>1, <3>2, Identity
  <2>. QED BY <2>1, <2>2
<1>3. \E k \in DOMAIN WorkloadKinds : IsFirst(k)
  <2>1. PICK k \in DOMAIN WorkloadKinds : WorkloadKinds[k] = v.kind
    BY ViewFacts DEF IsWorkload
  <2>2. k <= k
    BY WorkloadFacts
  <2>. QED BY <1>2, <2>1, <2>2
<1>4. IsFirst(first)
  BY <1>3
<1>5. v.kind = WorkloadKinds[first]
  BY <1>2, <1>4
<1>. QED BY <1>1, <1>2, <1>5

\* Its status is that of its pods.
LEMMA PodsAreItsOwn ==
    ASSUME NEW history, HistoryFits(history), NEW graph, Polled(history, graph),
           NEW o \in Stayed(history), IsWorkload(o), Unmistaken(o, history),
           {p \in Of(Ever(history), "Pod") : Controls(o, p)} \subseteq Stayed(history)
    PROVE  {p \in Of(graph, "Pod") : PodOwnedBy(p, View(o))} =
           {PodView(p) : p \in {p \in Of(Ever(history), "Pod") : Controls(o, p)}}
<1>. DEFINE pods == {p \in Of(Ever(history), "Pod") : Controls(o, p)}
<1>0. o \in Ever(history)
  BY StayedWas
<1>1. ASSUME NEW q \in Of(graph, "Pod"), PodOwnedBy(q, View(o))
      PROVE  q \in {PodView(p) : p \in pods}
  <2>1. PICK p \in Ever(history) : q = View(p)
    BY DEF Polled, Of
  <2>2. p.kind = "Pod"
    BY <2>1, ViewFacts DEF Of
  <2>3. View(p) = PodView(p)
    BY <2>2, ViewFacts
  <2>4. Controls(o, p)
    BY <1>0, <1>1, <2>1, <2>2, Ownership
  <2>. QED BY <2>1, <2>2, <2>3, <2>4 DEF Of
<1>2. ASSUME NEW p \in pods
      PROVE  PodView(p) \in Of(graph, "Pod") /\ PodOwnedBy(PodView(p), View(o))
  <2>1. p \in Ever(history) /\ p.kind = "Pod" /\ Controls(o, p) /\ p \in Stayed(history)
    BY DEF Of
  <2>2. View(p) = PodView(p) /\ View(p).kind = "Pod"
    BY <2>1, ViewFacts
  <2>3. View(p) \in graph
    BY <2>1 DEF Polled
  <2>4. PodOwnedBy(View(p), View(o))
    BY <1>0, <2>1, Ownership
  <2>. QED BY <2>2, <2>3, <2>4 DEF Of
<1>. QED BY <1>1, <1>2

LEMMA PictureOfPolled ==
    ASSUME NEW history, HistoryFits(history), NEW graph, Polled(history, graph), NEW collapsed
    PROVE  PictureIsTrue(history, graph, collapsed)
<1>. DEFINE clear == Clear(history, collapsed)
            nodes == ResolveNodes(graph, collapsed)
            edges == PaintEdges(graph, collapsed)
            Pods(o) == {p \in Of(Ever(history), "Pod") : Controls(o, p)}
            NodeOf(v) == [id |-> LayoutId(v), status |-> Status(graph, v),
                          glyph |-> Glyph(graph, v)]
<1>0. nodes = {NodeOf(v) : v \in Visible(graph, collapsed)}
  BY DEF ResolveNodes
<1>1. \A v : NodeOf(v).id = LayoutId(v) /\ NodeOf(v).status = Status(graph, v)
             /\ NodeOf(v).glyph = Glyph(graph, v)
  OBVIOUS
<1>. HIDE DEF NodeOf
<1>2. \A v \in Visible(graph, collapsed) : \E o \in Ever(history) : v = View(o)
  BY DEF Visible, Polled
<1>3. ASSUME NEW o \in Drawn(history, collapsed) PROVE LayoutId(o) \in {n.id : n \in nodes}
  <2>1. NodeOf(View(o)) \in nodes
    BY <1>0, DrawnIsVisible
  <2>. QED BY <1>1, <2>1, ViewFacts
<1>4. ASSUME NEW n \in nodes
      PROVE  \E o \in Ever(history) :
               LayoutId(o) = n.id /\ (o.kind = "Namespace" \/ o.ns \notin collapsed)
  <2>1. PICK v \in Visible(graph, collapsed) : n = NodeOf(v)
    BY <1>0
  <2>2. PICK o \in Ever(history) : v = View(o)
    BY <1>2
  <2>. QED BY <1>1, <2>1, <2>2, ViewFacts DEF Visible
<1>5. ASSUME NEW o \in clear
      PROVE  /\ o \in Drawn(history, collapsed) /\ o \in Stayed(history)
             /\ o \in Ever(history) /\ Unmistaken(o, history)
  BY StayedWas DEF Clear, Drawn, Unmistaken
\* What is drawn under the id of a clear object is its view.
<1>6. ASSUME NEW o \in clear, NEW v \in Visible(graph, collapsed), LayoutId(v) = LayoutId(o)
      PROVE  v = View(o)
  <2>1. PICK x \in Ever(history) : v = View(x)
    BY <1>2
  <2>2. LayoutId(x) = LayoutId(o)
    BY <1>6, <2>1, ViewFacts
  <2>. QED BY <1>5, <2>1, <2>2, Identity
<1>7. ASSUME NEW from \in clear, NEW to \in clear
      PROVE  <<LayoutId(from), LayoutId(to)>> \in edges <=> Related(from, to)
  <2>1. Joined(View(from), View(to)) <=> Related(from, to)
    BY <1>5, LinesAreTrue
  <2>2. ASSUME Related(from, to) PROVE <<LayoutId(from), LayoutId(to)>> \in edges
    <3>. DEFINE pair == <<View(from), View(to)>>
    <3>1. /\ pair \in Visible(graph, collapsed) \X Visible(graph, collapsed)
          /\ pair[1] = View(from) /\ pair[2] = View(to)
      BY <1>5, DrawnIsVisible
    <3>2. Joined(pair[1], pair[2])
      BY <2>1, <2>2, <3>1
    <3>3. LayoutId(pair[1]) = LayoutId(from) /\ LayoutId(pair[2]) = LayoutId(to)
      BY <3>1, ViewFacts
    <3>. HIDE DEF pair
    <3>. QED BY <3>1, <3>2, <3>3 DEF PaintEdges
  <2>3. ASSUME <<LayoutId(from), LayoutId(to)>> \in edges PROVE Related(from, to)
    <3>1. PICK pair \in Visible(graph, collapsed) \X Visible(graph, collapsed) :
            /\ Joined(pair[1], pair[2])
            /\ <<LayoutId(from), LayoutId(to)>> = <<LayoutId(pair[1]), LayoutId(pair[2])>>
      BY <2>3 DEF PaintEdges
    <3>2. LayoutId(pair[1]) = LayoutId(from) /\ LayoutId(pair[2]) = LayoutId(to)
      BY <3>1
    <3>3. pair[1] \in Visible(graph, collapsed) /\ pair[2] \in Visible(graph, collapsed)
      OBVIOUS
    <3>4. pair[1] = View(from) /\ pair[2] = View(to)
      BY <1>6, <3>2, <3>3
    <3>. QED BY <2>1, <3>1, <3>4
  <2>. QED BY <2>2, <2>3
<1>8. ASSUME NEW o \in clear, NEW n \in nodes, n.id = LayoutId(o), IsWorkload(o)
      PROVE  /\ n.glyph = o.kind
             /\ Pods(o) \subseteq Stayed(history)
                  => n.status = StatusOf({PodView(p) : p \in Pods(o)})
  <2>1. PICK v \in Visible(graph, collapsed) : n = NodeOf(v)
    BY <1>0
  <2>2. v = View(o)
    BY <1>1, <1>6, <1>8, <2>1
  <2>3. IsWorkload(v) /\ v.kind = o.kind
    BY <1>8, <2>2, ViewFacts
  <2>4. Found(graph, v) = v
    BY <1>5, <1>8, <2>2, WorkloadIsFound
  <2>5. n.glyph = o.kind
    BY <1>1, <2>1, <2>3, <2>4 DEF Glyph
  <2>6. n.status = StatusOf({p \in Of(graph, "Pod") : PodOwnedBy(p, v)})
    <3>1. v.kind # "Pod"
      BY <2>3, WorkloadFacts DEF OfWorkloads
    <3>2. Status(graph, v) = WorkloadStatus(graph, v)
      BY <2>3, <2>4, <3>1 DEF Status
    <3>. QED BY <1>1, <2>1, <3>2 DEF WorkloadStatus
  <2>7. Pods(o) \subseteq Stayed(history) =>
          {p \in Of(graph, "Pod") : PodOwnedBy(p, View(o))} = {PodView(p) : p \in Pods(o)}
    BY <1>5, <1>8, PodsAreItsOwn
  <2>. QED BY <2>2, <2>5, <2>6, <2>7
<1>. HIDE DEF clear, nodes, edges, Pods
<1>. QED BY <1>3, <1>4, <1>7, <1>8 DEF PictureIsTrue, clear, nodes, edges, Pods

\* Whatever changes between the eleven lists of a poll, the picture holds what
\* stayed and nothing that never was, with the lines of the cluster, and the
\* status of a workload is that of its pods.
THEOREM PictureIsTheCluster == Spec => []DiagramIsTrue
<1>1. PicturesAreTrue
  <2>. SUFFICES ASSUME NEW history \in Histories, NEW befores \in Moments(Len(history) - 1),
                       NEW c \in Collapses
                PROVE  PictureIsTrue(history, PollTopology(history, befores),
                                     Retained(c, PollTopology(history, befores)))
    BY DEF PicturesAreTrue
  <2>1. HistoryFits(history)
    BY HistoriesAssumption DEF HistoryFits
  <2>2. Polled(history, PollTopology(history, befores))
    BY <2>1, PollIsPolled
  <2>. QED BY <2>1, <2>2, PictureOfPolled
<1>2. DiagramIsTrue
  BY <1>1 DEF DiagramIsTrue
<1>. QED BY <1>2, PTL
=============================================================================
