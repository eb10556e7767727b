--------------------------- MODULE Session_proofs ----------------------------
(***************************************************************************)
(* Proofs about the program from start to start (Session, with Overview    *)
(* and Settings), for any names, themes and numbers of reconciles,         *)
(* operations and troubles; and about one call of a subprocess (Exec), on  *)
(* which the fairness of its tasks rests: for every size of the channels   *)
(* and however much the leader writes, whatever the processes ignore, hold *)
(* or hang in.                                                             *)
(***************************************************************************)
EXTENDS Session, Exec, FiniteSetTheorems, TLAPS

\* What a reconcile has found out of a name that has not changed since.
Probed(t, n) ==
    \/ task[t].at = "probe" /\ n \notin task[t].left
    \/ task[t].at = "records"
    \/ task[t].at = "report" /\ task[t].found # None

FoundOut(t, n) ==
    /\ task[t].at \in {"probe", "records"} => (n \in task[t].live <=> live[n] # None)
    /\ task[t].at = "records" => (n \in task[t].stored <=> record[n] # None)
    /\ task[t].at = "report" /\ task[t].found # None => task[t].found[n] = Truth(n)
    /\ Probed(t, n) /\ live[n] # None /\ n \notin blurred => status[n] = live[n] + 1

TasksTell == \A t \in Tasks : \A n \in Names \ task[t].changed : FoundOut(t, n)

\* Room for the follow-up of every operation.
Room == IsFiniteSet(Busy) /\ issued + Cardinality(Busy) <= MaxReconciles
OpsAreOps == \A n \in Names : op[n].kind = "none" => op[n] = NoOp

Idle(t) == task[t].at \in {"none", "done"}
Settled == \A k \in Picks : save[k].at \in {"none", "done"}
DownMeansIdle == ~up => /\ \A t \in Tasks : Idle(t)
                        /\ op = [n \in Names |-> NoOp]
                        /\ Settled

\* The last choice is on its way, or in the file, or it is known why not.
UnderWay(k) == save[k].at \in {"load", "save"}
Numbered == \A k \in Picks : save[k].at # "none" => k <= picks
LastIsShown == picks \in Picks /\ UnderWay(picks) => save[picks].id = shown
Kept == unsaved \/ shown = ThemeOf(file) \/ (picks \in Picks /\ UnderWay(picks))
NoneDropped == ~unsaved /\ (\E k \in Picks : UnderWay(k)) => save[picks].at # "none"
LastChoice == Numbered /\ LastIsShown /\ Kept /\ NoneDropped

SessionTypeOK ==
    OverviewTypeOK /\ SettingsTypeOK /\ up \in BOOLEAN /\ restarts \in 0..MaxRestarts

-----------------------------------------------------------------------------
(* The theme.                                                              *)

LEMMA SettingsStep ==
    ASSUME SettingsTypeOK, LastChoice, SettingsNext
    PROVE  SettingsTypeOK' /\ LastChoice'
<1>. USE ThemesAssumption
<1>1. CASE \E id \in Themes : PickTheme(id)
  <2>1. PICK id \in Themes : PickTheme(id)
    BY <1>1
  <2>2. picks' = picks + 1 /\ picks' \in Picks /\ picks \in Nat /\ picks' \in 0..MaxPicks
    BY <2>1 DEF PickTheme, SettingsTypeOK, Picks
  <2>3. CASE /\ save' = [save EXCEPT ![picks'] = [at |-> "load", id |-> id]]
             /\ unsaved' = unsaved
    <3>1. /\ save'[picks'] = [at |-> "load", id |-> id]
          /\ \A k \in Picks \ {picks'} : save'[k] = save[k]
          /\ save' \in [Picks -> [at : {"none", "load", "save", "done"}, id : Themes]]
      BY <2>2, <2>3 DEF SettingsTypeOK
    <3>. QED BY <2>1, <2>2, <2>3, <3>1 DEF PickTheme, SettingsTypeOK, LastChoice, Numbered,
                LastIsShown, Kept, NoneDropped, UnderWay, Picks
  <2>4. CASE save' = save /\ unsaved' = TRUE
    BY <2>1, <2>2, <2>4 DEF PickTheme, SettingsTypeOK, LastChoice, Numbered, LastIsShown, Kept,
       NoneDropped, UnderWay, Picks
  <2>. QED BY <2>1, <2>3, <2>4 DEF PickTheme
<1>2. ASSUME NEW k \in Picks, LoadSettings(k) \/ SaveSettings(k) \/ SaveFails(k)
      PROVE  SettingsTypeOK' /\ LastChoice'
  <2>1. \E next \in {"save", "done"} :
          /\ save' = [save EXCEPT ![k].at = next]
          /\ next = "save" => unsaved' = unsaved /\ file' = file /\ save[k].at = "load"
    BY <1>2 DEF LoadSettings, SaveSettings, SaveFails
  <2>2. PICK next \in {"save", "done"} :
          /\ save' = [save EXCEPT ![k].at = next]
          /\ next = "save" => unsaved' = unsaved /\ file' = file /\ save[k].at = "load"
    BY <2>1
  <2>3. /\ \A j \in Picks \ {k} : save'[j] = save[j]
        /\ save'[k].at = next /\ save'[k].id = save[k].id /\ save[k].id \in Themes
        /\ save' \in [Picks -> [at : {"none", "load", "save", "done"}, id : Themes]]
    BY <2>2 DEF SettingsTypeOK
  <2>4. /\ UnderWay(k) /\ k <= picks /\ picks' = picks /\ shown' = shown
        /\ picks \in Nat /\ k \in Nat /\ picks \in Picks
    BY <1>2 DEF LoadSettings, SaveSettings, SaveFails, UnderWay, LastChoice, Numbered,
       SettingsTypeOK, Picks
  <2>5. CASE next = "save"
    BY <2>2, <2>3, <2>4, <2>5 DEF SettingsTypeOK, LastChoice, Numbered, LastIsShown, Kept,
       NoneDropped, UnderWay
  <2>6. CASE next = "done" /\ file' = file /\ unsaved' = TRUE
    BY <2>2, <2>3, <2>4, <2>6 DEF SettingsTypeOK, LastChoice, Numbered, LastIsShown, Kept,
       NoneDropped, UnderWay
  <2>7. CASE SaveSettings(k)
    <3>1. file' = save[k].id /\ save'[k].at = "done" /\ unsaved' = Excuse(k)
      BY <2>3, <2>7 DEF SaveSettings, SettingsTypeOK
    <3>2. SettingsTypeOK'
      BY <2>3, <2>4, <3>1 DEF SettingsTypeOK, Excuse
    <3>3. Numbered' /\ LastIsShown'
      BY <2>3, <2>4, <3>1 DEF LastChoice, Numbered, LastIsShown, UnderWay
    <3>4. CASE k = picks
      <4>1. save[k].id = shown /\ ThemeOf(file') = shown'
        BY <2>3, <2>4, <3>1, <3>4 DEF LastChoice, LastIsShown, ThemeOf
      <4>2. Kept'
        BY <4>1 DEF Kept, ThemeOf
      <4>3. NoneDropped'
        BY <2>4, <3>1, <3>4 DEF NoneDropped
      <4>. QED BY <3>2, <3>3, <4>2, <4>3 DEF LastChoice
    <3>5. CASE k # picks
      <4>1. ~unsaved' => save[picks].at \notin {"none", "done"}
        <5>1. SUFFICES ASSUME ~unsaved' PROVE save[picks].at \notin {"none", "done"}
          OBVIOUS
        <5>2. ~Excuse(k)
          BY <3>1, <5>1
        <5>3. ~unsaved /\ ~Overtaken(k)
          BY <3>5, <5>2 DEF Excuse
        <5>. QED BY <2>4, <3>5, <5>3 DEF Overtaken, LastChoice, NoneDropped, UnderWay
      <4>2. save[picks].at \in {"none", "load", "save", "done"}
        BY <2>4 DEF SettingsTypeOK
      <4>3. save'[picks] = save[picks] /\ picks' \in Picks
        BY <2>3, <2>4, <3>5
      <4>4. Kept'
        BY <2>4, <4>1, <4>2, <4>3 DEF Kept, UnderWay
      <4>5. NoneDropped'
        BY <2>4, <4>1, <4>3 DEF NoneDropped
      <4>. QED BY <3>2, <3>3, <4>4, <4>5 DEF LastChoice
    <3>. QED BY <3>2, <3>4, <3>5
  <2>8. CASE LoadSettings(k)
    <3>1. next = "save" \/ (next = "done" /\ file' = file /\ unsaved' = TRUE)
      BY <2>3, <2>8 DEF LoadSettings, SettingsTypeOK
    <3>. QED BY <2>5, <2>6, <3>1
  <2>9. CASE SaveFails(k)
    <3>1. next = "done" /\ file' = file /\ unsaved' = TRUE
      BY <2>3, <2>9 DEF SaveFails, SettingsTypeOK
    <3>. QED BY <2>6, <3>1
  <2>. QED BY <1>2, <2>7, <2>8, <2>9
<1>. QED BY <1>1, <1>2 DEF SettingsNext

LEMMA AbortStep ==
    ASSUME SettingsTypeOK, LastChoice, AbortSaves
    PROVE  SettingsTypeOK' /\ LastChoice' /\ Settled'
<1>1. \A k \in Picks : /\ save'[k] = [save[k] EXCEPT !.at = IF @ = "load" THEN "done" ELSE @]
                       /\ save[k] \in [at : {"none", "load", "save", "done"}, id : Themes]
                       /\ save[k].at # "save"
  BY DEF AbortSaves, CanAbortSaves, SettingsTypeOK
<1>2. \A k \in Picks : /\ save'[k].at = IF save[k].at = "load" THEN "done" ELSE save[k].at
                       /\ save'[k].id = save[k].id
                       /\ save'[k] \in [at : {"none", "done"}, id : Themes]
  BY <1>1
<1>3. save' \in [Picks -> [at : {"none", "load", "save", "done"}, id : Themes]]
  BY <1>2 DEF AbortSaves
<1>4. SettingsTypeOK' /\ Settled'
  BY <1>2, <1>3 DEF AbortSaves, SettingsTypeOK, Settled
<1>5. \A k \in Picks : ~UnderWay(k)' /\ (save'[k].at # "none" => save[k].at # "none")
  BY <1>1, <1>2 DEF UnderWay
<1>6. ~unsaved' => ~unsaved /\ \A k \in Picks : ~UnderWay(k)
  BY <1>1 DEF AbortSaves, UnderWay
<1>7. picks' = picks /\ shown' = shown /\ file' = file
  BY DEF AbortSaves
<1>8. picks \in Picks => ~UnderWay(picks)'
  BY <1>5, <1>7
<1>9. Numbered' /\ LastIsShown' /\ NoneDropped'
  BY <1>5, <1>7, <1>8 DEF LastChoice, Numbered, LastIsShown, NoneDropped
<1>10. Kept'
  BY <1>6, <1>7, <1>8 DEF LastChoice, Kept, ThemeOf
<1>. QED BY <1>4, <1>9, <1>10 DEF LastChoice

LEMMA ThemeLoaded ==
    ASSUME SettingsTypeOK, LastChoice, Settled, LoadTheme
    PROVE  SettingsTypeOK' /\ LastChoice' /\ Settled'
<1>1. \A k \in Picks : ~UnderWay(k)
  BY DEF Settled, UnderWay
<1>2. ThemeOf(file) \in Themes
  BY ThemesAssumption DEF ThemeOf
<1>. QED BY <1>1, <1>2 DEF LoadTheme, SettingsTypeOK, LastChoice, Numbered, LastIsShown, Kept,
            NoneDropped, Settled, UnderWay, ThemeOf

-----------------------------------------------------------------------------
(* The steps of the overview.                                              *)

Stages == {"none", "list", "probe", "names", "records", "report", "done"}
TaskSet == [at : Stages, live : SUBSET Names, stored : SUBSET Names, left : SUBSET Names,
            found : OrNone(Entries), changed : SUBSET Names]
OpSet == [kind : {"none", "create", "destroy", "recreate"}, workers : Workers, at : 0..3]
TabSet == [record : OrNone(Workers), workers : Workers]
EntrySet == {Managed(w) : w \in Workers} \cup {Missing(w) : w \in Workers} \cup {Adopted, None}

LEMMA EntryFacts ==
    /\ None \notin Workers /\ Absent \notin Workers /\ None # Absent
    /\ Workers \subseteq Nat /\ 0 \in Workers
    /\ \A w \in Workers : /\ Managed(w) # None /\ Missing(w) # None
                          /\ Managed(w).is = "managed" /\ Missing(w).is = "missing"
                          /\ Managed(w).workers = w /\ Missing(w).workers = w
                          /\ Managed(w) # Adopted /\ Missing(w) # Adopted
    /\ Adopted.is = "adopted"
<1>1. None \notin Workers /\ Absent \notin Workers /\ None # Absent /\ Workers \subseteq Nat
      /\ 0 \in Workers
  BY OverviewAssumption DEF Workers
<1>2. ASSUME NEW w \in Workers
      PROVE  /\ Managed(w) # None /\ Missing(w) # None
             /\ Managed(w).is = "managed" /\ Missing(w).is = "missing"
             /\ Managed(w).workers = w /\ Missing(w).workers = w
             /\ Managed(w) # Adopted /\ Missing(w) # Adopted
  <2>1. Managed(w).is = "managed" /\ Missing(w).is = "missing" /\ Adopted.is = "adopted"
        /\ Managed(w).workers = w /\ Missing(w).workers = w
    BY DEF Managed, Missing, Adopted
  <2>2. {Managed(w), Missing(w)} \subseteq [is : {"managed", "missing"}, workers : Nat]
    BY <1>1 DEF Managed, Missing
  <2>. QED BY <2>1, <2>2, OverviewAssumption
<1>. QED BY <1>1, <1>2 DEF Adopted

\* OverviewTypeOK by the names above.
Typed ==
    /\ live \in [Names -> OrNone(Workers)] /\ record \in [Names -> OrNone(Workers)]
    /\ op \in [Names -> OpSet] /\ task \in [Tasks -> TaskSet]
    /\ report = None \/ report \in [Names -> EntrySet]
    /\ status \in [Names -> 0..(MaxWorkers + 1) \cup {None, Absent}]
    /\ error \in BOOLEAN /\ loading \in BOOLEAN
    /\ tab \in [Names -> OrNone(TabSet)]
    /\ ops \in 0..MaxOps /\ issued \in 0..MaxReconciles /\ troubles \in 0..MaxTroubles
    /\ unseen \subseteq Names /\ excused \subseteq Names /\ blurred \subseteq Names

LEMMA TypedIsTypeOK == Typed <=> OverviewTypeOK
  BY DEF Typed, OverviewTypeOK, OpSet, TaskSet, Stages, TabSet, OrNone, Entries, EntrySet

\* Opening a tab gives it the record that is shown.
LEMMA OpenedFacts ==
    ASSUME Typed, NEW n \in Names
    PROVE  /\ RecordShown(n) \in OrNone(Workers)
           /\ Opened(n) \in [Names -> OrNone(TabSet)]
           /\ \A m \in Names \ {n} : Opened(n)[m] = tab[m]
           /\ tab[n] # None => Opened(n) = tab
           /\ tab[n] = None => Opened(n)[n].record = RecordShown(n)
<1>1. tab \in [Names -> OrNone(TabSet)] /\ (report # None => report[n] \in EntrySet)
  BY DEF Typed
<1>2. RecordShown(n) \in OrNone(Workers)
  BY <1>1, EntryFacts DEF RecordShown, OrNone, EntrySet
<1>3. [record |-> RecordShown(n),
       workers |-> IF RecordShown(n) = None THEN 0 ELSE RecordShown(n)] \in TabSet
  BY <1>2, EntryFacts DEF TabSet, OrNone
<1>. QED BY <1>1, <1>2, <1>3 DEF Opened, OrNone

Starts(n, kind, w) == op' = [op EXCEPT ![n] = [kind |-> kind, workers |-> w, at |-> 0]]

\* What a click of the user may change: one operation begins, or one tab.
LEMMA ClickFacts ==
    ASSUME Typed, NEW n \in Names, Click(n)
    PROVE  /\ UNCHANGED <<world, task, report, status, error, loading, issued, troubles,
                          unseen, excused, blurred>>
           /\ \/ op' = op /\ ops' = ops
              \/ /\ CanIssue /\ n \notin Busy /\ ops' \in 0..MaxOps
                 /\ \E kind \in {"create", "destroy", "recreate"}, w \in Workers :
                      Starts(n, kind, w)
           /\ \/ tab' = tab
              \/ tab' = Opened(n)
              \/ tab' = [tab EXCEPT ![n] = None]
              \/ tab[n] # None /\ \E w \in Workers : tab' = [tab EXCEPT ![n].workers = w]
<1>1. \A kind \in {"create", "destroy", "recreate"}, w \in Workers :
        Start(n, kind, w) =>
          /\ UNCHANGED <<world, task, report, status, error, loading, issued, troubles,
                         unseen, excused, blurred>>
          /\ CanIssue /\ n \notin Busy /\ ops' \in 0..MaxOps /\ Starts(n, kind, w)
  BY OverviewAssumption DEF Start, Starts, Typed
<1>2. tab[n] # None => tab[n] \in TabSet
  BY DEF Typed, OrNone, TabSet
<1>3. CASE \E w \in Workers : CreateCluster(n, w) \/ Stage(n, w)
  BY <1>1, <1>3 DEF CreateCluster, Stage, OnlyTab, HasRecord
<1>4. CASE DestroyCard(n) \/ DestroyFromTab(n)
  BY <1>1, <1>4, EntryFacts DEF DestroyCard, DestroyFromTab
<1>5. CASE RecreateCard(n)
  <2>1. IsMissing(n)
    BY <1>5 DEF RecreateCard, Buttons
  <2>2. report[n].workers \in Workers
    BY <2>1, EntryFacts DEF IsMissing
  <2>. QED BY <1>1, <1>5, <2>2 DEF RecreateCard
<1>6. CASE OpenCluster(n) \/ CloseTab(n)
  BY <1>6 DEF OpenCluster, CloseTab, OnlyTab
<1>7. CASE ApplyScale(n)
  BY <1>1, <1>2, <1>7 DEF ApplyScale, HasRecord, TabSet
<1>8. CASE DeleteNode(n)
  <2>1. PICK fewer \in Workers : /\ tab' = [tab EXCEPT ![n].workers = fewer]
                                 /\ Start(n, "recreate", fewer)
    <3>. DEFINE fewer == IF tab[n].workers = 0 THEN 0 ELSE tab[n].workers - 1
    <3>1. fewer \in Workers
      BY <1>2, <1>8, OverviewAssumption DEF DeleteNode, HasRecord, TabSet, Workers
    <3>2. tab' = [tab EXCEPT ![n].workers = fewer] /\ Start(n, "recreate", fewer)
      BY <1>8 DEF DeleteNode
    <3>. QED BY <3>1, <3>2
  <2>. QED BY <1>1, <1>8, <2>1 DEF DeleteNode, HasRecord
<1>. QED BY <1>3, <1>4, <1>5, <1>6, <1>7, <1>8 DEF Click

-----------------------------------------------------------------------------
(* Types, and room for the follow-ups.                                     *)

BaseInv == Typed /\ OpsAreOps /\ Room

LEMMA SpawnedFacts ==
    ASSUME task \in [Tasks -> TaskSet]
    PROVE  /\ Spawned(task) \in [Tasks -> TaskSet]
           /\ \A t \in Tasks : Spawned(task)[t] = task[t] \/ Spawned(task)[t].at = "list"
           /\ NoTask \in TaskSet /\ NoTask.at = "none"
<1>1. NoTask \in TaskSet /\ Issued \in TaskSet /\ Issued.at = "list" /\ NoTask.at = "none"
  BY DEF NoTask, Issued, TaskSet, Stages, OrNone
<1>2. Spawned(task) \in [Tasks -> TaskSet]
  BY <1>1 DEF Spawned
<1>. QED BY <1>1, <1>2 DEF Spawned

LEMMA TroubleFacts == Typed /\ Trouble => troubles' \in 0..MaxTroubles
  BY OverviewAssumption DEF Typed, Trouble

\* A step of a task keeps the types; what it changes of its own is in `TaskSet`.
LEMMA TasksTyped ==
    ASSUME Typed, NEW t \in Tasks, DoReconcile(t)
    PROVE  Typed' /\ UNCHANGED <<world, op, ops, issued>>
<1>1. task[t] \in TaskSet /\ task \in [Tasks -> TaskSet]
  BY DEF Typed
<1>2. \A x \in TaskSet : With(t, x) => task' \in [Tasks -> TaskSet]
  BY <1>1 DEF With
<1>3. CASE List(t)
  <2>. DEFINE listed == {n \in Names : live[n] # None}
              x == [task[t] EXCEPT !.at = "probe", !.live = listed, !.left = listed,
                                   !.changed = {}]
  <2>1. x \in TaskSet /\ With(t, x)
    BY <1>1, <1>3 DEF TaskSet, Stages, List
  <2>. QED BY <1>2, <1>3, <2>1 DEF Typed, List, world, ui
<1>4. CASE ListFails(t)
  <2>. DEFINE x == [task[t] EXCEPT !.at = "report", !.found = None]
  <2>1. x \in TaskSet /\ With(t, x)
    BY <1>1, <1>4 DEF TaskSet, Stages, ListFails, OrNone
  <2>. QED BY <1>2, <1>4, <2>1, TroubleFacts DEF Typed, ListFails, world, ui
<1>5. CASE Probe(t)
  <2>1. PICK n \in task[t].left :
          /\ With(t, [task[t] EXCEPT !.left = @ \ {n}])
          /\ \/ /\ status' = [status EXCEPT ![n] = IF live[n] = None THEN 0 ELSE live[n] + 1]
                /\ blurred' = blurred \ {n} /\ UNCHANGED troubles
             \/ Trouble /\ status' = [status EXCEPT ![n] = Absent] /\ blurred' = blurred \cup {n}
             \/ Trouble /\ status' = status /\ blurred' = blurred \cup {n}
    BY <1>5 DEF Probe
  <2>2. [task[t] EXCEPT !.left = @ \ {n}] \in TaskSet /\ n \in Names
    BY <1>1 DEF TaskSet
  <2>3. (IF live[n] = None THEN 0 ELSE live[n] + 1) \in 0..(MaxWorkers + 1)
    BY <2>2, OverviewAssumption DEF Typed, OrNone, Workers
  <2>4. status' \in [Names -> 0..(MaxWorkers + 1) \cup {None, Absent}]
    BY <2>1, <2>3 DEF Typed
  <2>5. troubles' \in 0..MaxTroubles /\ blurred' \subseteq Names
    BY <2>1, <2>2, TroubleFacts DEF Typed
  <2>. QED BY <1>2, <1>5, <2>1, <2>2, <2>4, <2>5 DEF Typed, Probe, world
<1>6. CASE StoredClusterNames(t)
  <2>. DEFINE x == [task[t] EXCEPT !.at = "records", !.stored = {n \in Names : record[n] # None}]
  <2>1. x \in TaskSet /\ With(t, x)
    BY <1>1, <1>6 DEF TaskSet, Stages, StoredClusterNames
  <2>. QED BY <1>2, <1>6, <2>1 DEF Typed, StoredClusterNames, world, ui
<1>7. CASE Reconcile(t)
  <2>. DEFINE found == IF \E n \in task[t].stored \ task[t].live : record[n] = None
                         THEN None ELSE Classified(t)
              x == [task[t] EXCEPT !.at = "report", !.found = found]
  <2>1. found \in OrNone(Entries)
    <3>1. ASSUME \A n \in task[t].stored \ task[t].live : record[n] # None
          PROVE  Classified(t) \in [Names -> EntrySet]
      BY <1>1, <3>1 DEF Typed, Classified, EntrySet, OrNone, TaskSet
    <3>. QED BY <3>1 DEF OrNone, Entries, EntrySet
  <2>2. x \in TaskSet /\ With(t, x)
    BY <1>1, <1>7, <2>1 DEF TaskSet, Stages, Reconcile
  <2>. QED BY <1>2, <1>7, <2>2 DEF Typed, Reconcile, world, ui
<1>8. ASSUME Done(t)
      PROVE  task' \in [Tasks -> TaskSet]
  <2>1. [NoTask EXCEPT !.at = "done"] \in TaskSet
    BY DEF NoTask, TaskSet, Stages, OrNone
  <2>. QED BY <1>2, <1>8, <2>1 DEF Done
<1>9. CASE ReportDone(t)
  <2>. DEFINE found == task[t].found
  <2>1. found \in [Names -> EntrySet]
    BY <1>1, <1>9 DEF ReportDone, TaskSet, OrNone, Entries, EntrySet
  <2>2. \A n \in Names :
          found[n] \in {Managed(w) : w \in Workers} => found[n].workers \in Workers
    BY EntryFacts
  <2>3. tab' \in [Names -> OrNone(TabSet)]
    BY <1>9, <2>2 DEF Typed, ReportDone, OrNone, TabSet
  <2>4. task[t].changed \subseteq Names
    BY <1>1 DEF TaskSet
  <2>. QED BY <1>8, <1>9, <2>1, <2>3, <2>4 DEF Typed, ReportDone, world
<1>10. CASE ReportError(t)
  BY <1>8, <1>10 DEF Typed, ReportError, world
<1>11. CASE ReportLost(t)
  BY <1>8, <1>11, TroubleFacts DEF Typed, ReportLost, world, ui
<1>. QED BY <1>3, <1>4, <1>5, <1>6, <1>7, <1>9, <1>10, <1>11 DEF DoReconcile

\* What an operation does to the clusters and the records.
LEMMA EffectFacts ==
    ASSUME Typed, OpsAreOps, NEW n \in Names, MoreSteps(n)
    PROVE  /\ op[n].kind \in {"create", "destroy", "recreate"} /\ op[n].at \in 0..2
           /\ Effect(n) => /\ live' \in [Names -> OrNone(Workers)]
                           /\ record' \in [Names -> OrNone(Workers)]
                           /\ \A m \in Names \ {n} : live'[m] = live[m] /\ record'[m] = record[m]
<1>1. op[n] \in OpSet /\ op[n] # NoOp
  BY DEF Typed, MoreSteps
<1>2. op[n].kind \in {"create", "destroy", "recreate"}
  BY <1>1 DEF OpSet, OpsAreOps
<1>3. /\ Len(Steps["create"]) = 2 /\ Len(Steps["destroy"]) = 2 /\ Len(Steps["recreate"]) = 3
  BY DEF Steps
<1>4. op[n].at \in 0..2
  <2>1. op[n].at \in 0..3
    BY <1>1 DEF OpSet
  <2>2. op[n].at < Len(Steps[op[n].kind])
    BY DEF MoreSteps
  <2>3. op[n].at < 3
    <3>1. CASE op[n].kind \in {"create", "destroy"}
      <4>1. op[n].at < 2
        BY <1>3, <2>2, <3>1
      <4>. QED BY <2>1, <4>1
    <3>2. CASE op[n].kind = "recreate"
      BY <1>3, <2>1, <2>2, <3>2
    <3>. QED BY <1>2, <3>1, <3>2
  <2>. QED BY <2>1, <2>3
<1>5. op[n].workers \in OrNone(Workers) /\ None \in OrNone(Workers)
  BY <1>1 DEF OpSet, OrNone
<1>6. ASSUME Effect(n)
      PROVE  /\ live' \in [Names -> OrNone(Workers)] /\ record' \in [Names -> OrNone(Workers)]
             /\ \A m \in Names \ {n} : live'[m] = live[m] /\ record'[m] = record[m]
  <2>1. live' \in {live, [live EXCEPT ![n] = op[n].workers], [live EXCEPT ![n] = None]}
    BY <1>6 DEF Effect
  <2>2. record' \in {record, [record EXCEPT ![n] = op[n].workers], [record EXCEPT ![n] = None]}
    BY <1>6 DEF Effect
  <2>. QED BY <1>5, <2>1, <2>2 DEF Typed
<1>. QED BY <1>2, <1>4, <1>6

\* A change of n is noted by all that is under way.
LEMMA ChangesFacts ==
    ASSUME Typed, NEW n \in Names, Changes(n)
    PROVE  /\ unseen' = unseen \cup {n} /\ unseen' \subseteq Names
           /\ task' \in [Tasks -> TaskSet]
           /\ \A t \in Tasks :
                \/ task[t].at \in {"none", "done"} /\ task'[t] = task[t]
                \/ /\ task'[t].changed = task[t].changed \cup {n}
                   /\ task'[t].at = task[t].at /\ task'[t].found = task[t].found
                   /\ task'[t].live = task[t].live /\ task'[t].stored = task[t].stored
                   /\ task'[t].left = task[t].left
<1>1. unseen' = unseen \cup {n} /\ unseen' \subseteq Names
  BY DEF Changes, Typed
<1>2. ASSUME NEW t \in Tasks
      PROVE  /\ task'[t] \in TaskSet
             /\ \/ task[t].at \in {"none", "done"} /\ task'[t] = task[t]
                \/ /\ task'[t].changed = task[t].changed \cup {n}
                   /\ task'[t].at = task[t].at /\ task'[t].found = task[t].found
                   /\ task'[t].live = task[t].live /\ task'[t].stored = task[t].stored
                   /\ task'[t].left = task[t].left
  <2>1. task[t] \in TaskSet
    BY DEF Typed
  <2>2. task'[t] = IF task[t].at \in {"none", "done"} THEN task[t]
                   ELSE [task[t] EXCEPT !.changed = @ \cup {n}]
    BY DEF Changes
  <2>. QED BY <2>1, <2>2 DEF TaskSet
<1>3. task' \in [Tasks -> TaskSet]
  BY <1>2 DEF Changes
<1>. QED BY <1>1, <1>2, <1>3

\* The operation of n ends, or begins, and the others are left alone.
LEMMA EndRoom ==
    ASSUME Room, issued \in Nat, op \in [Names -> OpSet], NEW n \in Names, n \in Busy,
           op' = [op EXCEPT ![n] = NoOp], issued' \in {issued, issued + 1}
    PROVE  Room'
<1>1. Busy' = Busy \ {n}
  BY DEF Busy
<1>2. /\ IsFiniteSet(Busy \ {n}) /\ Cardinality(Busy \ {n}) = Cardinality(Busy) - 1
      /\ Cardinality(Busy) \in Nat
  BY FS_RemoveElement, FS_CardinalityType DEF Room
<1>. QED BY <1>1, <1>2, OverviewAssumption DEF Room

LEMMA BeginRoom ==
    ASSUME Room, issued \in Nat, op \in [Names -> OpSet], NEW n \in Names, n \notin Busy, CanIssue,
           NEW x, op' = [op EXCEPT ![n] = x], issued' = issued
    PROVE  Room'
<1>1. Busy' = Busy \/ Busy' = Busy \cup {n}
  BY DEF Busy
<1>2. /\ IsFiniteSet(Busy \cup {n}) /\ Cardinality(Busy \cup {n}) = Cardinality(Busy) + 1
      /\ Cardinality(Busy) \in Nat
  BY FS_AddElement, FS_CardinalityType DEF Room
<1>. QED BY <1>1, <1>2, OverviewAssumption DEF Room, CanIssue

LEMMA BusyCount ==
    ASSUME Room PROVE Cardinality(Busy) \in Nat /\ \A n \in Busy : Cardinality(Busy) >= 1
<1>1. IsFiniteSet(Busy) /\ Cardinality(Busy) \in Nat
  BY FS_CardinalityType DEF Room
<1>2. ASSUME NEW n \in Busy PROVE Cardinality(Busy) >= 1
  BY <1>1, FS_EmptySet
<1>. QED BY <1>1, <1>2

LEMMA BaseStep ==
    ASSUME BaseInv, OverviewNext
    PROVE  BaseInv'
<1>. USE OverviewAssumption DEF BaseInv
<1>1. /\ issued \in Nat /\ issued + Cardinality(Busy) <= MaxReconciles
      /\ op \in [Names -> OpSet] /\ task \in [Tasks -> TaskSet]
      /\ NoOp \in OpSet /\ NoOp.kind = "none"
  BY DEF Typed, Room, NoOp, OpSet, Workers
<1>2. ASSUME NEW t \in Tasks, DoReconcile(t)
      PROVE  BaseInv'
  <2>1. Typed' /\ op' = op /\ issued' = issued
    BY <1>2, TasksTyped
  <2>. QED BY <2>1 DEF OpsAreOps, Room, Busy
<1>3. ASSUME NEW n \in Names, OpStep(n)
      PROVE  BaseInv'
  <2>1. MoreSteps(n) /\ Effect(n) /\ Changes(n)
    BY <1>3 DEF OpStep
  <2>2. op[n].kind \in {"create", "destroy", "recreate"} /\ op[n].at \in 0..2 /\ op[n] \in OpSet
    BY <1>1, <2>1, EffectFacts
  <2>3. [op[n] EXCEPT !.at = @ + 1] \in OpSet /\ [op[n] EXCEPT !.at = @ + 1].kind = op[n].kind
    BY <2>2 DEF OpSet
  <2>4. op' = [op EXCEPT ![n] = [op[n] EXCEPT !.at = @ + 1]]
    BY <1>3 DEF OpStep
  <2>5. op' \in [Names -> OpSet] /\ \A m \in Names : op'[m].kind = op[m].kind
    BY <1>1, <2>3, <2>4
  <2>6. op[n] # NoOp /\ op'[n] # NoOp /\ \A m \in Names \ {n} : op'[m] = op[m]
    BY <1>1, <2>1, <2>2, <2>3, <2>4 DEF MoreSteps
  <2>7. OpsAreOps' /\ Busy' = Busy /\ issued' = issued
    BY <1>3, <2>2, <2>5, <2>6 DEF OpsAreOps, Busy, OpStep
  <2>8. Typed'
    BY <1>3, <2>1, <2>5, EffectFacts, ChangesFacts DEF Typed, OpStep, ui
  <2>. QED BY <2>7, <2>8 DEF Room
<1>4. ASSUME NEW n \in Names, OpFails(n)
      PROVE  BaseInv'
  <2>1. /\ MoreSteps(n) /\ op' = [op EXCEPT ![n] = NoOp] /\ issued' = issued /\ Trouble
        /\ UNCHANGED <<world, unseen, task>> \/ (Effect(n) /\ Changes(n))
    BY <1>4 DEF OpFails
  <2>2. n \in Busy
    BY <2>1 DEF Busy, MoreSteps
  <2>3. Room' /\ OpsAreOps'
    BY <1>1, <2>1, <2>2, EndRoom DEF OpsAreOps
  <2>4. op' \in [Names -> OpSet] /\ troubles' \in 0..MaxTroubles
    BY <1>1, <2>1, TroubleFacts
  <2>5. CASE UNCHANGED <<world, unseen, task>>
    BY <1>4, <2>3, <2>4, <2>5 DEF Typed, OpFails, ui, world
  <2>6. CASE Effect(n) /\ Changes(n)
    BY <1>4, <2>1, <2>3, <2>4, <2>6, EffectFacts, ChangesFacts DEF Typed, OpFails, ui
  <2>. QED BY <2>1, <2>5, <2>6
<1>5. ASSUME NEW n \in Names, OpDone(n)
      PROVE  BaseInv'
  <2>1. n \in Busy /\ op' = [op EXCEPT ![n] = NoOp]
    BY <1>5 DEF Busy, OpDone
  <2>2. /\ issued' \in {issued, issued + 1} /\ task' \in {task, Spawned(task)}
        /\ troubles' \in 0..MaxTroubles /\ excused' \subseteq Names
    BY <1>5, TroubleFacts DEF OpDone, Follow, Typed
  <2>3. Room' /\ OpsAreOps'
    BY <1>1, <2>1, <2>2, EndRoom DEF OpsAreOps
  <2>4. issued' \in 0..MaxReconciles
    BY <1>1, <2>1, <2>2, BusyCount
  <2>5. tab' \in [Names -> OrNone(TabSet)]
    BY <1>5, OpenedFacts DEF OpDone, Typed, OrNone
  <2>6. task' \in [Tasks -> TaskSet] /\ op' \in [Names -> OpSet]
    BY <1>1, <2>1, <2>2, SpawnedFacts
  <2>. QED BY <1>5, <2>2, <2>3, <2>4, <2>5, <2>6 DEF Typed, OpDone, world
<1>6. ASSUME NEW n \in Names, Outside(n)
      PROVE  BaseInv'
  <2>1. live' \in [Names -> OrNone(Workers)]
    BY <1>6 DEF Outside, Typed
  <2>2. troubles' \in 0..MaxTroubles /\ Changes(n)
    BY <1>6, TroubleFacts DEF Outside
  <2>3. Room' /\ OpsAreOps'
    BY <1>6 DEF Outside, Room, OpsAreOps, Busy
  <2>. QED BY <1>6, <2>1, <2>2, <2>3, ChangesFacts DEF Typed, Outside, ui
<1>7. ASSUME NEW n \in Names, Click(n)
      PROVE  BaseInv'
  <2>. USE <1>7
  <2>1. tab' \in [Names -> OrNone(TabSet)]
    <3>1. CASE tab[n] # None /\ \E w \in Workers : tab' = [tab EXCEPT ![n].workers = w]
      <4>1. PICK w \in Workers : tab' = [tab EXCEPT ![n].workers = w]
        BY <3>1
      <4>2. tab[n] \in TabSet
        BY <3>1 DEF Typed, OrNone
      <4>3. [tab[n] EXCEPT !.workers = w] \in OrNone(TabSet)
        BY <4>2 DEF TabSet, OrNone
      <4>. QED BY <4>1, <4>3 DEF Typed
    <3>. QED BY <3>1, ClickFacts, OpenedFacts DEF Typed, OrNone
  <2>2. CASE op' = op /\ ops' = ops
    BY <2>1, <2>2, ClickFacts DEF Typed, OpsAreOps, Room, Busy, world
  <2>3. CASE /\ CanIssue /\ n \notin Busy /\ ops' \in 0..MaxOps
             /\ \E kind \in {"create", "destroy", "recreate"}, w \in Workers : Starts(n, kind, w)
    <3>1. PICK kind \in {"create", "destroy", "recreate"}, w \in Workers : Starts(n, kind, w)
      BY <2>3
    <3>2. op' = [op EXCEPT ![n] = [kind |-> kind, workers |-> w, at |-> 0]] /\ issued' = issued
      BY <3>1, ClickFacts DEF Starts
    <3>3. Room'
      BY <1>1, <2>3, <3>2, BeginRoom
    <3>4. op' \in [Names -> OpSet] /\ OpsAreOps'
      BY <1>1, <3>2 DEF OpSet, OpsAreOps
    <3>. QED BY <2>1, <2>3, <3>3, <3>4, ClickFacts DEF Typed, world
  <2>. QED BY <2>2, <2>3, ClickFacts
<1>8. CASE Refresh
  <2>1. CanIssue /\ task' = Spawned(task) /\ issued' = issued + 1 /\ op' = op
    BY <1>8 DEF Refresh
  <2>2. Room' /\ OpsAreOps' /\ issued' \in 0..MaxReconciles
    BY <1>1, <2>1, BusyCount DEF Room, OpsAreOps, Busy, CanIssue
  <2>. QED BY <1>1, <1>8, <2>1, <2>2, SpawnedFacts DEF Refresh, Typed, world, ui
<1>. QED BY <1>2, <1>3, <1>4, <1>5, <1>6, <1>7, <1>8 DEF OverviewNext

-----------------------------------------------------------------------------
(* What the reconciles have found out.                                     *)

\* A name whose cluster, record and status are as they were.
Same(n) == live'[n] = live[n] /\ record'[n] = record[n]

LEMMA TruthFacts ==
    ASSUME Typed, NEW n \in Names
    PROVE  /\ live[n] \in OrNone(Workers) /\ record[n] \in OrNone(Workers)
           /\ live[n] # None /\ record[n] # None => Truth(n) = Managed(record[n])
           /\ live[n] # None /\ record[n] = None => Truth(n) = Adopted
           /\ live[n] = None /\ record[n] # None => Truth(n) = Missing(record[n])
           /\ live[n] = None /\ record[n] = None => Truth(n) = None
  BY DEF Typed, Truth

\* What a task that is left alone has found out stays true of what stays.
LEMMA TellKept ==
    ASSUME NEW t \in Tasks, NEW n \in Names, FoundOut(t, n), Same(n),
           /\ task'[t].at = task[t].at /\ task'[t].found = task[t].found
           /\ task'[t].live = task[t].live /\ task'[t].stored = task[t].stored
           /\ task'[t].left = task[t].left,
           \/ status'[n] = status[n] /\ (n \notin blurred' => n \notin blurred)
           \/ n \in blurred'
           \/ live[n] # None => status'[n] = live[n] + 1
    PROVE  FoundOut(t, n)'
<1>1. Truth(n)' = Truth(n) /\ (Probed(t, n)' <=> Probed(t, n))
  BY DEF Truth, Same, Probed
<1>. QED BY <1>1 DEF FoundOut, Same

LEMMA NothingFound ==
    ASSUME NEW t \in Tasks, NEW n \in Names,
           \/ task'[t].at \in {"none", "list", "done"}
           \/ task'[t].at = "report" /\ task'[t].found = None
    PROVE  FoundOut(t, n)'
  BY DEF FoundOut, Probed

LEMMA TellStep ==
    ASSUME Typed, OpsAreOps, TasksTell, OverviewNext
    PROVE  TasksTell'
<1>1. task \in [Tasks -> TaskSet]
  BY DEF Typed
<1>2. ASSUME NEW n \in Names, Changes(n), UNCHANGED <<status, blurred>>,
             \A m \in Names \ {n} : Same(m)
      PROVE  TasksTell'
  <2>1. ASSUME NEW t \in Tasks, NEW m \in Names \ task'[t].changed
        PROVE  FoundOut(t, m)'
    <3>1. CASE task[t].at \in {"none", "done"} /\ task'[t] = task[t]
      BY <3>1, NothingFound
    <3>2. CASE /\ task'[t].changed = task[t].changed \cup {n}
               /\ task'[t].at = task[t].at /\ task'[t].found = task[t].found
               /\ task'[t].live = task[t].live /\ task'[t].stored = task[t].stored
               /\ task'[t].left = task[t].left
      <4>1. m # n /\ m \notin task[t].changed
        BY <2>1, <3>2
      <4>2. FoundOut(t, m) /\ Same(m)
        BY <1>2, <4>1 DEF TasksTell
      <4>. QED BY <1>2, <3>2, <4>2, TellKept
    <3>. QED BY <1>2, <3>1, <3>2, ChangesFacts
  <2>. QED BY <2>1 DEF TasksTell
<1>3. ASSUME UNCHANGED <<world, status, blurred>>, task' \in {task, Spawned(task)}
      PROVE  TasksTell'
  <2>1. ASSUME NEW t \in Tasks, NEW m \in Names \ task'[t].changed
        PROVE  FoundOut(t, m)'
    <3>1. CASE task'[t] = task[t]
      BY <1>3, <2>1, <3>1, TellKept DEF TasksTell, Same, world
    <3>2. CASE task'[t].at = "list"
      BY <3>2, NothingFound
    <3>. QED BY <1>1, <1>3, <3>1, <3>2, SpawnedFacts
  <2>. QED BY <2>1 DEF TasksTell
<1>4. ASSUME NEW t \in Tasks, DoReconcile(t)
      PROVE  TasksTell'
  <2>1. UNCHANGED world /\ task[t] \in TaskSet
    BY <1>1, <1>4, TasksTyped
  <2>2. \A m \in Names : Same(m)
    BY <2>1 DEF Same, world
  <2>3. ASSUME NEW x, With(t, x), UNCHANGED <<status, blurred>>,
               \A m \in Names \ x.changed : FoundOut(t, m)'
        PROVE  TasksTell'
    <3>1. ASSUME NEW u \in Tasks, NEW m \in Names \ task'[u].changed
          PROVE  FoundOut(u, m)'
      <4>1. CASE u = t
        BY <1>1, <2>3, <3>1, <4>1 DEF With
      <4>2. CASE u # t
        <5>1. task'[u] = task[u]
          BY <1>1, <2>3, <4>2 DEF With
        <5>. QED BY <2>2, <2>3, <3>1, <5>1, TellKept DEF TasksTell
      <4>. QED BY <4>1, <4>2
    <3>. QED BY <3>1 DEF TasksTell
  <2>4. CASE List(t)
    <3>. DEFINE listed == {n \in Names : live[n] # None}
                x == [task[t] EXCEPT !.at = "probe", !.live = listed, !.left = listed,
                                   !.changed = {}]
    <3>1. With(t, x) /\ UNCHANGED <<status, blurred>>
      BY <2>4 DEF List, ui
    <3>2. x.at = "probe" /\ x.live = listed /\ x.left = listed
      BY <2>1 DEF TaskSet
    <3>3. task'[t] = x
      BY <1>1, <3>1 DEF With
    <3>4. \A m \in Names : FoundOut(t, m)'
      BY <2>2, <3>2, <3>3 DEF FoundOut, Probed, Same
    <3>. QED BY <2>3, <3>1, <3>4
  <2>5. CASE ListFails(t)
    <3>. DEFINE x == [task[t] EXCEPT !.at = "report", !.found = None]
    <3>1. With(t, x) /\ UNCHANGED <<status, blurred>>
      BY <2>5 DEF ListFails, ui
    <3>2. x.at = "report" /\ x.found = None
      BY <2>1 DEF TaskSet
    <3>3. task'[t] = x
      BY <1>1, <3>1 DEF With
    <3>4. \A m \in Names : FoundOut(t, m)'
      BY <3>2, <3>3, NothingFound
    <3>. QED BY <2>3, <3>1, <3>4
  <2>6. CASE Probe(t)
    <3>1. PICK n \in task[t].left :
            /\ With(t, [task[t] EXCEPT !.left = @ \ {n}])
            /\ \/ /\ status' = [status EXCEPT ![n] = IF live[n] = None THEN 0 ELSE live[n] + 1]
                  /\ blurred' = blurred \ {n} /\ UNCHANGED troubles
               \/ Trouble /\ status' = [status EXCEPT ![n] = Absent] /\ blurred' = blurred \cup {n}
               \/ Trouble /\ status' = status /\ blurred' = blurred \cup {n}
      BY <2>6 DEF Probe
    <3>2. n \in Names /\ task[t].at = "probe"
      BY <2>1, <2>6, <3>1 DEF TaskSet, Probe
    <3>3. status \in [Names -> 0..(MaxWorkers + 1) \cup {None, Absent}]
      BY DEF Typed
    <3>4. \A m \in Names \ {n} : status'[m] = status[m] /\ (m \notin blurred' => m \notin blurred)
      BY <3>1, <3>2, <3>3
    <3>5. n \in blurred' \/ (live[n] # None => status'[n] = live[n] + 1)
      BY <3>1, <3>2, <3>3
    <3>6. ASSUME NEW u \in Tasks, NEW m \in Names \ task'[u].changed
          PROVE  FoundOut(u, m)'
      <4>1. CASE u # t
        <5>1. task'[u] = task[u]
          BY <1>1, <3>1, <4>1 DEF With
        <5>2. FoundOut(u, m)
          BY <3>6, <5>1 DEF TasksTell
        <5>. QED BY <2>2, <3>4, <3>5, <5>1, <5>2, TellKept
      <4>2. CASE u = t
        <5>1. task'[t] = [task[t] EXCEPT !.left = @ \ {n}]
          BY <1>1, <3>1 DEF With
        <5>2. /\ task'[t].at = "probe" /\ task'[t].live = task[t].live
              /\ task'[t].left = task[t].left \ {n} /\ task'[t].changed = task[t].changed
          BY <2>1, <3>2, <5>1 DEF TaskSet
        <5>3. FoundOut(t, m)
          BY <3>6, <4>2, <5>2 DEF TasksTell
        <5>4. CASE m = n
          BY <2>2, <3>2, <3>5, <4>2, <5>2, <5>3, <5>4 DEF FoundOut, Same
        <5>5. CASE m # n
          BY <2>2, <3>2, <3>4, <4>2, <5>2, <5>3, <5>5 DEF FoundOut, Probed, Same
        <5>. QED BY <5>4, <5>5
      <4>. QED BY <4>1, <4>2
    <3>. QED BY <3>6 DEF TasksTell
  <2>7. CASE StoredClusterNames(t)
    <3>. DEFINE x == [task[t] EXCEPT !.at = "records", !.stored = {n \in Names : record[n] # None}]
    <3>1. With(t, x) /\ UNCHANGED <<status, blurred>> /\ task[t].at = "probe" /\ task[t].left = {}
      BY <2>7 DEF StoredClusterNames, ui
    <3>2. /\ x.at = "records" /\ x.stored = {n \in Names : record[n] # None}
          /\ x.live = task[t].live /\ x.changed = task[t].changed
      BY <2>1 DEF TaskSet
    <3>3. task'[t] = x
      BY <1>1, <3>1 DEF With
    <3>4. ASSUME NEW m \in Names \ x.changed
          PROVE  FoundOut(t, m)'
      <4>1. FoundOut(t, m) /\ Probed(t, m)
        BY <3>1, <3>2 DEF TasksTell, Probed
      <4>. QED BY <2>2, <3>1, <3>2, <3>3, <4>1 DEF FoundOut, Same
    <3>. QED BY <2>3, <3>1, <3>4
  <2>8. CASE Reconcile(t)
    <3>. DEFINE found == IF \E n \in task[t].stored \ task[t].live : record[n] = None
                           THEN None ELSE Classified(t)
                x == [task[t] EXCEPT !.at = "report", !.found = found]
    <3>1. With(t, x) /\ UNCHANGED <<status, blurred>> /\ task[t].at = "records"
      BY <2>8 DEF Reconcile, ui
    <3>2. x.at = "report" /\ x.found = found /\ x.changed = task[t].changed
      BY <2>1 DEF TaskSet
    <3>3. task'[t] = x
      BY <1>1, <3>1 DEF With
    <3>4. ASSUME NEW m \in Names \ x.changed
          PROVE  FoundOut(t, m)'
      <4>1. FoundOut(t, m) /\ Probed(t, m)
        BY <3>1, <3>2 DEF TasksTell, Probed
      <4>2. (m \in task[t].live <=> live[m] # None) /\ (m \in task[t].stored <=> record[m] # None)
        BY <3>1, <4>1 DEF FoundOut
      <4>3. Classified(t)[m] = Truth(m)
        BY <4>2, TruthFacts DEF Classified
      <4>4. found # None => found[m] = Truth(m)
        BY <4>3
      <4>5. Truth(m)' = Truth(m)
        BY <2>2 DEF Truth, Same
      <4>. QED BY <2>2, <3>1, <3>2, <3>3, <4>1, <4>4, <4>5 DEF FoundOut, Same
    <3>. QED BY <2>3, <3>1, <3>4
  <2>9. CASE ReportDone(t) \/ ReportError(t) \/ ReportLost(t)
    <3>. DEFINE x == [NoTask EXCEPT !.at = "done"]
    <3>1. With(t, x) /\ UNCHANGED <<status, blurred>>
      BY <2>9 DEF ReportDone, ReportError, ReportLost, Done, ui
    <3>2. x.at = "done"
      BY DEF NoTask
    <3>3. task'[t] = x
      BY <1>1, <3>1 DEF With
    <3>4. \A m \in Names : FoundOut(t, m)'
      BY <3>2, <3>3, NothingFound
    <3>. QED BY <2>3, <3>1, <3>4
  <2>. QED BY <1>4, <2>4, <2>5, <2>6, <2>7, <2>8, <2>9 DEF DoReconcile
<1>5. ASSUME NEW n \in Names, OpStep(n)
      PROVE  TasksTell'
  <2>1. MoreSteps(n) /\ Effect(n) /\ Changes(n) /\ UNCHANGED <<status, blurred>>
    BY <1>5 DEF OpStep, ui
  <2>. QED BY <1>2, <2>1, EffectFacts DEF Same
<1>6. ASSUME NEW n \in Names, OpFails(n)
      PROVE  TasksTell'
  <2>1. MoreSteps(n) /\ UNCHANGED <<status, blurred>>
        /\ (UNCHANGED <<world, unseen, task>> \/ (Effect(n) /\ Changes(n)))
    BY <1>6 DEF OpFails, ui
  <2>. QED BY <1>2, <1>3, <2>1, EffectFacts DEF Same
<1>7. ASSUME NEW n \in Names, Outside(n)
      PROVE  TasksTell'
  <2>1. \A m \in Names \ {n} : Same(m)
    BY <1>7 DEF Outside, Typed, Same
  <2>. QED BY <1>2, <1>7, <2>1 DEF Outside, ui
<1>8. ASSUME NEW n \in Names, OpDone(n)
      PROVE  TasksTell'
  BY <1>3, <1>8 DEF OpDone, Follow
<1>9. ASSUME NEW n \in Names, Click(n)
      PROVE  TasksTell'
  BY <1>3, <1>9, ClickFacts
<1>10. CASE Refresh
  BY <1>3, <1>10 DEF Refresh, ui
<1>. QED BY <1>4, <1>5, <1>6, <1>7, <1>8, <1>9, <1>10 DEF OverviewNext

-----------------------------------------------------------------------------
(* The truth of what is shown.                                             *)

\* The three parts of OverviewIsTruthful for one name.
CardTrue(n) == report[n] = Truth(n)
PillTrue(n) ==
    report[n] # None /\ n \notin blurred =>
        StatusPill(n) = IF live[n] # None THEN [says |-> "running", nodes |-> live[n] + 1]
                        ELSE [says |-> "missing", nodes |-> 0]
TabTrue(n) == tab[n] # None /\ live[n] # None /\ record[n] # None => tab[n].record = record[n]

\* The number of nodes is what a card says of a cluster that was counted.
Counted(n) == live[n] # None /\ n \notin blurred => status[n] = live[n] + 1

LEMMA LiveIsThere ==
    ASSUME Typed, NEW n \in Names, report[n] = Truth(n), live[n] # None
    PROVE  report[n] # None /\ ~IsMissing(n) /\ report[n].is \in {"managed", "adopted"}
<1>1. \/ record[n] \in Workers /\ report[n] = Managed(record[n])
      \/ report[n] = Adopted
  BY TruthFacts DEF OrNone
<1>2. report[n].is \in {"managed", "adopted"}
  BY <1>1, EntryFacts
<1>3. report[n] # None
  BY <1>1, EntryFacts, OverviewAssumption DEF Adopted
<1>4. \A w \in Workers : Missing(w).is = "missing"
  BY EntryFacts
<1>5. ~IsMissing(n)
  BY <1>2, <1>4 DEF IsMissing
<1>. QED BY <1>2, <1>3, <1>5

LEMMA PillFacts ==
    ASSUME Typed, NEW n \in Names, CardTrue(n), Counted(n)
    PROVE  PillTrue(n)
<1>1. SUFFICES ASSUME report[n] # None, n \notin blurred
               PROVE  StatusPill(n) = IF live[n] # None
                                        THEN [says |-> "running", nodes |-> live[n] + 1]
                                        ELSE [says |-> "missing", nodes |-> 0]
  BY DEF PillTrue
<1>2. report[n] = Truth(n)
  BY DEF CardTrue
<1>3. CASE live[n] # None
  <2>1. status[n] = live[n] + 1 /\ live[n] \in Nat
    BY <1>1, <1>3, TruthFacts, EntryFacts DEF Counted, OrNone
  <2>2. status[n] \in Nat /\ status[n] # 0 /\ status[n] # None /\ status[n] # Absent
    BY <2>1, OverviewAssumption
  <2>3. ~IsMissing(n)
    BY <1>2, <1>3, LiveIsThere
  <2>. QED BY <1>3, <2>1, <2>2, <2>3 DEF StatusPill, StatusShown
<1>4. CASE live[n] = None
  <2>1. record[n] \in Workers /\ report[n] = Missing(record[n])
    BY <1>1, <1>2, <1>4, TruthFacts DEF OrNone
  <2>2. IsMissing(n)
    BY <2>1 DEF IsMissing
  <2>3. report[n].is = "missing"
    BY <2>1, EntryFacts
  <2>4. None # Absent /\ None # 0
    BY EntryFacts
  <2>. QED BY <1>4, <2>2, <2>3, <2>4 DEF StatusPill, StatusShown
<1>. QED BY <1>3, <1>4

\* OverviewIsTruthful by what a card is made of.
CountedTruth ==
    report # None => \A n \in Names \ unseen : CardTrue(n) /\ Counted(n) /\ TabTrue(n)

LEMMA TruthFollows == Typed /\ CountedTruth => OverviewIsTruthful
  BY PillFacts DEF CountedTruth, OverviewIsTruthful, CardTrue, PillTrue, TabTrue

\* The tab of n is as it was, closed, or opened on the record shown.
SameTab(n) ==
    tab'[n] # None => \/ tab[n] # None /\ tab'[n].record = tab[n].record
                      \/ tab'[n].record = RecordShown(n)

LEMMA TruthKept ==
    ASSUME Typed, CountedTruth, report' = report,
           \A n \in Names \ unseen' :
               /\ n \notin unseen /\ Same(n) /\ SameTab(n)
               /\ \/ status'[n] = status[n] /\ (n \notin blurred' => n \notin blurred)
                  \/ n \in blurred'
                  \/ live[n] # None => status'[n] = live[n] + 1
    PROVE  CountedTruth'
<1>1. SUFFICES ASSUME report # None, NEW n \in Names \ unseen'
               PROVE  CardTrue(n)' /\ Counted(n)' /\ TabTrue(n)'
  BY DEF CountedTruth
<1>2. CardTrue(n) /\ Counted(n) /\ TabTrue(n) /\ Same(n) /\ SameTab(n)
  BY <1>1 DEF CountedTruth
<1>3. CardTrue(n)'
  BY <1>2 DEF CardTrue, Truth, Same
<1>4. Counted(n)'
  BY <1>1, <1>2 DEF Counted, Same
<1>5. TabTrue(n)'
  <2>1. ASSUME live[n] # None, record[n] # None, tab'[n].record = RecordShown(n)
        PROVE  tab'[n].record = record[n]
    <3>1. record[n] \in Workers /\ report[n] = Managed(record[n])
      BY <1>1, <1>2, <2>1, TruthFacts DEF CardTrue, OrNone
    <3>. QED BY <1>1, <2>1, <3>1, EntryFacts DEF RecordShown
  <2>. QED BY <1>2, <2>1 DEF TabTrue, Same, SameTab
<1>. QED BY <1>3, <1>4, <1>5

\* A change of one name: the others are as they were.
LEMMA TruthOfOthers ==
    ASSUME Typed, CountedTruth, NEW n \in Names, Changes(n), UNCHANGED <<ui, blurred>>,
           \A m \in Names \ {n} : Same(m)
    PROVE  CountedTruth'
<1>1. unseen' = unseen \cup {n} /\ report' = report /\ tab' = tab /\ status' = status
      /\ blurred' = blurred
  BY DEF Changes, ui
<1>. QED BY <1>1, TruthKept DEF SameTab

LEMMA TruthStep ==
    ASSUME Typed, OpsAreOps, TasksTell, CountedTruth, OverviewNext
    PROVE  CountedTruth'
<1>1. ASSUME UNCHANGED <<world, report, status, unseen, blurred>>, \A n \in Names : SameTab(n)
      PROVE  CountedTruth'
  BY <1>1, TruthKept DEF Same, world
<1>2. tab' = tab => \A n \in Names : SameTab(n)
  BY DEF SameTab
<1>3. ASSUME NEW n \in Names,
             \/ tab' = Opened(n)
             \/ tab' = [tab EXCEPT ![n] = None]
             \/ tab[n] # None /\ \E w \in Workers : tab' = [tab EXCEPT ![n].workers = w]
      PROVE  \A m \in Names : SameTab(m)
  <2>1. tab \in [Names -> OrNone(TabSet)]
    BY DEF Typed
  <2>2. CASE tab' = Opened(n)
    BY <2>1, <2>2, OpenedFacts DEF SameTab
  <2>3. CASE tab' = [tab EXCEPT ![n] = None]
    BY <2>1, <2>3 DEF SameTab
  <2>4. CASE tab[n] # None /\ \E w \in Workers : tab' = [tab EXCEPT ![n].workers = w]
    <3>1. PICK w \in Workers : tab' = [tab EXCEPT ![n].workers = w]
      BY <2>4
    <3>2. tab[n] \in TabSet
      BY <2>1, <2>4 DEF OrNone
    <3>3. tab'[n].record = tab[n].record /\ \A m \in Names \ {n} : tab'[m] = tab[m]
      BY <2>1, <3>1, <3>2 DEF TabSet
    <3>. QED BY <2>4, <3>3 DEF SameTab
  <2>. QED BY <1>3, <2>2, <2>3, <2>4
<1>4. ASSUME NEW t \in Tasks, DoReconcile(t)
      PROVE  CountedTruth'
  <2>1. CASE List(t) \/ ListFails(t) \/ StoredClusterNames(t) \/ Reconcile(t) \/ ReportError(t)
             \/ ReportLost(t)
    BY <1>1, <1>2, <2>1 DEF List, ListFails, StoredClusterNames, Reconcile, ReportError,
       ReportLost, ui
  <2>2. CASE Probe(t)
    <3>1. PICK n \in task[t].left :
            \/ /\ status' = [status EXCEPT ![n] = IF live[n] = None THEN 0 ELSE live[n] + 1]
               /\ blurred' = blurred \ {n} /\ UNCHANGED troubles
            \/ Trouble /\ status' = [status EXCEPT ![n] = Absent] /\ blurred' = blurred \cup {n}
            \/ Trouble /\ status' = status /\ blurred' = blurred \cup {n}
      BY <2>2 DEF Probe
    <3>2. n \in Names /\ status \in [Names -> 0..(MaxWorkers + 1) \cup {None, Absent}]
      BY DEF Typed, TaskSet
    <3>3. \A m \in Names \ {n} : status'[m] = status[m] /\ (m \notin blurred' => m \notin blurred)
      BY <3>1, <3>2
    <3>4. n \in blurred' \/ (live[n] # None => status'[n] = live[n] + 1)
      BY <3>1, <3>2
    <3>5. report' = report /\ tab' = tab /\ unseen' = unseen /\ \A m \in Names : Same(m)
      BY <2>2 DEF Probe, Same, world
    <3>. QED BY <1>2, <3>3, <3>4, <3>5, TruthKept
  <2>3. CASE ReportDone(t)
    <3>. DEFINE found == task[t].found
    <3>1. /\ task[t].at = "report" /\ found # None /\ report' = found
          /\ unseen' = task[t].changed /\ UNCHANGED <<world, status, blurred>>
          /\ tab' = [n \in Names |->
                       IF tab[n] # None /\ found[n] \in {Managed(w) : w \in Workers}
                         THEN [tab[n] EXCEPT !.record = found[n].workers] ELSE tab[n]]
      BY <2>3 DEF ReportDone
    <3>2. ASSUME NEW n \in Names \ task[t].changed
          PROVE  CardTrue(n)' /\ Counted(n)' /\ TabTrue(n)'
      <4>1. FoundOut(t, n) /\ Probed(t, n)
        BY <3>1 DEF TasksTell, Probed
      <4>2. found[n] = Truth(n) /\ Truth(n)' = Truth(n)
        BY <3>1, <4>1 DEF FoundOut, Truth, world
      <4>3. CardTrue(n)'
        BY <3>1, <4>2 DEF CardTrue
      <4>4. Counted(n)'
        BY <3>1, <4>1 DEF FoundOut, Counted, world
      <4>5. ASSUME tab'[n] # None, live[n] # None, record[n] # None
            PROVE  tab'[n].record = record[n]
        <5>1. record[n] \in Workers /\ found[n] = Managed(record[n])
          BY <4>2, <4>5, TruthFacts DEF OrNone
        <5>2. found[n] \in {Managed(w) : w \in Workers}
          BY <5>1
        <5>3. tab[n] # None /\ tab'[n] = [tab[n] EXCEPT !.record = record[n]]
          <6>1. found[n].workers = record[n]
            BY <5>1, EntryFacts
          <6>. QED BY <3>1, <4>5, <5>2, <6>1
        <5>4. tab[n] \in TabSet
          BY <5>3 DEF Typed, OrNone
        <5>. QED BY <5>3, <5>4 DEF TabSet
      <4>6. TabTrue(n)'
        BY <3>1, <4>5 DEF TabTrue, world
      <4>. QED BY <4>3, <4>4, <4>6
    <3>. QED BY <3>1, <3>2 DEF CountedTruth
  <2>. QED BY <1>4, <2>1, <2>2, <2>3 DEF DoReconcile
<1>5. ASSUME NEW n \in Names, OpStep(n)
      PROVE  CountedTruth'
  <2>1. MoreSteps(n) /\ Effect(n) /\ Changes(n) /\ UNCHANGED <<ui, blurred>>
    BY <1>5 DEF OpStep
  <2>. QED BY <2>1, EffectFacts, TruthOfOthers DEF Same
<1>6. ASSUME NEW n \in Names, OpFails(n)
      PROVE  CountedTruth'
  <2>1. MoreSteps(n) /\ UNCHANGED <<ui, blurred>>
    BY <1>6 DEF OpFails
  <2>2. CASE UNCHANGED <<world, unseen, task>>
    BY <1>1, <1>2, <2>1, <2>2 DEF ui
  <2>3. CASE Effect(n) /\ Changes(n)
    BY <2>1, <2>3, EffectFacts, TruthOfOthers DEF Same
  <2>. QED BY <1>6, <2>2, <2>3 DEF OpFails
<1>7. ASSUME NEW n \in Names, Outside(n)
      PROVE  CountedTruth'
  <2>1. \A m \in Names \ {n} : Same(m)
    BY <1>7 DEF Outside, Typed, Same
  <2>. QED BY <1>7, <2>1, TruthOfOthers DEF Outside
<1>8. ASSUME NEW n \in Names, OpDone(n)
      PROVE  CountedTruth'
  BY <1>1, <1>3, <1>8 DEF OpDone
<1>9. ASSUME NEW n \in Names, Click(n)
      PROVE  CountedTruth'
  <2>1. /\ UNCHANGED <<world, report, status, unseen, blurred>>
        /\ \/ tab' = tab
           \/ tab' = Opened(n)
           \/ tab' = [tab EXCEPT ![n] = None]
           \/ tab[n] # None /\ \E w \in Workers : tab' = [tab EXCEPT ![n].workers = w]
    BY <1>9, ClickFacts
  <2>. QED BY <1>1, <1>2, <1>3, <2>1
<1>10. CASE Refresh
  BY <1>1, <1>2, <1>10 DEF Refresh, ui
<1>. QED BY <1>4, <1>5, <1>6, <1>7, <1>8, <1>9, <1>10 DEF OverviewNext

-----------------------------------------------------------------------------
(* The session.                                                            *)

OverviewInv == BaseInv /\ TasksTell /\ CountedTruth
Started == up \in BOOLEAN /\ restarts \in 0..MaxRestarts
SessionInv == OverviewInv /\ SettingsTypeOK /\ LastChoice /\ Started /\ DownMeansIdle

LEMMA OverviewStep == OverviewInv /\ OverviewNext => OverviewInv'
  BY BaseStep, TellStep, TruthStep DEF OverviewInv, BaseInv

LEMMA OverviewKept == OverviewInv /\ UNCHANGED overview => OverviewInv'
<1>. SUFFICES ASSUME OverviewInv, UNCHANGED overview PROVE OverviewInv'
  OBVIOUS
<1>1. UNCHANGED <<live, record, op, task, report, status, error, loading, tab, ops, issued,
                  troubles, unseen, excused, blurred>>
  BY DEF overview, world, ui
<1>2. Typed'
  BY <1>1 DEF OverviewInv, BaseInv, Typed
<1>3. OpsAreOps' /\ Room'
  BY <1>1 DEF OverviewInv, BaseInv, OpsAreOps, Room, Busy
<1>4. TasksTell'
  BY <1>1 DEF OverviewInv, TasksTell, FoundOut, Probed, Truth
<1>5. CountedTruth'
  BY <1>1 DEF OverviewInv, CountedTruth, CardTrue, Counted, TabTrue, Truth
<1>. QED BY <1>2, <1>3, <1>4, <1>5 DEF OverviewInv, BaseInv

LEMMA SettingsKept ==
    SettingsTypeOK /\ LastChoice /\ UNCHANGED settings => SettingsTypeOK' /\ LastChoice'
<1>. SUFFICES ASSUME SettingsTypeOK, LastChoice, UNCHANGED <<shown, file, save, picks, unsaved>>
              PROVE  SettingsTypeOK' /\ LastChoice'
  BY DEF settings
<1>. QED BY DEF SettingsTypeOK, LastChoice, Numbered, LastIsShown, Kept, NoneDropped, UnderWay,
            ThemeOf

LEMMA SessionStart == SessionInit => SessionInv
<1>. SUFFICES ASSUME SessionInit PROVE SessionInv
  OBVIOUS
<1>. USE OverviewAssumption, ThemesAssumption, SessionAssumption DEF SessionInit
<1>1. NoOp \in OpSet /\ NoTask \in TaskSet /\ Issued \in TaskSet /\ Issued.at = "list"
      /\ NoTask.at = "none" /\ MaxWorkers \in Workers
  BY DEF NoOp, OpSet, NoTask, Issued, TaskSet, Stages, OrNone, Workers
<1>2. Typed
  <2>1. live \in [Names -> OrNone(Workers)] /\ record \in [Names -> OrNone(Workers)]
    BY <1>1 DEF OverviewInit, OrNone
  <2>2. op \in [Names -> OpSet] /\ task \in [Tasks -> TaskSet]
    BY <1>1 DEF OverviewInit
  <2>3. /\ status \in [Names -> 0..(MaxWorkers + 1) \cup {None, Absent}]
        /\ tab \in [Names -> OrNone(TabSet)]
    BY DEF OverviewInit, OrNone
  <2>4. ops \in 0..MaxOps /\ issued \in 0..MaxReconciles /\ troubles \in 0..MaxTroubles
    BY DEF OverviewInit
  <2>. QED BY <2>1, <2>2, <2>3, <2>4 DEF OverviewInit, Typed
<1>3. OpsAreOps
  BY DEF OverviewInit, OpsAreOps
<1>4. Room
  <2>1. Busy = {}
    BY DEF OverviewInit, Busy
  <2>. QED BY <2>1, FS_EmptySet DEF OverviewInit, Room
<1>5. \A t \in Tasks : task[t].at \in {"none", "list"}
  BY <1>1 DEF OverviewInit
<1>6. TasksTell
  BY <1>5 DEF TasksTell, FoundOut, Probed
<1>7. CountedTruth
  BY DEF OverviewInit, CountedTruth
<1>8. SettingsTypeOK
  <2>1. file \in Themes \cup {Unset, Garbage} /\ shown \in Themes
    BY DEF SettingsInit, ThemeOf
  <2>2. NoSave \in [at : {"none", "load", "save", "done"}, id : Themes]
    BY DEF NoSave
  <2>3. picks \in 0..MaxPicks
    BY DEF SettingsInit
  <2>. QED BY <2>1, <2>2, <2>3 DEF SettingsInit, SettingsTypeOK
<1>9. \A k \in Picks : save[k].at = "none"
  BY DEF SettingsInit, NoSave
<1>10. LastChoice
  BY <1>9 DEF SettingsInit, LastChoice, Numbered, LastIsShown, Kept, NoneDropped, UnderWay
<1>11. Started /\ up
  BY DEF Started
<1>12. DownMeansIdle
  BY <1>11 DEF DownMeansIdle
<1>. QED BY <1>2, <1>3, <1>4, <1>6, <1>7, <1>8, <1>10, <1>11, <1>12 DEF SessionInv, OverviewInv,
            BaseInv

LEMMA QuitStep == SessionInv /\ Quit => SessionInv'
<1>. SUFFICES ASSUME SessionInv, Quit PROVE SessionInv'
  OBVIOUS
<1>. USE DEF SessionInv, OverviewInv, BaseInv
<1>1. SettingsTypeOK' /\ LastChoice' /\ Settled'
  BY AbortStep DEF Quit
<1>2. \A t \in Tasks : task'[t] \in TaskSet /\ task'[t].at \in {"none", "done"}
  BY DEF Quit, NoTask, TaskSet, Stages, OrNone
<1>3. op' = [n \in Names |-> NoOp] /\ NoOp \in OpSet
  BY OverviewAssumption DEF Quit, NoOp, OpSet, Workers
<1>4. task' \in [Tasks -> TaskSet] /\ op' \in [Names -> OpSet]
  BY <1>2, <1>3 DEF Quit
<1>5. Typed'
  BY <1>4 DEF Quit, Typed, world, ui
<1>6. OpsAreOps' /\ Busy' = {}
  BY <1>3 DEF OpsAreOps, Busy
<1>7. Room'
  BY <1>5, <1>6, FS_EmptySet, OverviewAssumption DEF Room, Typed
<1>8. TasksTell'
  BY <1>2, NothingFound DEF TasksTell
<1>9. CountedTruth'
  BY TruthKept DEF Quit, world, ui, Same, SameTab
<1>10. Started' /\ DownMeansIdle'
  BY <1>1, <1>2, <1>3 DEF Quit, Started, DownMeansIdle, Idle
<1>. QED BY <1>1, <1>5, <1>6, <1>7, <1>8, <1>9, <1>10

LEMMA StartStep == SessionInv /\ StartProgram => SessionInv'
<1>. SUFFICES ASSUME SessionInv, StartProgram PROVE SessionInv'
  OBVIOUS
<1>. USE DEF SessionInv, OverviewInv, BaseInv
<1>1. ~up /\ up' = TRUE /\ Settled /\ \A t \in Tasks : Idle(t)
  BY DEF StartProgram, DownMeansIdle
<1>2. SettingsTypeOK' /\ LastChoice'
  BY <1>1, ThemeLoaded DEF StartProgram
<1>3. task' \in [Tasks -> TaskSet] /\ \A t \in Tasks : task'[t] = task[t] \/ task'[t].at = "list"
  BY SpawnedFacts DEF StartProgram, Typed
<1>4. issued' = issued + 1 /\ op' = op /\ CanIssue /\ Cardinality(Busy) \in Nat
  BY BusyCount DEF StartProgram
<1>5. issued' \in 0..MaxReconciles /\ Room'
  BY <1>4, OverviewAssumption DEF Typed, Room, CanIssue, Busy
<1>6. Typed'
  BY <1>3, <1>5 DEF StartProgram, FreshUI, Typed, world, OrNone
<1>7. OpsAreOps'
  BY <1>4 DEF OpsAreOps
<1>8. TasksTell'
  BY <1>1, <1>3, NothingFound DEF TasksTell, Idle
<1>9. CountedTruth'
  BY DEF StartProgram, FreshUI, CountedTruth
<1>10. Started' /\ DownMeansIdle'
  BY <1>1, SessionAssumption DEF StartProgram, Started, DownMeansIdle
<1>. QED BY <1>2, <1>5, <1>6, <1>7, <1>8, <1>9, <1>10

LEMMA SessionStep == SessionInv /\ [SessionNext]_session => SessionInv'
<1>. SUFFICES ASSUME SessionInv, [SessionNext]_session PROVE SessionInv'
  OBVIOUS
<1>1. CASE Running(OverviewNext /\ UNCHANGED settings)
  <2>1. up /\ OverviewNext /\ UNCHANGED settings /\ UNCHANGED <<up, restarts>>
    BY <1>1 DEF Running
  <2>2. OverviewInv' /\ SettingsTypeOK' /\ LastChoice'
    BY <2>1, OverviewStep, SettingsKept DEF SessionInv
  <2>3. Started' /\ DownMeansIdle'
    BY <2>1 DEF SessionInv, Started, DownMeansIdle
  <2>. QED BY <2>2, <2>3 DEF SessionInv
<1>2. CASE Running(SettingsNext /\ UNCHANGED overview)
  <2>1. up /\ SettingsNext /\ UNCHANGED overview /\ UNCHANGED <<up, restarts>>
    BY <1>2 DEF Running
  <2>2. OverviewInv' /\ SettingsTypeOK' /\ LastChoice'
    BY <2>1, OverviewKept, SettingsStep DEF SessionInv
  <2>3. Started' /\ DownMeansIdle'
    BY <2>1 DEF SessionInv, Started, DownMeansIdle
  <2>. QED BY <2>2, <2>3 DEF SessionInv
<1>3. CASE Quit
  BY <1>3, QuitStep
<1>4. CASE StartProgram
  BY <1>4, StartStep
<1>5. CASE UNCHANGED session
  <2>1. UNCHANGED overview /\ UNCHANGED settings /\ UNCHANGED <<up, restarts>>
    BY <1>5 DEF session
  <2>2. OverviewInv' /\ SettingsTypeOK' /\ LastChoice'
    BY <2>1, OverviewKept, SettingsKept DEF SessionInv
  <2>3. Started' /\ DownMeansIdle'
    BY <2>1 DEF SessionInv, Started, DownMeansIdle, Idle, Settled, overview, settings
  <2>. QED BY <2>2, <2>3 DEF SessionInv
<1>. QED BY <1>1, <1>2, <1>3, <1>4, <1>5 DEF SessionNext

LEMMA SessionAlways == SessionSpec => []SessionInv
  BY SessionStart, SessionStep, PTL DEF SessionSpec

\* The overview, the tabs, the tasks and the theme have their types, from a
\* start of the program to its end and through the next start.
THEOREM SessionTypeCorrect == SessionSpec => []SessionTypeOK
<1>1. SessionInv => SessionTypeOK
  BY TypedIsTypeOK DEF SessionInv, OverviewInv, BaseInv, Started, SessionTypeOK
<1>. QED BY <1>1, SessionAlways, PTL

\* What has not changed since the listing behind the report on the screen is
\* classified, counted and opened as it is, however many reconciles overlap
\* with the operations, in whatever order their reports come.
THEOREM TheOverviewIsTruthful == SessionSpec => []OverviewIsTruthful
<1>1. SessionInv => OverviewIsTruthful
  BY TruthFollows DEF SessionInv, OverviewInv, BaseInv
<1>. QED BY <1>1, SessionAlways, PTL

\* Once all choices are saved, the theme on the screen is the one that the
\* next start loads, however many tasks saved at once and however often the
\* program was ended between.
THEOREM TheThemeIsKept == SessionSpec => []ThemeIsKept
<1>1. SessionInv => ThemeIsKept
  BY DEF SessionInv, LastChoice, Kept, UnderWay, ThemeIsKept
<1>. QED BY <1>1, SessionAlways, PTL

-----------------------------------------------------------------------------
(* A call of a subprocess.                                                 *)

\* What a caller at this place has decided.
OutcomeByPlace ==
    /\ caller \in {"streaming", "polling", "checking"} => outcome = "none"
    /\ caller \in {"grace", "killed", "marking"} => outcome \in {"cancelled", "timeout"}
    /\ caller \in {"draining", "returned"} => outcome # "none"

\* Past these places nobody has to look after the leader any more.
LeaderDead ==
    reaped \/ caller \in {"checking", "marking", "draining", "returned", "dropped"}
      => leader # "running"

\* Who signals has a reason: the token, the deadline, or the abort of the task.
SignalsHaveAReason ==
    /\ watcher # "waiting" \/ outcome = "cancelled" => token
    /\ signalled => token \/ outcome = "timeout" \/ caller = "dropped"

\* With an exit code the flag is up and the watcher is not past a check of it:
\* the token had not fired when the caller looked, so the watcher still waited.
WatcherSpares ==
    outcome \in {"ok", "err"} /\ caller # "dropped" =>
      reaped /\ ~signalled /\ watcher \in {"waiting", "check", "done"}

CallInv == TypeOK /\ OutcomeByPlace /\ LeaderDead /\ SignalsHaveAReason /\ WatcherSpares


LEMMA CallStart == Init => CallInv
<1>. SUFFICES ASSUME Init PROVE CallInv
  OBVIOUS
<1>1. TypeOK
  <2>1. caller \in {"streaming", "polling"}
    BY DEF Init
  <2>2. outLeft \in 0..MaxOut /\ errLeft \in 0..MaxErr /\ out \in 0..OutCap /\ err \in 0..ErrCap
    BY ExecAssumption DEF Init
  <2>. QED BY <2>1, <2>2 DEF Init, TypeOK, Processes, Waiting, Over
<1>2. OutcomeByPlace /\ LeaderDead /\ SignalsHaveAReason /\ WatcherSpares
  BY DEF Init, OutcomeByPlace, LeaderDead, SignalsHaveAReason, WatcherSpares
<1>. QED BY <1>1, <1>2 DEF CallInv

\* The processes write and end: neither the caller nor the watcher moves.
LEMMA ProcessesInv ==
    ASSUME CallInv, Write \/ Ending
    PROVE  CallInv'
<1>. USE DEF CallInv
<1>1. TypeOK'
  <2>1. CASE Write
    BY <2>1, ExecAssumption DEF TypeOK, Write, process, nature
  <2>2. CASE Ending
    BY <2>2 DEF TypeOK, Ending, Exits, LeaderObeys, MemberExits, MemberObeys,
                LeaderEnds, MemberEnds, nature, pipes
  <2>. QED BY <2>1, <2>2
<1>2. /\ UNCHANGED <<caller, outcome, token, reaped, watcher, signalled>>
      /\ leader # "running" => leader' # "running"
  BY DEF Write, Ending, Exits, LeaderObeys, MemberExits, MemberObeys,
         LeaderEnds, MemberEnds, process, nature
<1>3. OutcomeByPlace' /\ LeaderDead' /\ SignalsHaveAReason' /\ WatcherSpares'
  BY <1>2 DEF OutcomeByPlace, LeaderDead, SignalsHaveAReason, WatcherSpares
<1>. QED BY <1>1, <1>3

\* The caller reads.
LEMMA ReadsInv ==
    ASSUME CallInv, ReadOut \/ ReadErr
    PROVE  CallInv'
<1>. USE DEF CallInv
<1>1. TypeOK'
  BY ExecAssumption DEF TypeOK, ReadOut, ReadErr, process, nature
<1>2. UNCHANGED <<caller, outcome, token, reaped, watcher, signalled, leader>>
  BY DEF ReadOut, ReadErr, process
<1>3. OutcomeByPlace' /\ LeaderDead' /\ SignalsHaveAReason' /\ WatcherSpares'
  BY <1>2 DEF OutcomeByPlace, LeaderDead, SignalsHaveAReason, WatcherSpares
<1>. QED BY <1>1, <1>3

\* Signals: what Term and Kill do to the processes.
LEMMA TermKeepsTypes ==
    ASSUME TypeOK, Term
    PROVE  /\ termed' \subseteq Processes /\ signalled' /\ UNCHANGED <<leader, member, exit>>
BY DEF TypeOK, Term

LEMMA KillEndsThem ==
    ASSUME TypeOK, Kill
    PROVE  /\ leader' \in {"zombie", "reaped"} /\ member' = "gone"
           /\ exit' \in {"ok", "err"} /\ signalled' /\ termed' = termed
BY DEF TypeOK, Kill

\* The caller polls: the end of stdout, try_wait, the look at the token.
LEMMA PollInv ==
    ASSUME CallInv, EndOfStdout \/ TryWait \/ CheckToken
    PROVE  CallInv'
<1>. USE DEF CallInv
<1>1. CASE EndOfStdout
  BY <1>1 DEF TypeOK, OutcomeByPlace, LeaderDead, SignalsHaveAReason, WatcherSpares,
              EndOfStdout, process, nature, pipes, Waiting, Over
<1>2. CASE TryWait
  BY <1>2 DEF TypeOK, OutcomeByPlace, LeaderDead, SignalsHaveAReason, WatcherSpares,
              TryWait, nature, pipes, Waiting, Over
<1>3. CASE CheckToken
  <2>1. leader # "running" /\ exit \in {"ok", "err"} /\ outcome = "none"
    BY <1>3 DEF TypeOK, LeaderDead, OutcomeByPlace, CheckToken
  <2>2. ~token => ~signalled /\ watcher = "waiting"
    BY <1>3, <2>1 DEF SignalsHaveAReason, CheckToken
  <2>3. TypeOK'
    BY <1>3, <2>1 DEF TypeOK, CheckToken, process, nature, pipes, Waiting, Over
  <2>4. OutcomeByPlace' /\ LeaderDead' /\ SignalsHaveAReason' /\ WatcherSpares'
    BY <1>3, <2>1, <2>2 DEF TypeOK, OutcomeByPlace, LeaderDead, SignalsHaveAReason,
                            WatcherSpares, CheckToken, process
  <2>. QED BY <2>3, <2>4
<1>. QED BY <1>1, <1>2, <1>3

\* The caller's ladder: TERM, grace, KILL, the wait for the leader, the mark.
LEMMA LadderInv ==
    ASSUME CallInv, Deadline \/ SeesToken \/ GraceOver \/ GraceWait \/ Mark \/ Return
    PROVE  CallInv'
<1>. USE DEF CallInv
<1>1. CASE Deadline \/ SeesToken
  <2>1. /\ termed' \subseteq Processes /\ signalled' /\ UNCHANGED <<leader, member, exit>>
    BY <1>1, TermKeepsTypes DEF Deadline, SeesToken
  <2>2. TypeOK'
    BY <1>1, <2>1 DEF TypeOK, Deadline, SeesToken, nature, pipes, Waiting, Over
  <2>3. OutcomeByPlace' /\ LeaderDead' /\ SignalsHaveAReason' /\ WatcherSpares'
    BY <1>1, <2>1 DEF OutcomeByPlace, LeaderDead, SignalsHaveAReason, WatcherSpares,
                      Deadline, SeesToken
  <2>. QED BY <2>2, <2>3
<1>2. CASE GraceOver
  <2>1. /\ leader' \in {"zombie", "reaped"} /\ member' = "gone"
        /\ exit' \in {"ok", "err"} /\ signalled' /\ termed' = termed
    BY <1>2, KillEndsThem DEF GraceOver
  <2>2. TypeOK'
    BY <1>2, <2>1 DEF TypeOK, GraceOver, nature, pipes, Waiting, Over
  <2>3. outcome \in {"cancelled", "timeout"}
    BY <1>2 DEF OutcomeByPlace, GraceOver
  <2>4. outcome = "timeout" \/ token
    BY <2>3 DEF SignalsHaveAReason
  <2>5. OutcomeByPlace' /\ LeaderDead' /\ SignalsHaveAReason' /\ WatcherSpares'
    BY <1>2, <2>1, <2>3, <2>4 DEF OutcomeByPlace, LeaderDead, SignalsHaveAReason,
                            WatcherSpares, GraceOver
  <2>. QED BY <2>2, <2>5
<1>3. CASE GraceWait \/ Mark \/ Return
  <2>1. TypeOK'
    <3>1. CASE GraceWait
      BY <3>1 DEF TypeOK, GraceWait, nature, pipes, Waiting, Over
    <3>2. CASE Mark
      BY <3>2 DEF TypeOK, OutcomeByPlace, Mark, process, nature, pipes, Waiting, Over
    <3>3. CASE Return
      BY <3>3 DEF TypeOK, Return, process, nature, pipes, Waiting, Over
    <3>. QED BY <1>3, <3>1, <3>2, <3>3
  <2>2. OutcomeByPlace' /\ LeaderDead' /\ SignalsHaveAReason' /\ WatcherSpares'
    BY <1>3 DEF TypeOK, OutcomeByPlace, LeaderDead, SignalsHaveAReason, WatcherSpares,
                GraceWait, Mark, Return, process
  <2>. QED BY <2>1, <2>2
<1>. QED BY <1>1, <1>2, <1>3

\* The abort of the task, and the token.
LEMMA DropInv ==
    ASSUME CallInv, Drop
    PROVE  CallInv'
<1>. USE DEF CallInv
<1>1. CASE reaped
  BY <1>1 DEF TypeOK, OutcomeByPlace, LeaderDead, SignalsHaveAReason, WatcherSpares,
              Drop, process, nature, pipes, Over
<1>2. CASE ~reaped
  <2>1. /\ leader' \in {"zombie", "reaped"} /\ member' = "gone"
        /\ exit' \in {"ok", "err"} /\ signalled' /\ termed' = termed
    BY <1>2, KillEndsThem DEF Drop
  <2>2. TypeOK'
    BY <2>1 DEF TypeOK, Drop, nature, pipes, Over
  <2>3. OutcomeByPlace' /\ LeaderDead' /\ SignalsHaveAReason' /\ WatcherSpares'
    BY <2>1 DEF OutcomeByPlace, LeaderDead, SignalsHaveAReason, WatcherSpares, Drop
  <2>. QED BY <2>2, <2>3
<1>. QED BY <1>1, <1>2 DEF TypeOK

LEMMA CancelInv ==
    ASSUME CallInv, Cancel
    PROVE  CallInv'
BY DEF CallInv, TypeOK, OutcomeByPlace, LeaderDead, SignalsHaveAReason, WatcherSpares,
       Cancel, process, nature, pipes

\* The watcher: it signals only with the token, and never once an exit code
\* is decided.
LEMMA WatcherInv ==
    ASSUME CallInv, Watcher
    PROVE  CallInv'
<1>. USE DEF CallInv
<1>1. CASE WatcherWakes \/ WatcherChecks \/ WatcherSleeps
  <2>1. TypeOK'
    BY <1>1 DEF TypeOK, WatcherWakes, WatcherChecks, WatcherSleeps, Watch,
                process, nature, pipes
  <2>2. OutcomeByPlace' /\ LeaderDead' /\ SignalsHaveAReason' /\ WatcherSpares'
    BY <1>1 DEF OutcomeByPlace, LeaderDead, SignalsHaveAReason, WatcherSpares,
                WatcherWakes, WatcherChecks, WatcherSleeps, Watch, process
  <2>. QED BY <2>1, <2>2
<1>2. CASE WatcherTerms
  <2>1. /\ termed' \subseteq Processes /\ signalled' /\ UNCHANGED <<leader, member, exit>>
    BY <1>2, TermKeepsTypes DEF WatcherTerms
  <2>2. TypeOK'
    BY <1>2, <2>1 DEF TypeOK, WatcherTerms, nature, pipes
  <2>3. OutcomeByPlace' /\ LeaderDead' /\ SignalsHaveAReason' /\ WatcherSpares'
    BY <1>2, <2>1 DEF OutcomeByPlace, LeaderDead, SignalsHaveAReason, WatcherSpares,
                      WatcherTerms
  <2>. QED BY <2>2, <2>3
<1>3. CASE WatcherKills
  <2>1. /\ leader' \in {"zombie", "reaped"} /\ member' = "gone"
        /\ exit' \in {"ok", "err"} /\ signalled' /\ termed' = termed
    BY <1>3, KillEndsThem DEF WatcherKills
  <2>2. TypeOK'
    BY <1>3, <2>1 DEF TypeOK, WatcherKills, nature, pipes
  <2>3. OutcomeByPlace' /\ LeaderDead' /\ SignalsHaveAReason' /\ WatcherSpares'
    BY <1>3, <2>1 DEF OutcomeByPlace, LeaderDead, SignalsHaveAReason, WatcherSpares,
                      WatcherKills
  <2>. QED BY <2>2, <2>3
<1>. QED BY <1>1, <1>2, <1>3 DEF Watcher

LEMMA CallStep == CallInv /\ [Next]_vars => CallInv'
<1>. SUFFICES ASSUME CallInv, [Next]_vars PROVE CallInv'
  OBVIOUS
<1>1. CASE Write \/ Ending
  BY <1>1, ProcessesInv
<1>2. CASE Caller
  BY <1>2, ReadsInv, PollInv, LadderInv DEF Caller
<1>3. CASE Drop
  BY <1>3, DropInv
<1>4. CASE Cancel
  BY <1>4, CancelInv
<1>5. CASE Watcher
  BY <1>5, WatcherInv
<1>6. CASE UNCHANGED vars
  BY <1>6 DEF CallInv, TypeOK, OutcomeByPlace, LeaderDead, SignalsHaveAReason,
              WatcherSpares, vars
<1>. QED BY <1>1, <1>2, <1>3, <1>4, <1>5, <1>6 DEF Next

\* Every variable of a call keeps its type; the leader has an exit status as
\* soon as it does not run, and a task that drains or has returned an outcome.
THEOREM CallTypeCorrect == Spec => []TypeOK
<1>1. CallInv => TypeOK
  BY DEF CallInv
<1>. QED BY <1>1, CallStart, CallStep, PTL DEF Spec

\* A call that returns an exit code was never interfered with: in whatever
\* order the deadline, the token, the watcher's ladder, the caller's own and
\* the processes move, await_outcome looks at the token late enough and marks
\* the leader reaped early enough.
THEOREM ExitCodesAreOwn == Spec => []ExitCodeMeansUndisturbed
<1>1. CallInv => ExitCodeMeansUndisturbed
  BY DEF CallInv, WatcherSpares, ExitCodeMeansUndisturbed
<1>. QED BY <1>1, CallStart, CallStep, PTL DEF Spec

\* A task that is over, by its return or by its abort at any step of the
\* ladder, left no running leader behind: Drop kills the group unless the
\* flag says the leader was reaped, and the flag is true when it says so.
THEOREM LeadersAreNotLeftBehind == Spec => []LeaderNeverOutlivesTheTask
<1>1. CallInv => LeaderNeverOutlivesTheTask
  BY DEF CallInv, LeaderDead, LeaderNeverOutlivesTheTask, Over
<1>. QED BY <1>1, CallStart, CallStep, PTL DEF Spec
=============================================================================
