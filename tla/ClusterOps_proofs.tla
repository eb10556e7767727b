--------------------------- MODULE ClusterOps_proofs ---------------------------
(***************************************************************************)
(* Proofs about ClusterOps and the document that its kubeconfig is         *)
(* (KubeFile), for every set of clusters and every bound on commands,      *)
(* restarts and outside changes.                                           *)
(***************************************************************************)
EXTENDS KubeFile, TLAPS

LEMMA UpsertType ==
    ASSUME NEW store \in Kubeconfigs, NEW c \in Clusters, NEW b \in Builds
    PROVE  Upsert(store, c, b) \in Kubeconfigs
BY DEF Upsert, Kubeconfigs

LEMMA WithoutType ==
    ASSUME NEW store \in Kubeconfigs, NEW c \in Clusters
    PROVE  Without(store, c) \in Kubeconfigs
<1>1. [store.entry EXCEPT ![c] = None] \in [Clusters -> Builds]
  BY OpsAssumption DEF Kubeconfigs, None, Builds
<1>2. (IF store.current = c THEN NoCluster ELSE store.current)
          \in Clusters \cup {NoCluster}
  BY DEF Kubeconfigs
<1>. QED BY <1>1, <1>2 DEF Without, Kubeconfigs

\* A task that only moves on stays a well-formed task.
LEMMA ToType ==
    ASSUME op \in [OpIds -> Ops], NEW i \in OpIds,
           NEW step \in Active \cup Ended, To(i, step)
    PROVE  op' \in [OpIds -> Ops]
BY DEF To, Ops

LEMMA InitType == Init => TypeOK
<1>. SUFFICES ASSUME Init PROVE TypeOK
  OBVIOUS
<1>. USE OpsAssumption DEF Init, None, Foreign, Builds
<1>1. op \in [OpIds -> Ops]
  BY DEF OpIds
<1>2. kube \in Kubeconfigs
  BY DEF Kubeconfigs
<1>3. slots \in [Slotted \X Clusters -> 0..MaxOps] /\ live \in [Clusters -> Builds]
  OBVIOUS
<1>. QED BY <1>1, <1>2, <1>3 DEF TypeOK

\* What every step of a task leaves alone.
LEMMA StepSession ==
    ASSUME NEW i, Step(i)
    PROVE  /\ issued' = issued /\ cancelled' = cancelled /\ slots' = slots
           /\ up' = up /\ restarts' = restarts /\ outside' = outside
BY DEF Step, Precheck, WriteConfig, KindCreate, KindCreated, KindCreateFails,
       Export, Load, Save, Deploy, Persist, KindDelete, KindDeleted,
       KindDeleteFails, VerifyGone, Unload, Unsave, Unrecord, Fail, session, world

LEMMA StepType ==
    ASSUME TypeOK, NEW i \in OpIds, Step(i)
    PROVE  TypeOK'
<1>1. op[i] \in Ops /\ op[i].target \in Clusters /\ op[i].spec \in 0..MaxOps
  BY DEF TypeOK, Ops
<1>2. i \in 0..MaxOps /\ i \in Builds /\ None \in Builds /\ None \in 0..MaxOps
  BY OpsAssumption DEF TypeOK, OpIds, Builds, None
<1>3. /\ OpIds' = OpIds
      /\ issued' \in 0..MaxOps /\ cancelled' \subseteq 1..MaxOps
      /\ slots' \in [Slotted \X Clusters -> 0..MaxOps]
      /\ up' \in BOOLEAN /\ restarts' \in 0..MaxRestarts /\ outside' \in 0..MaxOutside
  BY StepSession DEF TypeOK, OpIds
<1>4. CASE Precheck(i)
  BY <1>3, <1>4, ToType DEF Precheck, TypeOK, world, Active, Ended
<1>5. CASE WriteConfig(i)
  BY <1>1, <1>3, <1>5, ToType DEF WriteConfig, TypeOK, Active, Ended, Streamed
<1>6. CASE KindCreate(i)
  <2>1. op' \in [OpIds -> Ops]
    BY <1>1, <1>6 DEF KindCreate, TypeOK, Ops, Active, Streamed
  <2>. QED BY <2>1, <1>1, <1>2, <1>3, <1>6 DEF KindCreate, TypeOK
<1>7. CASE KindCreated(i)
  BY <1>1, <1>2, <1>3, <1>7, ToType, UpsertType DEF KindCreated, TypeOK, Active
<1>8. CASE KindCreateFails(i)
  BY <1>1, <1>2, <1>3, <1>8, ToType DEF KindCreateFails, TypeOK, Ended
<1>9. CASE Export(i)
  <2>1. op' \in [OpIds -> Ops]
    BY <1>1, <1>9 DEF Export, TypeOK, Ops, Active
  <2>. QED BY <2>1, <1>3, <1>9 DEF Export, TypeOK, world
<1>10. CASE Load(i)
  <2>1. op' \in [OpIds -> Ops]
    BY <1>1, <1>10 DEF Load, TypeOK, Ops, Active
  <2>. QED BY <2>1, <1>3, <1>10 DEF Load, TypeOK, world
<1>11. CASE Save(i)
  <2>1. kube' \in Kubeconfigs
    BY <1>1, <1>11, UpsertType DEF Save, Ops
  <2>. QED BY <2>1, <1>3, <1>11, ToType DEF Save, TypeOK, Active, Ended, Streamed
<1>12. CASE Deploy(i)
  BY <1>3, <1>12, ToType DEF Deploy, TypeOK, world, Active
<1>13. CASE Persist(i)
  BY <1>1, <1>3, <1>13, ToType DEF Persist, TypeOK, Ended
<1>14. CASE KindDelete(i)
  BY <1>1, <1>2, <1>3, <1>14, ToType, WithoutType DEF KindDelete, TypeOK, Active
<1>15. CASE KindDeleted(i)
  BY <1>3, <1>15, ToType DEF KindDeleted, TypeOK, world, Active
<1>16. CASE KindDeleteFails(i)
  BY <1>3, <1>16, ToType DEF KindDeleteFails, TypeOK, world, Active, Ended
<1>17. CASE VerifyGone(i)
  BY <1>3, <1>17, ToType DEF VerifyGone, TypeOK, world, Active
<1>18. CASE Unload(i)
  <2>1. op' \in [OpIds -> Ops]
    BY <1>1, <1>18 DEF Unload, TypeOK, Ops, Active
  <2>. QED BY <2>1, <1>3, <1>18 DEF Unload, TypeOK, world
<1>19. CASE Unsave(i)
  <2>1. kube' \in Kubeconfigs
    BY <1>1, <1>19, WithoutType DEF Unsave, Ops
  <2>. QED BY <2>1, <1>3, <1>19, ToType DEF Unsave, TypeOK, Active
<1>20. CASE Unrecord(i)
  BY <1>1, <1>2, <1>3, <1>20, ToType DEF Unrecord, TypeOK, Ended
<1>21. CASE Fail(i)
  BY <1>3, <1>21, ToType DEF Fail, TypeOK, world, Ended
<1>. QED BY <1>4, <1>5, <1>6, <1>7, <1>8, <1>9, <1>10, <1>11, <1>12, <1>13, <1>14,
            <1>15, <1>16, <1>17, <1>18, <1>19, <1>20, <1>21 DEF Step

LEMMA FirstStepActive ==
    \A k \in Kinds : FirstStep[k] \in Active /\ FirstStep[k] # "save"
<1>1. /\ FirstStep["create"] = "precheck" /\ FirstStep["destroy"] = "kdelete"
      /\ FirstStep["recreate"] = "kdelete" /\ FirstStep["ensure"] = "load"
  BY DEF FirstStep
<1>. QED BY <1>1 DEF Kinds, Slotted, Active

LEMMA NextType == TypeOK /\ [Next]_vars => TypeOK'
<1>. SUFFICES ASSUME TypeOK, [Next]_vars PROVE TypeOK'
  OBVIOUS
<1>1. CASE vars' = vars
  BY <1>1 DEF vars, TypeOK, OpIds
<1>2. ASSUME NEW k \in Kinds, NEW c \in Clusters, Issue(k, c) PROVE TypeOK'
  <2>1. issued + 1 \in 0..MaxOps /\ issued' \in 0..MaxOps
    BY <1>2, OpsAssumption DEF Issue, TypeOK
  <2>2. PICK s \in SpecsOffered(k, c) :
          op' = [i \in 1..(issued + 1) |-> IF i > issued THEN NewOp(k, c, s) ELSE Meets(i, c)]
    BY <1>2 DEF Issue
  <2>3. s \in 0..MaxOps
    BY <2>1, OpsAssumption DEF SpecsOffered, Provisioned, TypeOK, Ops, None
  <2>4. FirstStep[k] \in Active \cup Ended
    BY FirstStepActive
  <2>5. NewOp(k, c, s) \in Ops
    <3>1. /\ None \in 0..MaxOps /\ None \in Builds
          /\ record[c] \in 0..MaxOps /\ kube \in Kubeconfigs
      BY OpsAssumption DEF TypeOK, None, Builds
    <3>2. {op[j].target : j \in {n \in OpIds : Running(n)}} \in SUBSET Clusters
      BY DEF TypeOK, Ops
    <3>. QED BY <2>3, <2>4, <3>1, <3>2 DEF Ops, NewOp
  <2>6. op' \in [OpIds' -> Ops]
    <3>1. \A i \in OpIds : Meets(i, c) \in Ops
      BY DEF Meets, TypeOK, Ops
    <3>. QED BY <1>2, <2>1, <2>2, <2>5, <3>1 DEF Issue, TypeOK, OpIds
  <2>7. /\ slots' \in [Slotted \X Clusters -> 0..MaxOps]
        /\ cancelled' \subseteq 1..MaxOps
    <3>1. CASE k \in Slotted
      <4>1. <<k, c>> \in Slotted \X Clusters /\ slots[<<k, c>>] \in 0..MaxOps
        BY <3>1 DEF TypeOK
      <4>2. Tokens({<<k, c>>}) \subseteq 1..MaxOps
        BY <4>1, OpsAssumption DEF Tokens, None
      <4>. QED BY <1>2, <2>1, <3>1, <4>2 DEF Issue, TypeOK
    <3>2. CASE k \notin Slotted
      BY <1>2, <3>2 DEF Issue, TypeOK
    <3>. QED BY <3>1, <3>2
  <2>. QED BY <1>2, <2>1, <2>6, <2>7 DEF Issue, TypeOK
<1>3. ASSUME NEW c \in Clusters, CancelOp(c) PROVE TypeOK'
  <2>1. cancelled' \subseteq 1..MaxOps
    <3>1. Tokens(KeysOf(c)) \subseteq 1..MaxOps
      <4>1. \A key \in KeysOf(c) : slots[key] \in 0..MaxOps
        BY DEF TypeOK, KeysOf
      <4>. QED BY <4>1, OpsAssumption DEF Tokens, None
    <3>. QED BY <1>3, <3>1 DEF CancelOp, TypeOK
  <2>2. slots' \in [Slotted \X Clusters -> 0..MaxOps]
    BY <1>3, OpsAssumption DEF CancelOp, TypeOK, None
  <2>. QED BY <1>3, <2>1, <2>2 DEF CancelOp, TypeOK, OpIds
<1>4. ASSUME NEW c \in Clusters, Outside(c) PROVE TypeOK'
  BY <1>4, OpsAssumption DEF Outside, TypeOK, OpIds, Builds, Foreign, None
<1>5. CASE Shutdown
  <2>1. op' \in [OpIds -> Ops]
    BY <1>5 DEF Shutdown, TypeOK, Ops, Ended
  <2>2. slots' \in [Slotted \X Clusters -> 0..MaxOps]
    BY <1>5, OpsAssumption DEF Shutdown, None
  <2>. QED BY <1>5, <2>1, <2>2 DEF Shutdown, TypeOK, OpIds, world
<1>6. CASE Restart
  BY <1>6, OpsAssumption DEF Restart, TypeOK, OpIds, None
<1>. QED BY <1>1, <1>2, <1>3, <1>4, <1>5, <1>6, StepType DEF Next

\* In every reachable state the worker's maps and tasks, the kubeconfig and
\* the stored records have their types.
THEOREM TypeCorrect == Spec => []TypeOK
<1>. QED BY InitType, NextType, PTL DEF Spec

-----------------------------------------------------------------------------
(* What one step of a task does to the tasks.                              *)

LEMMA StepTasks ==
    ASSUME TypeOK, NEW i \in OpIds, Step(i)
    PROVE  /\ op[i].pc \in Active
           /\ \A j \in OpIds : j # i => op'[j] = op[j]
           /\ \A j \in OpIds : /\ op'[j].kind = op[j].kind
                               /\ op'[j].target = op[j].target
                               /\ op'[j].spec = op[j].spec
                               /\ op'[j].before = op[j].before
                               /\ op'[j].met = op[j].met
<1>1. /\ op \in [OpIds -> Ops]
      /\ \A j \in OpIds : j # i => op'[j] = op[j]
      /\ op'[i].before = op[i].before
      /\ op'[i].met = op[i].met
      /\ op'[i].kind = op[i].kind
      /\ op'[i].target = op[i].target
      /\ op'[i].spec = op[i].spec
  BY DEF TypeOK, Ops, Step, Precheck, WriteConfig, KindCreate, KindCreated,
     KindCreateFails, Export, Load, Save, Deploy, Persist, KindDelete, KindDeleted,
     KindDeleteFails, VerifyGone, Unload, Unsave, Unrecord, Fail, To
<1>2. op[i].pc \in Active
  BY DEF Step, Precheck, WriteConfig, KindCreate, KindCreated,
     KindCreateFails, Export, Load, Save, Deploy, Persist, KindDelete, KindDeleted,
     KindDeleteFails, VerifyGone, Unload, Unsave, Unrecord, Fail, Active, Streamed
<1>. QED BY <1>1, <1>2

\* Issuing a command adds a task; the others only note that they met it.
LEMMA IssueTasks ==
    ASSUME TypeOK, NEW k \in Kinds, NEW c \in Clusters, Issue(k, c)
    PROVE  /\ OpIds' = OpIds \cup {issued + 1}
           /\ \A j \in OpIds : /\ j # issued + 1 /\ j < issued + 1
                               /\ op'[j].kind = op[j].kind
                               /\ op'[j].target = op[j].target
                               /\ op'[j].spec = op[j].spec
                               /\ op'[j].pc = op[j].pc
                               /\ op'[j].built = op[j].built
                               /\ op'[j].creds = op[j].creds
                               /\ op'[j].snap = op[j].snap
                               /\ op'[j].before = op[j].before
                               /\ op[j].met \subseteq op'[j].met
                               /\ Running(j) => c \in op'[j].met
           /\ op'[issued + 1].kind = k
           /\ op'[issued + 1].target = c
           /\ op'[issued + 1].pc = FirstStep[k]
           /\ op'[issued + 1].creds = None
           /\ op'[issued + 1].snap = kube
           /\ op'[issued + 1].before = record[c]
           /\ op'[issued + 1].met = {op[j].target : j \in {n \in OpIds : Running(n)}}
<1>1. issued \in Nat /\ issued' = issued + 1
  BY OpsAssumption DEF TypeOK, Issue
<1>2. PICK s \in SpecsOffered(k, c) :
        op' = [i \in 1..(issued + 1) |-> IF i > issued THEN NewOp(k, c, s) ELSE Meets(i, c)]
  BY DEF Issue
<1>3. op'[issued + 1] = NewOp(k, c, s)
  BY <1>1, <1>2
<1>4. \A j \in OpIds : op'[j] = Meets(j, c) /\ op[j] \in Ops
  BY <1>1, <1>2 DEF OpIds, TypeOK
<1>5. ASSUME NEW j \in OpIds
      PROVE  /\ j # issued + 1 /\ j < issued + 1
             /\ op'[j].kind = op[j].kind /\ op'[j].target = op[j].target
             /\ op'[j].spec = op[j].spec /\ op'[j].pc = op[j].pc
             /\ op'[j].built = op[j].built
             /\ op'[j].creds = op[j].creds /\ op'[j].snap = op[j].snap
             /\ op'[j].before = op[j].before /\ op[j].met \subseteq op'[j].met
             /\ Running(j) => c \in op'[j].met
  <2>1. j # issued + 1 /\ j < issued + 1
    BY <1>1 DEF OpIds
  <2>2. CASE Running(j)
    BY <1>4, <2>1, <2>2 DEF Meets, Ops
  <2>3. CASE ~Running(j)
    BY <1>4, <2>1, <2>3 DEF Meets
  <2>. QED BY <2>2, <2>3
<1>6. OpIds' = OpIds \cup {issued + 1}
  BY <1>1 DEF OpIds
<1>. QED BY <1>3, <1>5, <1>6 DEF NewOp

-----------------------------------------------------------------------------
(* The slots.                                                              *)

LEMMA CancellableStep ==
    TypeOK /\ RunningOpIsCancellable /\ [Next]_vars => RunningOpIsCancellable'
<1>. SUFFICES ASSUME TypeOK, RunningOpIsCancellable, [Next]_vars,
                     NEW j \in OpIds', Running(j)', op'[j].kind \in Slotted,
                     j \notin cancelled'
              PROVE  slots'[Key(j)'] = j
  BY DEF RunningOpIsCancellable
<1>. USE DEF Running, Key, RunningOpIsCancellable
<1>1. CASE vars' = vars
  BY <1>1 DEF vars, OpIds
\* The new task holds its slot; the one it replaces there is cancelled.
<1>2. ASSUME NEW k \in Kinds, NEW c \in Clusters, Issue(k, c)
      PROVE  slots'[Key(j)'] = j
  <2>1. CASE j = issued + 1
    <3>1. Key(j)' = <<k, c>> /\ k \in Slotted
      BY <1>2, <2>1, IssueTasks
    <3>2. slots' = [slots EXCEPT ![<<k, c>>] = issued + 1]
      BY <1>2, <3>1 DEF Issue
    <3>. QED BY <2>1, <3>1, <3>2 DEF TypeOK
  <2>2. CASE j \in OpIds
    <3>1. /\ op'[j].kind = op[j].kind /\ op'[j].target = op[j].target
          /\ op'[j].pc = op[j].pc /\ j \notin cancelled
      BY <1>2, <2>2, IssueTasks DEF Issue
    <3>2. slots[Key(j)] = j /\ Key(j) \in Slotted \X Clusters
      BY <2>2, <3>1 DEF TypeOK, Ops
    <3>3. ASSUME k \in Slotted PROVE Key(j) # <<k, c>>
      <4>1. ASSUME Key(j) = <<k, c>> PROVE FALSE
        <5>1. j \in Tokens({<<k, c>>})
          BY <2>2, <3>2, <4>1 DEF Tokens, None, OpIds
        <5>. QED BY <1>2, <3>3, <5>1 DEF Issue
      <4>. QED BY <4>1
    <3>. QED BY <1>2, <3>1, <3>2, <3>3 DEF Issue, TypeOK
  <2>. QED BY <1>2, <2>1, <2>2, IssueTasks
\* CancelOp fires every token it removes.
<1>3. ASSUME NEW c \in Clusters, CancelOp(c) PROVE slots'[Key(j)'] = j
  <2>1. op' = op /\ OpIds' = OpIds /\ j \notin cancelled
    BY <1>3 DEF CancelOp, OpIds
  <2>2. slots[Key(j)] = j /\ Key(j) \in Slotted \X Clusters
    BY <2>1 DEF TypeOK, Ops
  <2>3. Key(j) \notin KeysOf(c)
    BY <1>3, <2>1, <2>2 DEF CancelOp, Tokens, None, OpIds
  <2>. QED BY <1>3, <2>1, <2>2, <2>3 DEF CancelOp
<1>4. ASSUME NEW i \in OpIds, Step(i) PROVE slots'[Key(j)'] = j
  BY <1>4, StepSession, StepTasks DEF OpIds
<1>5. ASSUME NEW c \in Clusters, Outside(c) PROVE slots'[Key(j)'] = j
  BY <1>5 DEF Outside, OpIds
<1>6. CASE Shutdown
  BY <1>6 DEF Shutdown, OpIds, Active, Streamed
<1>7. CASE Restart
  BY <1>7 DEF Restart, OpIds
<1>. QED BY <1>1, <1>2, <1>3, <1>4, <1>5, <1>6, <1>7 DEF Next

\* Whatever is issued, replaced and cancelled, CancelOp reaches every running
\* operation whose token has not fired yet.
THEOREM AlwaysCancellable == Spec => []RunningOpIsCancellable
<1>1. Init => RunningOpIsCancellable
  BY DEF Init, RunningOpIsCancellable, OpIds
<1>. QED BY <1>1, InitType, NextType, CancellableStep, PTL DEF Spec

-----------------------------------------------------------------------------
(* The stored records.                                                     *)

PlanSteps == {"precheck", "config", "kcreate", "kwait", "deploy", "persist"}
MergeSteps == {"load", "export", "save"}
DeleteSteps == {"kdelete", "kreap", "verify", "unload", "unsave"}

\* Which kinds of operation can be at which step.
OnItsWay ==
    \A i \in OpIds :
        /\ op[i].pc \in PlanSteps => op[i].kind \in {"create", "recreate"}
        /\ op[i].pc \in MergeSteps => op[i].kind # "destroy"
        /\ op[i].pc \in DeleteSteps => op[i].kind \in {"destroy", "recreate"}

LEMMA OnItsWayStep == TypeOK /\ OnItsWay /\ [Next]_vars => OnItsWay'
<1>. SUFFICES ASSUME TypeOK, OnItsWay, [Next]_vars PROVE OnItsWay'
  OBVIOUS
<1>. USE DEF OnItsWay, PlanSteps, MergeSteps, DeleteSteps
<1>1. CASE vars' = vars
  BY <1>1 DEF vars, OpIds
<1>2. ASSUME NEW k \in Kinds, NEW c \in Clusters, Issue(k, c) PROVE OnItsWay'
  <2>1. /\ FirstStep["create"] = "precheck" /\ FirstStep["destroy"] = "kdelete"
        /\ FirstStep["recreate"] = "kdelete" /\ FirstStep["ensure"] = "load"
    BY DEF FirstStep
  <2>. QED BY <1>2, <2>1, IssueTasks DEF Kinds, Slotted
<1>3. ASSUME NEW i \in OpIds, Step(i) PROVE OnItsWay'
  <2>1. op \in [OpIds -> Ops] /\ OpIds' = OpIds
    BY <1>3, StepSession DEF OpIds, TypeOK
  <2>2. op[i].kind \in Kinds /\ op'[i].kind = op[i].kind
    BY <1>3, <2>1, StepTasks DEF Ops
  <2>3. /\ op'[i].pc \in PlanSteps => op[i].kind \in {"create", "recreate"}
        /\ op'[i].pc \in MergeSteps => op[i].kind # "destroy"
        /\ op'[i].pc \in DeleteSteps => op[i].kind \in {"destroy", "recreate"}
    <3>. USE DEF Ops, To
    <3>1. CASE Precheck(i) \/ WriteConfig(i) \/ KindCreate(i) \/ KindCreated(i)
      BY <2>1, <2>2, <3>1 DEF Precheck, WriteConfig, KindCreate, KindCreated
    <3>2. CASE Export(i) \/ Load(i) \/ Save(i) \/ Deploy(i)
      BY <2>1, <2>2, <3>2 DEF Export, Load, Save, Deploy, Kinds, Slotted
    <3>3. CASE KindDelete(i) \/ KindDeleted(i) \/ KindDeleteFails(i) \/ VerifyGone(i)
      BY <2>1, <2>2, <3>3 DEF KindDelete, KindDeleted, KindDeleteFails, VerifyGone
    <3>4. CASE Unload(i) \/ Unsave(i)
      BY <2>1, <2>2, <3>4 DEF Unload, Unsave
    <3>5. CASE KindCreateFails(i) \/ Persist(i) \/ Unrecord(i) \/ Fail(i)
      BY <2>1, <2>2, <3>5 DEF KindCreateFails, Persist, Unrecord, Fail
    <3>. QED BY <1>3, <3>1, <3>2, <3>3, <3>4, <3>5 DEF Step
  <2>. QED BY <1>3, <2>1, <2>2, <2>3, StepTasks
<1>4. CASE Shutdown
  BY <1>4 DEF Shutdown, OpIds, TypeOK, Ops
<1>5. ASSUME NEW c \in Clusters, CancelOp(c) \/ Outside(c) PROVE OnItsWay'
  BY <1>5 DEF CancelOp, Outside, OpIds
<1>6. CASE Restart
  BY <1>6 DEF Restart, OpIds
<1>. QED BY <1>1, <1>2, <1>3, <1>4, <1>5, <1>6 DEF Next

LEMMA RecordsStep ==
    TypeOK /\ OnItsWay /\ RecordsComeFromCompletedPlans /\ [Next]_vars
        => RecordsComeFromCompletedPlans'
<1>. DEFINE Source(i, c, s) == /\ op[i].target = c /\ op[i].spec = s
                               /\ op[i].kind \in {"create", "recreate"}
                               /\ op[i].pc = "ok"
<1>. SUFFICES ASSUME TypeOK, OnItsWay, RecordsComeFromCompletedPlans, [Next]_vars,
                     NEW c \in Clusters, record'[c] # None
              PROVE  \E i \in OpIds' : Source(i, c, record[c])'
  BY DEF RecordsComeFromCompletedPlans
\* What ended successfully stays that way.
<1>1. ASSUME NEW i \in OpIds, NEW r, Source(i, c, r)
      PROVE  i \in OpIds' /\ Source(i, c, r)'
  <2>. USE <1>1
  <2>1. CASE vars' = vars
    BY <2>1 DEF vars, OpIds
  <2>2. ASSUME NEW k \in Kinds, NEW d \in Clusters, Issue(k, d)
        PROVE  i \in OpIds' /\ Source(i, c, r)'
    BY <2>2, IssueTasks
  <2>3. ASSUME NEW j \in OpIds, Step(j) PROVE i \in OpIds' /\ Source(i, c, r)'
    BY <2>3, StepTasks, StepSession DEF OpIds, Active, Streamed
  <2>4. CASE Shutdown
    BY <2>4 DEF Shutdown, OpIds, Running, Active, Streamed
  <2>5. ASSUME NEW d \in Clusters, CancelOp(d) \/ Outside(d)
        PROVE  i \in OpIds' /\ Source(i, c, r)'
    BY <2>5 DEF CancelOp, Outside, OpIds
  <2>6. CASE Restart
    BY <2>6 DEF Restart, OpIds
  <2>. QED BY <2>1, <2>2, <2>3, <2>4, <2>5, <2>6 DEF Next
<1>2. CASE record'[c] = record[c]
  <2>1. PICK i \in OpIds : Source(i, c, record[c])
    BY <1>2 DEF RecordsComeFromCompletedPlans
  <2>. QED BY <1>1, <1>2, <2>1
\* Only Persist stores a spec.
<1>3. CASE record'[c] # record[c]
  <2>1. PICK j \in OpIds : Step(j)
    BY <1>3 DEF Next, vars, Issue, CancelOp, Outside, Shutdown, Restart, world
  <2>2. op[j].pc \in {"persist", "unrecord"}
    BY <1>3, <2>1 DEF Step, Precheck, WriteConfig, KindCreate, KindCreated,
       KindCreateFails, Export, Load, Save, Deploy, Persist, KindDelete,
       KindDeleted, KindDeleteFails, VerifyGone, Unload, Unsave, Unrecord,
       Fail, world
  <2>3. CASE Unrecord(j)
    BY <1>3, <2>3 DEF Unrecord, TypeOK
  <2>4. CASE Persist(j)
    <3>1. c = op[j].target /\ record'[c] = op[j].spec /\ op'[j].pc = "ok"
      BY <1>3, <2>4 DEF Persist, To, TypeOK, Ops
    <3>2. op[j].kind \in {"create", "recreate"}
      BY <2>4 DEF Persist, OnItsWay, PlanSteps
    <3>3. j \in OpIds' /\ op'[j].kind = op[j].kind /\ op'[j].spec = op[j].spec
          /\ op'[j].target = op[j].target
      BY <2>1, StepTasks, StepSession DEF OpIds
    <3>. QED BY <3>1, <3>2, <3>3
  <2>5. CASE Fail(j)
    BY <1>3, <2>5 DEF Fail, world
  <2>. QED BY <2>1, <2>2, <2>3, <2>4, <2>5
       DEF Step, Precheck, WriteConfig, KindCreate, KindCreated,
       KindCreateFails, Export, Load, Save, Deploy, KindDelete,
       KindDeleted, KindDeleteFails, VerifyGone, Unload, Unsave
<1>. QED BY <1>2, <1>3

\* No failed, cancelled or aborted operation ever leaves its spec behind as
\* the stored one.
THEOREM OnlyCompletedPlansAreStored == Spec => []RecordsComeFromCompletedPlans
<1>1. Init => OnItsWay /\ RecordsComeFromCompletedPlans
  BY DEF Init, OnItsWay, RecordsComeFromCompletedPlans, OpIds
<1>. QED BY <1>1, InitType, NextType, OnItsWayStep, RecordsStep, PTL DEF Spec

-----------------------------------------------------------------------------
(* The kubeconfig.                                                         *)

\* Every store, on disk or loaded by a task, has the entry its current context
\* names, and a task about to merge a context has exported one.
StoreOK(store) == store.current # NoCluster => store.entry[store.current] # None

StoresOK ==
    /\ StoreOK(kube)
    /\ \A i \in OpIds : StoreOK(op[i].snap)
    /\ \A i \in OpIds : op[i].pc = "save" => op[i].creds # None
    /\ \A i \in OpIds : op[i].pc = "load" /\ op[i].kind # "ensure"
                            => op[i].creds # None

LEMMA UpsertStore ==
    ASSUME NEW store \in Kubeconfigs, NEW c \in Clusters, NEW b \in Builds, b # None
    PROVE  StoreOK(Upsert(store, c, b))
BY DEF StoreOK, Upsert, Kubeconfigs

LEMMA WithoutStore ==
    ASSUME NEW store \in Kubeconfigs, NEW c \in Clusters, StoreOK(store)
    PROVE  StoreOK(Without(store, c))
BY DEF StoreOK, Without, Kubeconfigs

LEMMA StoresStep == TypeOK /\ StoresOK /\ [Next]_vars => StoresOK'
<1>. SUFFICES ASSUME TypeOK, StoresOK, [Next]_vars PROVE StoresOK'
  OBVIOUS
<1>1. CASE vars' = vars
  BY <1>1 DEF vars, OpIds, StoresOK, StoreOK
<1>2. ASSUME NEW k \in Kinds, NEW c \in Clusters, Issue(k, c) PROVE StoresOK'
  <2>1. kube' = kube /\ FirstStep[k] # "save"
    BY <1>2, FirstStepActive DEF Issue
  <2>2. FirstStep[k] = "load" => k = "ensure"
    <3>1. /\ FirstStep["create"] = "precheck" /\ FirstStep["destroy"] = "kdelete"
          /\ FirstStep["recreate"] = "kdelete"
      BY DEF FirstStep
    <3>. QED BY <3>1 DEF Kinds, Slotted
  <2>. QED BY <1>2, <2>1, <2>2, IssueTasks DEF StoresOK, StoreOK
<1>3. ASSUME NEW i \in OpIds, Step(i) PROVE StoresOK'
  <2>1. /\ op \in [OpIds -> Ops] /\ OpIds' = OpIds /\ op[i] \in Ops
        /\ op[i].snap \in Kubeconfigs /\ op[i].target \in Clusters
        /\ op[i].creds \in Builds /\ kube \in Kubeconfigs
    BY <1>3, StepSession DEF OpIds, TypeOK, Ops
  <2>2. i \in Builds /\ i # None
    BY OpsAssumption DEF OpIds, Builds, None, TypeOK
  <2>3. StoreOK(kube)'
    <3>1. CASE KindCreated(i)
      BY <2>1, <2>2, <3>1, UpsertStore DEF KindCreated, StoresOK, StoreOK
    <3>2. CASE Save(i)
      BY <2>1, <3>2, UpsertStore DEF Save, StoresOK, StoreOK
    <3>3. CASE KindDelete(i)
      BY <2>1, <3>3, WithoutStore DEF KindDelete, StoresOK, StoreOK
    <3>4. CASE Unsave(i)
      BY <2>1, <3>4, WithoutStore DEF Unsave, StoresOK, StoreOK
    <3>5. CASE kube' = kube
      BY <3>5 DEF StoresOK, StoreOK
    <3>. QED BY <1>3, <3>1, <3>2, <3>3, <3>4, <3>5
         DEF Step, Precheck, WriteConfig, KindCreate, KindCreateFails, Export,
             Load, Deploy, Persist, KindDeleted, KindDeleteFails, VerifyGone,
             Unload, Unrecord, Fail, world
  <2>4. StoreOK(op'[i].snap)
    <3>1. CASE Load(i) \/ Unload(i)
      BY <2>1, <3>1 DEF Load, Unload, StoresOK, StoreOK, Ops
    <3>2. CASE op'[i].snap = op[i].snap
      BY <3>2 DEF StoresOK
    <3>3. ASSUME ~Load(i), ~Unload(i) PROVE op'[i].snap = op[i].snap
      BY <1>3, <2>1, <3>3
         DEF Step, Precheck, WriteConfig, KindCreate, KindCreated,
             KindCreateFails, Export, Save, Deploy, Persist, KindDelete,
             KindDeleted, KindDeleteFails, VerifyGone, Unsave, Unrecord, Fail,
             To, Ops
    <3>. QED BY <3>1, <3>2, <3>3
  <2>5. /\ op'[i].pc = "save" => op'[i].creds # None
        /\ op'[i].pc = "load" /\ op'[i].kind # "ensure" => op'[i].creds # None
    <3>. USE DEF Ops, To
    <3>1. CASE Export(i)
      BY <2>1, <3>1 DEF Export
    <3>2. CASE Load(i)
      BY <2>1, <3>2 DEF Load, StoresOK
    <3>3. CASE op'[i].pc \notin {"load", "save"}
      BY <3>3
    <3>4. ASSUME ~Export(i), ~Load(i) PROVE op'[i].pc \notin {"load", "save"}
      <4>1. CASE Precheck(i) \/ WriteConfig(i) \/ KindCreate(i) \/ KindCreated(i)
                   \/ Save(i) \/ Deploy(i)
        BY <2>1, <4>1 DEF Precheck, WriteConfig, KindCreate, KindCreated, Save, Deploy
      <4>2. CASE KindDelete(i) \/ KindDeleted(i) \/ KindDeleteFails(i) \/ VerifyGone(i)
        BY <2>1, <4>2 DEF KindDelete, KindDeleted, KindDeleteFails, VerifyGone
      <4>3. CASE Unload(i) \/ Unsave(i) \/ KindCreateFails(i) \/ Persist(i)
                   \/ Unrecord(i) \/ Fail(i)
        BY <2>1, <4>3 DEF Unload, Unsave, KindCreateFails, Persist, Unrecord, Fail
      <4>. QED BY <1>3, <3>4, <4>1, <4>2, <4>3 DEF Step
    <3>. QED BY <3>1, <3>2, <3>3, <3>4
  <2>. QED BY <1>3, <2>1, <2>3, <2>4, <2>5, StepTasks DEF StoresOK
<1>4. CASE Shutdown
  BY <1>4 DEF Shutdown, OpIds, TypeOK, Ops, StoresOK, StoreOK, world
<1>5. ASSUME NEW c \in Clusters, CancelOp(c) \/ Outside(c) PROVE StoresOK'
  BY <1>5 DEF CancelOp, Outside, OpIds, StoresOK, StoreOK
<1>6. CASE Restart
  BY <1>6 DEF Restart, OpIds, StoresOK, StoreOK
<1>. QED BY <1>1, <1>2, <1>3, <1>4, <1>5, <1>6 DEF Next

\* However the tasks' rewrites of the kubeconfig interleave, also with kind's
\* own, current-context names a context that is there.
THEOREM CurrentAlwaysHasEntry == Spec => []CurrentHasEntry
<1>1. Init => StoresOK
  BY DEF Init, StoresOK, StoreOK, OpIds
<1>2. StoresOK => CurrentHasEntry
  BY DEF StoresOK, StoreOK, CurrentHasEntry
<1>. QED BY <1>1, <1>2, InitType, NextType, StoresStep, PTL DEF Spec

-----------------------------------------------------------------------------
(* The cleanup after a delete.                                             *)

\* Tasks that run at the same time, or a command issued while another ran,
\* know of each other's clusters.
Acquainted ==
    \A i, j \in OpIds :
        i # j /\ Running(j) /\ (Running(i) \/ j < i) => op[j].target \in op[i].met

LEMMA AcquaintedStep == TypeOK /\ Acquainted /\ [Next]_vars => Acquainted'
<1>. SUFFICES ASSUME TypeOK, Acquainted, [Next]_vars PROVE Acquainted'
  OBVIOUS
<1>. USE DEF Acquainted, Running
<1>1. CASE vars' = vars
  BY <1>1 DEF vars, OpIds
<1>2. ASSUME NEW k \in Kinds, NEW c \in Clusters, Issue(k, c) PROVE Acquainted'
  <2>. SUFFICES ASSUME NEW i \in OpIds', NEW j \in OpIds', i # j, Running(j)',
                       (Running(i) \/ j < i)'
                PROVE  op'[j].target \in op'[i].met
    OBVIOUS
  <2>. issued \in Nat /\ OpIds = 1..issued
    BY OpsAssumption DEF TypeOK, OpIds
  <2>1. CASE i \in OpIds /\ j \in OpIds
    BY <1>2, <2>1, IssueTasks
  <2>2. CASE i = issued + 1
    BY <1>2, <2>2, IssueTasks
  <2>3. CASE j = issued + 1 /\ i \in OpIds
    <3>1. ~(j < i)
      BY <2>3
    <3>. QED BY <1>2, <2>3, <3>1, IssueTasks
  <2>. QED BY <1>2, <2>1, <2>2, <2>3, IssueTasks
<1>3. ASSUME NEW i \in OpIds, Step(i) PROVE Acquainted'
  <2>1. OpIds' = OpIds /\ \A j \in OpIds : op'[j].pc \in Active => op[j].pc \in Active
    BY <1>3, StepTasks, StepSession DEF OpIds
  <2>. QED BY <1>3, <2>1, StepTasks
<1>4. CASE Shutdown
  BY <1>4 DEF Shutdown, OpIds, TypeOK, Ops, Active, Streamed
<1>5. ASSUME NEW c \in Clusters, CancelOp(c) \/ Outside(c) PROVE Acquainted'
  BY <1>5 DEF CancelOp, Outside, OpIds
<1>6. CASE Restart
  BY <1>6 DEF Restart, OpIds
<1>. QED BY <1>1, <1>2, <1>3, <1>4, <1>5, <1>6 DEF Next

\* From the moment `kind delete` has removed the nodes.
CleanupSteps == {"kreap", "unload", "unsave", "unrecord"}

GoneSinceDelete ==
    \A i \in OpIds : op[i].pc \in CleanupSteps /\ Undisturbed(i)
                        => live[op[i].target] = None

LEMMA CleanupStep ==
    TypeOK /\ Acquainted /\ GoneSinceDelete /\ [Next]_vars => GoneSinceDelete'
<1>. SUFFICES ASSUME TypeOK, Acquainted, GoneSinceDelete, [Next]_vars
              PROVE  GoneSinceDelete'
  OBVIOUS
<1>. USE DEF GoneSinceDelete, CleanupSteps, Undisturbed
<1>1. CASE vars' = vars
  BY <1>1 DEF vars, OpIds
<1>2. ASSUME NEW k \in Kinds, NEW c \in Clusters, Issue(k, c)
      PROVE  GoneSinceDelete'
  <2>1. /\ FirstStep["create"] = "precheck" /\ FirstStep["destroy"] = "kdelete"
        /\ FirstStep["recreate"] = "kdelete" /\ FirstStep["ensure"] = "load"
    BY DEF FirstStep
  <2>2. FirstStep[k] \notin CleanupSteps /\ live' = live /\ outside' = outside
    BY <1>2, <2>1 DEF Issue, Kinds, Slotted
  <2>. QED BY <1>2, <2>2, IssueTasks
<1>3. ASSUME NEW i \in OpIds, Step(i) PROVE GoneSinceDelete'
  <2>. SUFFICES ASSUME NEW j \in OpIds,
                       op'[j].pc \in CleanupSteps, Undisturbed(j)'
                PROVE  live'[op'[j].target] = None
    BY <1>3, StepSession DEF OpIds
  <2>1. /\ op \in [OpIds -> Ops] /\ op[i] \in Ops
        /\ op'[j].target = op[j].target /\ op[j].target \in Clusters
        /\ op[i].target \in Clusters /\ live \in [Clusters -> Builds]
        /\ Undisturbed(j)
    BY <1>3, StepTasks, StepSession DEF TypeOK, Ops
  \* Another task is at work on another cluster.
  <2>2. CASE j # i
    <3>1. op'[j] = op[j] /\ op[i].target # op[j].target
      BY <1>3, <2>1, <2>2, StepTasks DEF Acquainted, Running, Active
    <3>2. live'[op[j].target] = live[op[j].target]
      BY <1>3, <2>1, <3>1 DEF Step, Precheck, WriteConfig, KindCreate, KindCreated,
         KindCreateFails, Export, Load, Save, Deploy, Persist, KindDelete,
         KindDeleted, KindDeleteFails, VerifyGone, Unload, Unsave, Unrecord,
         Fail, world
    <3>. QED BY <2>1, <3>1, <3>2
  <2>3. CASE j = i
    <3>. USE DEF Ops, To
    <3>1. CASE VerifyGone(i)
      BY <2>1, <2>3, <3>1 DEF VerifyGone, world
    <3>2. CASE Unload(i) \/ Unsave(i)
      BY <2>1, <2>3, <3>2 DEF Unload, Unsave, world
    <3>3. CASE KindDeleted(i)
      BY <2>1, <2>3, <3>3 DEF KindDeleted, world
    <3>4. CASE Precheck(i) \/ WriteConfig(i) \/ KindCreate(i) \/ KindCreated(i)
                 \/ Export(i) \/ Load(i) \/ Save(i) \/ Deploy(i)
      BY <2>1, <2>3, <3>4 DEF Precheck, WriteConfig, KindCreate, KindCreated,
         Export, Load, Save, Deploy
    <3>5. CASE KindDelete(i)
      BY <2>1, <2>3, <3>5 DEF KindDelete
    <3>6. CASE KindDeleteFails(i) \/ KindCreateFails(i)
                 \/ Persist(i) \/ Unrecord(i) \/ Fail(i)
      BY <2>1, <2>3, <3>6 DEF KindDeleteFails, KindCreateFails,
         Persist, Unrecord, Fail
    <3>. QED BY <1>3, <3>1, <3>2, <3>3, <3>4, <3>5, <3>6 DEF Step
  <2>. QED BY <2>2, <2>3
<1>4. CASE Shutdown
  BY <1>4 DEF Shutdown, OpIds, TypeOK, Ops, world, Running, Active
<1>5. ASSUME NEW c \in Clusters, CancelOp(c) PROVE GoneSinceDelete'
  BY <1>5 DEF CancelOp, OpIds
<1>6. ASSUME NEW c \in Clusters, Outside(c) PROVE GoneSinceDelete'
  <2>1. outside' # 0
    BY <1>6 DEF Outside, TypeOK
  <2>. QED BY <2>1
<1>7. CASE Restart
  BY <1>7 DEF Restart, OpIds
<1>. QED BY <1>1, <1>2, <1>3, <1>4, <1>5, <1>6, <1>7 DEF Next

\* Destroy and recreate clean up behind clusters that are really gone, unless
\* another command was at work on the cluster or it was changed from outside.
THEOREM CleanupIsSafe == Spec => []CleanupOnlyWhenGone
<1>1. Init => Acquainted /\ GoneSinceDelete
  BY DEF Init, Acquainted, GoneSinceDelete, OpIds
<1>2. GoneSinceDelete => CleanupOnlyWhenGone
  BY DEF GoneSinceDelete, CleanupOnlyWhenGone, CleanupSteps
<1>. QED BY <1>1, <1>2, InitType, NextType, AcquaintedStep, CleanupStep, PTL DEF Spec

-----------------------------------------------------------------------------
(* The record an unfinished operation found.                               *)

LEMMA UntouchedStep ==
    TypeOK /\ Acquainted /\ StoredSpecUntouched /\ [Next]_vars => StoredSpecUntouched'
<1>. SUFFICES ASSUME TypeOK, Acquainted, StoredSpecUntouched, [Next]_vars,
                     NEW j \in OpIds', Latest(j)', Undisturbed(j)', op'[j].pc # "ok"
              PROVE  record'[op'[j].target] = op'[j].before
  BY DEF StoredSpecUntouched
<1>. USE DEF StoredSpecUntouched, Undisturbed, Latest
<1>1. CASE vars' = vars
  BY <1>1 DEF vars, OpIds
<1>2. ASSUME NEW k \in Kinds, NEW c \in Clusters, Issue(k, c)
      PROVE  record'[op'[j].target] = op'[j].before
  <2>1. record' = record /\ outside' = outside
    BY <1>2 DEF Issue
  <2>2. CASE j = issued + 1
    BY <1>2, <2>1, <2>2, IssueTasks
  <2>3. CASE j \in OpIds
    <3>1. /\ op[j].target = op'[j].target /\ op[j].before = op'[j].before
          /\ op[j].pc # "ok" /\ op[j].target \notin op[j].met /\ Latest(j)
      BY <1>2, <2>3, IssueTasks
    <3>. QED BY <2>1, <2>3, <3>1
  <2>. QED BY <1>2, <2>2, <2>3, IssueTasks
<1>3. ASSUME NEW i \in OpIds, Step(i)
      PROVE  record'[op'[j].target] = op'[j].before
  <2>1. /\ op \in [OpIds -> Ops] /\ OpIds' = OpIds /\ j \in OpIds
        /\ outside' = outside /\ op[i] \in Ops /\ op[j] \in Ops
    BY <1>3, StepSession DEF TypeOK, OpIds
  <2>2. /\ op'[j].target = op[j].target /\ op'[j].before = op[j].before
        /\ op'[j].met = op[j].met /\ Latest(j)
    BY <1>3, <2>1, StepTasks
  <2>3. CASE record' = record
    <3>1. op[j].pc # "ok"
      BY <1>3, <2>1, StepTasks DEF Active, Streamed
    <3>. QED BY <2>1, <2>2, <2>3, <3>1
  \* Only Persist and Unrecord write a record, and both end their task.
  <2>4. CASE Persist(i) \/ Unrecord(i)
    <3>1. op'[i].pc = "ok"
      BY <2>1, <2>4 DEF Persist, Unrecord, To, Ops
    <3>2. j # i /\ Running(i) /\ op[j].pc # "ok"
      BY <1>3, <2>1, <3>1, StepTasks DEF Running
    <3>3. op[i].target # op[j].target
      <4>1. CASE Running(j) \/ i < j
        BY <2>1, <2>2, <3>2, <4>1 DEF Acquainted
      <4>2. CASE ~(i < j)
        BY <2>1, <2>2, <3>2, <4>2 DEF OpIds
      <4>. QED BY <4>1, <4>2
    <3>4. record'[op[j].target] = record[op[j].target]
      BY <2>1, <2>4, <3>3 DEF Persist, Unrecord, TypeOK, Ops
    <3>. QED BY <2>1, <2>2, <3>2, <3>4
  <2>. QED BY <1>3, <2>3, <2>4
       DEF Step, Precheck, WriteConfig, KindCreate, KindCreated,
           KindCreateFails, Export, Load, Save, Deploy, KindDelete,
           KindDeleted, KindDeleteFails, VerifyGone, Unload, Unsave, Fail, world
<1>4. CASE Shutdown
  BY <1>4 DEF Shutdown, OpIds, TypeOK, Ops, world, Running, Active, Streamed
<1>5. ASSUME NEW c \in Clusters, CancelOp(c) \/ Outside(c)
      PROVE  record'[op'[j].target] = op'[j].before
  <2>1. outside' = 0 => outside = 0
    BY <1>5 DEF CancelOp, Outside, TypeOK
  <2>. QED BY <1>5, <2>1 DEF CancelOp, Outside, OpIds
<1>6. CASE Restart
  BY <1>6 DEF Restart, OpIds
<1>. QED BY <1>1, <1>2, <1>3, <1>4, <1>5, <1>6 DEF Next

\* An operation that has not succeeded has left the stored spec alone.
THEOREM FailureKeepsTheSpec == Spec => []StoredSpecUntouched
<1>1. Init => Acquainted /\ StoredSpecUntouched
  BY DEF Init, Acquainted, StoredSpecUntouched, OpIds
<1>. QED BY <1>1, InitType, NextType, AcquaintedStep, UntouchedStep, PTL DEF Spec

-----------------------------------------------------------------------------
(* What success means.                                                     *)

DownMeansIdle == ~up => \A i \in OpIds : ~Running(i)

\* A command issued while a task runs is met by it.
LaterMet == \A i, j \in OpIds : j > i /\ Running(i) => op[j].target \in op[i].met

UnrecordIsDestroys == \A i \in OpIds : op[i].pc = "unrecord" => op[i].kind = "destroy"

\* How far an undisturbed create or recreate has come.
BuiltSteps == {"kwait", "export", "load", "save", "deploy", "persist", "ok"}

CreateProgress(i) ==
    LET c == op[i].target IN
    /\ op[i].pc = "kcreate" => config[c] = op[i].spec
    /\ op[i].pc \in BuiltSteps => live[c] = i /\ op[i].built = op[i].spec
    /\ op[i].pc \in {"load", "save"} => op[i].creds = i
    /\ op[i].pc \in {"deploy", "persist", "ok"} => kube.entry[c] = i
    /\ op[i].pc = "ok" => record[c] = op[i].spec

\* How far an undisturbed destroy has come.
DestroyProgress(i) ==
    LET c == op[i].target IN
    /\ op[i].pc \in CleanupSteps \cup {"ok"} => live[c] = None
    /\ op[i].pc \in {"unrecord", "ok"} => kube.entry[c] = None
    /\ op[i].pc = "ok" => record[c] = None

Goal(i) == /\ op[i].kind \in {"create", "recreate"} => CreateProgress(i)
           /\ op[i].kind = "destroy" => DestroyProgress(i)

Progress == \A i \in OpIds : Latest(i) /\ Alone(i) => Goal(i)

\* A store that a later task has loaded has the entry the operation left.
SnapsAfter ==
    \A i, j \in OpIds :
        j > i /\ Latest(i) /\ Alone(i) /\ op[i].pc = "ok"
            => op[j].snap.entry[op[i].target] = kube.entry[op[i].target]

DoneInv == /\ DownMeansIdle /\ LaterMet /\ UnrecordIsDestroys
           /\ Progress /\ SnapsAfter

\* A task that is at work beside an undisturbed last one came after it was
\* done, for another cluster.
LEMMA Apart ==
    ASSUME Acquainted, NEW i \in OpIds, NEW j \in OpIds, i # j, Running(j),
           Latest(i), Alone(i)
    PROVE  ~Running(i) /\ j > i /\ op[j].target # op[i].target
<1>1. op[j].target \notin op[i].met
  BY DEF Alone
<1>2. ~Running(i) /\ ~(j < i)
  BY <1>1 DEF Acquainted
<1>3. j > i
  BY <1>2 DEF OpIds
<1>. QED BY <1>2, <1>3 DEF Latest

\* A step touches other clusters only by writing the store its task loaded.
LEMMA Elsewhere ==
    ASSUME TypeOK, NEW j \in OpIds, Step(j), NEW c \in Clusters, c # op[j].target
    PROVE  /\ live'[c] = live[c] /\ config'[c] = config[c] /\ record'[c] = record[c]
           /\ kube'.entry[c] \in {kube.entry[c], op[j].snap.entry[c]}
<1>1. /\ op[j] \in Ops /\ op[j].target \in Clusters /\ op[j].snap \in Kubeconfigs
      /\ kube \in Kubeconfigs /\ live \in [Clusters -> Builds]
      /\ record \in [Clusters -> 0..MaxOps] /\ config \in [Clusters -> 0..MaxOps]
  BY DEF TypeOK, Ops
<1>2. \A store \in Kubeconfigs : \A b :
         /\ Upsert(store, op[j].target, b).entry[c] = store.entry[c]
         /\ Without(store, op[j].target).entry[c] = store.entry[c]
  BY <1>1 DEF Upsert, Without, Kubeconfigs
<1>3. CASE Save(j) \/ Unsave(j)
  BY <1>1, <1>2, <1>3 DEF Save, Unsave
<1>4. CASE KindCreated(j) \/ KindDelete(j)
  BY <1>1, <1>2, <1>4 DEF KindCreated, KindDelete
<1>5. CASE KindCreate(j) \/ KindCreateFails(j) \/ WriteConfig(j)
  BY <1>1, <1>5 DEF KindCreate, KindCreateFails, WriteConfig
<1>6. CASE Persist(j) \/ Unrecord(j)
  BY <1>1, <1>6 DEF Persist, Unrecord
<1>7. CASE UNCHANGED world
  BY <1>7 DEF world
<1>. QED BY <1>3, <1>4, <1>5, <1>6, <1>7
     DEF Step, Precheck, Export, Load, Deploy, KindDeleted, KindDeleteFails,
         VerifyGone, Unload, Fail

\* An operation's own step takes it a step nearer to its goal.
LEMMA OwnStep ==
    ASSUME TypeOK, OnItsWay, UnrecordIsDestroys, NEW i \in OpIds, Step(i), Goal(i)
    PROVE  Goal(i)'
<1>1. /\ op \in [OpIds -> Ops] /\ op[i] \in Ops /\ op[i].target \in Clusters
      /\ op[i].snap \in Kubeconfigs /\ op[i].kind \in Kinds
      /\ kube \in Kubeconfigs /\ live \in [Clusters -> Builds]
      /\ record \in [Clusters -> 0..MaxOps] /\ config \in [Clusters -> 0..MaxOps]
      /\ op[i].pc \in Active
  BY StepTasks DEF TypeOK, Ops
<1>2. /\ op'[i].kind = op[i].kind /\ op'[i].target = op[i].target
      /\ op'[i].spec = op[i].spec
  BY StepTasks
<1>3. /\ op[i].pc \in PlanSteps => op[i].kind \in {"create", "recreate"}
      /\ op[i].pc \in MergeSteps => op[i].kind # "destroy"
      /\ op[i].pc \in DeleteSteps => op[i].kind \in {"destroy", "recreate"}
      /\ op[i].pc = "unrecord" => op[i].kind = "destroy"
  BY DEF OnItsWay, UnrecordIsDestroys
<1>. DEFINE c == op[i].target
<1>4. \A store \in Kubeconfigs : \A b :
         /\ Upsert(store, c, b).entry[c] = b
         /\ Without(store, c).entry[c] = None
  BY <1>1 DEF Upsert, Without, Kubeconfigs
<1>. SUFFICES /\ op[i].kind \in {"create", "recreate"} => CreateProgress(i)'
              /\ op[i].kind = "destroy" => DestroyProgress(i)'
  BY <1>2 DEF Goal
<1>. USE <1>1, <1>2, <1>3 DEF Goal, CreateProgress, DestroyProgress, BuiltSteps,
         CleanupSteps, To, Ops, world
<1>5. CASE Precheck(i)
  BY <1>5 DEF Precheck
<1>6. CASE WriteConfig(i)
  BY <1>6 DEF WriteConfig, PlanSteps
<1>7. CASE KindCreate(i)
  BY <1>7 DEF KindCreate, PlanSteps
<1>8. CASE KindCreated(i)
  BY <1>8 DEF KindCreated, PlanSteps
<1>9. CASE KindCreateFails(i) \/ KindDeleteFails(i) \/ Fail(i)
  BY <1>9 DEF KindCreateFails, KindDeleteFails, Fail
<1>10. CASE Export(i)
  BY <1>10 DEF Export, MergeSteps, Kinds, Slotted
<1>11. CASE Load(i)
  BY <1>11 DEF Load, MergeSteps, Kinds, Slotted
<1>12. CASE Save(i)
  BY <1>4, <1>12 DEF Save, MergeSteps, Kinds, Slotted
<1>13. CASE Deploy(i)
  BY <1>13 DEF Deploy, PlanSteps
<1>14. CASE Persist(i)
  BY <1>14 DEF Persist, PlanSteps
<1>15. CASE KindDelete(i)
  BY <1>15 DEF KindDelete, DeleteSteps
<1>16. CASE KindDeleted(i) \/ VerifyGone(i)
  BY <1>16 DEF KindDeleted, VerifyGone, DeleteSteps
<1>17. CASE Unload(i)
  BY <1>17 DEF Unload, DeleteSteps
<1>18. CASE Unsave(i)
  BY <1>4, <1>18 DEF Unsave, DeleteSteps
<1>19. CASE Unrecord(i)
  BY <1>19 DEF Unrecord
<1>. QED BY <1>5, <1>6, <1>7, <1>8, <1>9, <1>10, <1>11, <1>12, <1>13, <1>14, <1>15,
            <1>16, <1>17, <1>18, <1>19 DEF Step

LEMMA IdleMetStep ==
    TypeOK /\ OnItsWay /\ DownMeansIdle /\ LaterMet /\ UnrecordIsDestroys /\ [Next]_vars
        => (DownMeansIdle /\ LaterMet /\ UnrecordIsDestroys)'
<1>. SUFFICES ASSUME TypeOK, OnItsWay, DownMeansIdle, LaterMet, UnrecordIsDestroys,
                     [Next]_vars
              PROVE  (DownMeansIdle /\ LaterMet /\ UnrecordIsDestroys)'
  OBVIOUS
<1>. USE DEF DownMeansIdle, LaterMet, UnrecordIsDestroys, Running
<1>1. CASE vars' = vars
  BY <1>1 DEF vars, OpIds
<1>2. ASSUME NEW k \in Kinds, NEW c \in Clusters, Issue(k, c)
      PROVE  (DownMeansIdle /\ LaterMet /\ UnrecordIsDestroys)'
  <2>1. up' = up /\ up
    BY <1>2 DEF Issue
  <2>2. FirstStep[k] # "unrecord"
    <3>1. /\ FirstStep["create"] = "precheck" /\ FirstStep["destroy"] = "kdelete"
          /\ FirstStep["recreate"] = "kdelete" /\ FirstStep["ensure"] = "load"
      BY DEF FirstStep
    <3>. QED BY <3>1 DEF Kinds, Slotted
  <2>3. UnrecordIsDestroys'
    BY <1>2, <2>2, IssueTasks
  <2>4. ASSUME NEW i \in OpIds', NEW j \in OpIds', j > i, Running(i)'
        PROVE  op'[j].target \in op'[i].met
    <3>. issued \in Nat /\ OpIds = 1..issued
      BY OpsAssumption DEF TypeOK, OpIds
    <3>1. i \in OpIds
      BY <1>2, <2>4, IssueTasks
    <3>2. CASE j \in OpIds
      BY <1>2, <2>4, <3>1, <3>2, IssueTasks
    <3>3. CASE j = issued + 1
      BY <1>2, <2>4, <3>1, <3>3, IssueTasks
    <3>. QED BY <1>2, <3>2, <3>3, IssueTasks
  <2>. QED BY <2>1, <2>3, <2>4
<1>3. ASSUME NEW i \in OpIds, Step(i)
      PROVE  (DownMeansIdle /\ LaterMet /\ UnrecordIsDestroys)'
  <2>1. /\ OpIds' = OpIds /\ up' = up /\ op \in [OpIds -> Ops]
        /\ \A j \in OpIds : op'[j].pc \in Active => op[j].pc \in Active
    BY <1>3, StepTasks, StepSession DEF OpIds, TypeOK
  <2>2. op'[i].pc = "unrecord" => op'[i].kind = "destroy"
    <3>. USE DEF Ops, To
    <3>1. CASE Unsave(i)
      BY <2>1, <3>1 DEF Unsave
    <3>2. CASE Precheck(i) \/ WriteConfig(i) \/ KindCreate(i) \/ KindCreated(i)
                 \/ Export(i) \/ Load(i) \/ Save(i) \/ Deploy(i)
      BY <2>1, <3>2 DEF Precheck, WriteConfig, KindCreate, KindCreated,
         Export, Load, Save, Deploy
    <3>3. CASE KindDelete(i) \/ KindDeleted(i) \/ VerifyGone(i) \/ Unload(i)
      BY <2>1, <3>3 DEF KindDelete, KindDeleted, VerifyGone, Unload
    <3>4. CASE KindDeleteFails(i) \/ KindCreateFails(i) \/ Persist(i) \/ Unrecord(i)
                 \/ Fail(i)
      BY <2>1, <3>4 DEF KindDeleteFails, KindCreateFails, Persist, Unrecord, Fail
    <3>. QED BY <1>3, <3>1, <3>2, <3>3, <3>4 DEF Step
  <2>. QED BY <1>3, <2>1, <2>2, StepTasks
<1>4. CASE Shutdown
  BY <1>4 DEF Shutdown, OpIds, TypeOK, Ops, Active, Streamed
<1>5. ASSUME NEW c \in Clusters, CancelOp(c) \/ Outside(c)
      PROVE  (DownMeansIdle /\ LaterMet /\ UnrecordIsDestroys)'
  BY <1>5 DEF CancelOp, Outside, OpIds
<1>6. CASE Restart
  BY <1>6 DEF Restart, OpIds
<1>. QED BY <1>1, <1>2, <1>3, <1>4, <1>5, <1>6 DEF Next

\* What an undisturbed last operation has reached stays so while others run.
LEMMA OthersStep ==
    ASSUME TypeOK, Acquainted, Progress, SnapsAfter,
           NEW i \in OpIds, NEW j \in OpIds, i # j, Step(j), Latest(i), Alone(i)
    PROVE  /\ Goal(i)'
           /\ op[i].pc = "ok" => kube'.entry[op[i].target] = kube.entry[op[i].target]
<1>1. /\ op[i] \in Ops /\ op[i].target \in Clusters /\ op'[i] = op[i]
      /\ op[j].pc \in Active
  BY StepTasks DEF TypeOK, Ops
<1>2. ~Running(i) /\ j > i /\ op[j].target # op[i].target
  BY <1>1, Apart DEF Running
<1>. DEFINE c == op[i].target
<1>3. /\ live'[c] = live[c] /\ config'[c] = config[c] /\ record'[c] = record[c]
      /\ kube'.entry[c] \in {kube.entry[c], op[j].snap.entry[c]}
  BY <1>1, <1>2, Elsewhere
<1>4. op[i].pc = "ok" => kube'.entry[c] = kube.entry[c]
  BY <1>2, <1>3 DEF SnapsAfter
<1>5. Goal(i) /\ op[i].pc \in Ended
  BY <1>1, <1>2 DEF Progress, Running, Ops
<1>6. Goal(i)'
  BY <1>1, <1>3, <1>4, <1>5 DEF Goal, CreateProgress, DestroyProgress, Ended,
     BuiltSteps, CleanupSteps
<1>. QED BY <1>4, <1>6

LEMMA ProgressStep ==
    TypeOK /\ OnItsWay /\ Acquainted /\ DoneInv /\ [Next]_vars
        => (Progress /\ SnapsAfter)'
<1>. SUFFICES ASSUME TypeOK, OnItsWay, Acquainted, DoneInv, [Next]_vars
              PROVE  Progress' /\ SnapsAfter'
  OBVIOUS
<1>. USE DEF DoneInv, Progress, SnapsAfter
<1>. DEFINE Follows(i, j) == op[j].snap.entry[op[i].target] = kube.entry[op[i].target]
<1>1. CASE vars' = vars
  <2>. USE DEF Goal, CreateProgress, DestroyProgress
  <2>. QED BY <1>1 DEF vars, OpIds, Latest, Alone
\* The new task has done nothing, and has loaded what is there now.
<1>2. ASSUME NEW k \in Kinds, NEW c \in Clusters, Issue(k, c)
      PROVE  Progress' /\ SnapsAfter'
  <2>. issued \in Nat /\ OpIds = 1..issued
    BY OpsAssumption DEF TypeOK, OpIds
  <2>1. UNCHANGED <<world, outside>>
    BY <1>2 DEF Issue, world
  <2>2. ASSUME NEW i \in OpIds, (Latest(i) /\ Alone(i))'
        PROVE  Latest(i) /\ Alone(i) /\ ~Running(i)
    BY <1>2, <2>1, <2>2, IssueTasks DEF Latest, Alone
  <2>3. ASSUME NEW i \in OpIds', (Latest(i) /\ Alone(i))' PROVE Goal(i)'
    <3>1. CASE i \in OpIds
      <4>1. Goal(i) /\ op[i].pc \in Ended
        BY <2>2, <2>3, <3>1 DEF Running, TypeOK, Ops
      <4>. QED BY <1>2, <2>1, <3>1, <4>1, IssueTasks
           DEF Goal, CreateProgress, DestroyProgress, world, Ended, BuiltSteps, CleanupSteps
    <3>2. CASE i = issued + 1
      <4>1. /\ FirstStep["create"] = "precheck" /\ FirstStep["destroy"] = "kdelete"
            /\ FirstStep["recreate"] = "kdelete" /\ FirstStep["ensure"] = "load"
        BY DEF FirstStep
      <4>2. op'[i].kind = k /\ op'[i].pc = FirstStep[k]
        BY <1>2, <3>2, IssueTasks
      <4>. QED BY <4>1, <4>2
           DEF Goal, CreateProgress, DestroyProgress, BuiltSteps, CleanupSteps
    <3>. QED BY <1>2, <3>1, <3>2, IssueTasks
  <2>4. ASSUME NEW i \in OpIds', NEW j \in OpIds', j > i,
               (Latest(i) /\ Alone(i) /\ op[i].pc = "ok")'
        PROVE  Follows(i, j)'
    <3>1. i \in OpIds
      BY <1>2, <2>4, IssueTasks
    <3>2. Latest(i) /\ Alone(i) /\ op[i].pc = "ok" /\ op'[i].target = op[i].target
      BY <1>2, <2>2, <2>4, <3>1, IssueTasks
    <3>3. CASE j \in OpIds
      BY <1>2, <2>1, <2>4, <3>1, <3>2, <3>3, IssueTasks DEF world
    <3>4. CASE j = issued + 1
      BY <1>2, <2>1, <3>2, <3>4, IssueTasks DEF world
    <3>. QED BY <1>2, <3>3, <3>4, IssueTasks
  <2>. QED BY <2>3, <2>4
<1>3. ASSUME NEW j \in OpIds, Step(j) PROVE Progress' /\ SnapsAfter'
  <2>1. /\ op \in [OpIds -> Ops] /\ OpIds' = OpIds /\ outside' = outside
    BY <1>3, StepSession DEF TypeOK, OpIds
  <2>2. ASSUME NEW i \in OpIds, (Latest(i) /\ Alone(i))' PROVE Latest(i) /\ Alone(i)
    BY <1>3, <2>1, <2>2, StepTasks DEF Latest, Alone
  <2>3. ASSUME NEW i \in OpIds, (Latest(i) /\ Alone(i))' PROVE Goal(i)'
    BY <1>3, <2>2, <2>3, OwnStep, OthersStep
  <2>4. ASSUME NEW i \in OpIds, NEW n \in OpIds, n > i,
               (Latest(i) /\ Alone(i) /\ op[i].pc = "ok")'
        PROVE  Follows(i, n)'
    <3>1. Latest(i) /\ Alone(i) /\ op'[i].target = op[i].target
      BY <1>3, <2>2, <2>4, StepTasks
    \* Until it was done nothing came after it.
    <3>2. CASE i = j
      <4>1. Running(i) /\ op[n].target \in op[i].met
        BY <1>3, <2>4, <3>2, StepTasks DEF Running, LaterMet
      <4>. QED BY <3>1, <4>1 DEF Alone
    <3>3. CASE i # j
      <4>1. op[i].pc = "ok" /\ kube'.entry[op[i].target] = kube.entry[op[i].target]
        BY <1>3, <2>4, <3>1, <3>3, OthersStep, StepTasks
      <4>2. Follows(i, n)
        BY <2>4, <3>1, <4>1
      <4>3. op'[n].snap \in {op[n].snap, kube}
        BY <1>3, <2>1 DEF Step, Precheck, WriteConfig, KindCreate, KindCreated,
           KindCreateFails, Export, Load, Save, Deploy, Persist, KindDelete,
           KindDeleted, KindDeleteFails, VerifyGone, Unload, Unsave, Unrecord, Fail,
           To, Ops
      <4>. QED BY <3>1, <4>1, <4>2, <4>3
    <3>. QED BY <3>2, <3>3
  <2>. QED BY <2>1, <2>3, <2>4
<1>4. CASE Shutdown
  <2>1. /\ op \in [OpIds -> Ops] /\ OpIds' = OpIds /\ UNCHANGED <<world, outside>>
        /\ op' = [i \in OpIds |-> IF Running(i) THEN [op[i] EXCEPT !.pc = "aborted"]
                                                ELSE op[i]]
    BY <1>4 DEF Shutdown, TypeOK, OpIds
  <2>2. \A i \in OpIds :
           /\ op'[i].kind = op[i].kind /\ op'[i].target = op[i].target
           /\ op'[i].spec = op[i].spec /\ op'[i].met = op[i].met
           /\ op'[i].snap = op[i].snap /\ op'[i].built = op[i].built
           /\ op'[i].pc \in {op[i].pc, "aborted"}
           /\ op'[i].pc \in Ended
    <3>. TAKE i \in OpIds
    <3>1. op[i] \in Ops
      BY <2>1
    <3>2. CASE Running(i)
      BY <2>1, <3>1, <3>2 DEF Ops, Ended
    <3>3. CASE ~Running(i)
      BY <2>1, <3>1, <3>3 DEF Ops, Running
    <3>. QED BY <3>2, <3>3
  <2>3. \A i \in OpIds : (Latest(i) /\ Alone(i))' => Latest(i) /\ Alone(i)
    BY <2>1, <2>2 DEF Latest, Alone
  <2>4. \A i \in OpIds : Goal(i) => Goal(i)'
    BY <2>1, <2>2 DEF Goal, CreateProgress, DestroyProgress, world, Ended,
       BuiltSteps, CleanupSteps
  <2>. QED BY <2>1, <2>2, <2>3, <2>4 DEF world
<1>5. ASSUME NEW c \in Clusters, CancelOp(c) PROVE Progress' /\ SnapsAfter'
  BY <1>5 DEF CancelOp, OpIds, Latest, Alone, Goal, CreateProgress, DestroyProgress
<1>6. ASSUME NEW c \in Clusters, Outside(c) PROVE Progress' /\ SnapsAfter'
  <2>1. outside' # 0
    BY <1>6 DEF Outside, TypeOK
  <2>. QED BY <2>1 DEF Alone
\* Startup cleans the configs away, but nobody is about to read one.
<1>7. CASE Restart
  <2>1. /\ UNCHANGED <<issued, op, live, kube, record, outside>> /\ OpIds' = OpIds
        /\ \A i \in OpIds : op[i].pc # "kcreate"
    BY <1>7 DEF Restart, DownMeansIdle, Running, OpIds, Active, Streamed
  <2>. QED BY <2>1 DEF Latest, Alone, Goal, CreateProgress, DestroyProgress
<1>. QED BY <1>1, <1>2, <1>3, <1>4, <1>5, <1>6, <1>7 DEF Next

\* When nothing else ran beside it, a create or recreate that reports success
\* has left the cluster it built, its context and its spec, and a destroy has
\* left nothing - also after any later commands on other clusters, shutdowns
\* and restarts.
THEOREM SuccessIsReal == Spec => []OkMeansDone
<1>1. Init => OnItsWay /\ Acquainted /\ DoneInv
  BY DEF Init, OnItsWay, Acquainted, DoneInv, DownMeansIdle, LaterMet,
     UnrecordIsDestroys, Progress, SnapsAfter, OpIds
<1>2. DoneInv => OkMeansDone
  BY DEF DoneInv, Progress, Goal, CreateProgress, DestroyProgress, BuiltSteps,
     CleanupSteps, OkMeansDone
<1>3. TypeOK /\ OnItsWay /\ Acquainted /\ DoneInv /\ [Next]_vars => DoneInv'
  BY IdleMetStep, ProgressStep DEF DoneInv
<1>. QED BY <1>1, <1>2, <1>3, InitType, NextType, OnItsWayStep, AcquaintedStep,
            PTL DEF Spec

-----------------------------------------------------------------------------
(* The document: for every set of clusters and every kubeconfig the edits  *)
(* of KubeconfigStore do to the three lists what ClusterOps does to its    *)
(* one entry per cluster.                                                  *)

\* What FileOf shows of a store in each of its lists.
Shown(store) == {Entry(Own, OwnData)} \cup
                {Entry(c, store.entry[c]) : c \in {d \in Clusters : store.entry[d] # None}}

LEMMA FileOfFields ==
    ASSUME NEW store, NEW own
    PROVE  /\ FileOf(store, own) = [lists |-> [l \in Lists |-> Shown(store)],
                                    current |-> FileOf(store, own).current]
           /\ FileOf(store, own).lists = [l \in Lists |-> Shown(store)]
           /\ FileOf(store, own).current = IF store.current = NoCluster THEN own ELSE store.current
BY DEF FileOf, Shown

\* An entry that replaces those of its name, in the shown list, is the
\* entry of the cluster in the store that has it.
LEMMA ReplacedShown ==
    ASSUME NEW store \in Kubeconfigs, NEW c \in Clusters, NEW creds \in Builds \ {None}
    PROVE  Others(Shown(store), {c}) \cup {Entry(c, creds)} = Shown(Upsert(store, c, creds))
<1>. DEFINE after == Upsert(store, c, creds)
<1>1. /\ after.entry[c] = creds /\ creds # None
      /\ \A d \in Clusters \ {c} : after.entry[d] = store.entry[d]
  BY DEF Upsert, Kubeconfigs
<1>2. Own # c
  BY OwnAssumption
<1>. QED BY <1>1, <1>2 DEF Shown, Others, Entry

LEMMA RemovedShown ==
    ASSUME NEW store \in Kubeconfigs, NEW c \in Clusters
    PROVE  Others(Shown(store), {c}) = Shown(Without(store, c))
<1>. DEFINE after == Without(store, c)
<1>1. /\ after.entry[c] = None
      /\ \A d \in Clusters \ {c} : after.entry[d] = store.entry[d]
  BY DEF Without, Kubeconfigs
<1>2. Own # c
  BY OwnAssumption
<1>. QED BY <1>1, <1>2 DEF Shown, Others, Entry

\* Whichever of the lists kind prints, the entry of the cluster is taken.
LEMMA TakenIsTheEntry ==
    ASSUME NEW c \in Clusters, NEW creds \in Builds, NEW output \in KindOutputs(c, creds),
           NEW l \in Lists
    PROVE  Taken(output[l], c) = {Entry(c, creds)}
<1>. DEFINE entry == Entry(c, creds)
<1>1. /\ entry.name = c /\ Entry(Own, creds).name = Own /\ Entry(c, None).name = c /\ Own # c
  BY OwnAssumption DEF Entry
<1>2. CASE output[l] = <<entry>>
  BY <1>1, <1>2 DEF Taken
<1>3. CASE output[l] = <<Entry(Own, creds), entry>>
  BY <1>1, <1>3 DEF Taken
<1>4. CASE output[l] = <<entry, Entry(c, None)>>
  BY <1>1, <1>4 DEF Taken
<1>. QED BY <1>2, <1>3, <1>4 DEF KindOutputs

-----------------------------------------------------------------------------
(* The three edits.                                                        *)

\* Merging the entry of a cluster into each list is storing it.
LEMMA MergeIsUpsert ==
    ASSUME NEW store \in Kubeconfigs, NEW c \in Clusters, NEW creds \in Builds \ {None},
           NEW own
    PROVE  [lists |-> Merge(FileOf(store, own).lists, Triple(c, creds)), current |-> c]
               = FileOf(Upsert(store, c, creds), own)
<1>. DEFINE after == Upsert(store, c, creds)
<1>1. NamesOf({Entry(c, creds)}) = {c}
  BY DEF NamesOf, Entry
<1>2. \A l \in Lists : /\ Triple(c, creds)[l] = {Entry(c, creds)}
                       /\ FileOf(store, own).lists[l] = Shown(store)
  BY FileOfFields DEF Triple
<1>3. Merge(FileOf(store, own).lists, Triple(c, creds)) = [l \in Lists |-> Shown(after)]
  BY <1>1, <1>2, ReplacedShown DEF Merge
<1>4. after.current = c /\ c # NoCluster
  BY OpsAssumption DEF Upsert
<1>. QED BY <1>3, <1>4, FileOfFields

LEMMA ExportExact ==
    ASSUME NEW store \in Kubeconfigs, NEW c \in Clusters, NEW own
    PROVE  ExportIsExact(store, c, own)
<1>. SUFFICES ASSUME NEW creds \in Builds \ {None}
     PROVE  /\ \A output \in KindOutputs(c, creds) :
                 EnsureContextFromKindOutput(FileOf(store, own), c, output)
                    = FileOf(Upsert(store, c, creds), own)
            /\ EnsureContext(FileOf(store, own), c, creds, TRUE)
                    = FileOf(Upsert(store, c, creds), own)
            /\ ContextStatus(FileOf(Upsert(store, c, creds), own), c) = "current"
  BY DEF ExportIsExact
<1>. DEFINE exported == FileOf(Upsert(store, c, creds), own)
<1>1. ASSUME NEW output \in KindOutputs(c, creds)
      PROVE  EnsureContextFromKindOutput(FileOf(store, own), c, output) = exported
  <2>1. [l \in Lists |-> Taken(output[l], c)] = Triple(c, creds)
    BY TakenIsTheEntry DEF Triple
  <2>2. Triple(c, creds)["contexts"] = {Entry(c, creds)} /\ NamesOf({Entry(c, creds)}) = {c}
    BY DEF Triple, Lists, NamesOf, Entry
  <2>3. EnsureContextFromKindOutput(FileOf(store, own), c, output)
          = [lists |-> Merge(FileOf(store, own).lists, Triple(c, creds)),
             current |-> CHOOSE n \in {c} : TRUE]
    BY <2>1, <2>2, Zenon DEF EnsureContextFromKindOutput
  <2>4. (CHOOSE n \in {c} : TRUE) = c
    OBVIOUS
  <2>. QED BY <2>3, <2>4, MergeIsUpsert
<1>2. EnsureContext(FileOf(store, own), c, creds, TRUE) = exported
  BY MergeIsUpsert DEF EnsureContext
<1>3. ContextStatus(exported, c) = "current"
  <2>1. /\ Upsert(store, c, creds).current = c /\ c # NoCluster
        /\ Upsert(store, c, creds).entry[c] = creds /\ creds # None
    BY OpsAssumption DEF Upsert, Kubeconfigs
  <2>2. exported.current = c /\ exported.lists["contexts"] = Shown(Upsert(store, c, creds))
    BY <2>1, FileOfFields DEF Lists
  <2>3. Entry(c, creds) \in Shown(Upsert(store, c, creds)) /\ Entry(c, creds).name = c
    BY <2>1 DEF Shown, Entry
  <2>4. c \in NamesOf(Shown(Upsert(store, c, creds)))
    BY <2>3 DEF NamesOf
  <2>. QED BY <2>2, <2>4 DEF ContextStatus, VerifyContext
<1>. QED BY <1>1, <1>2, <1>3

LEMMA NamesShown ==
    ASSUME NEW store \in Kubeconfigs, NEW c \in Clusters
    PROVE  c \in NamesOf(Shown(store)) <=> store.entry[c] # None
<1>1. ASSUME c \in NamesOf(Shown(store)) PROVE store.entry[c] # None
  BY <1>1, OwnAssumption DEF NamesOf, Shown, Entry
<1>2. ASSUME store.entry[c] # None PROVE c \in NamesOf(Shown(store))
  <2>1. Entry(c, store.entry[c]) \in Shown(store) /\ Entry(c, store.entry[c]).name = c
    BY <1>2 DEF Shown, Entry
  <2>. QED BY <2>1 DEF NamesOf
<1>. QED BY <1>1, <1>2

LEMMA StatusExact ==
    ASSUME NEW store \in Kubeconfigs, NEW c \in Clusters, NEW own \in {Own, Nothing}
    PROVE  StatusIsExact(store, c, own)
<1>1. FileOf(store, own).lists["contexts"] = Shown(store)
  BY FileOfFields DEF Lists
<1>2. FileOf(store, own).current = c <=> store.current = c
  BY FileOfFields, OpsAssumption, OwnAssumption DEF Kubeconfigs
<1>. QED BY <1>1, <1>2, NamesShown DEF StatusIsExact, ContextStatus, VerifyContext

LEMMA RemovalExact ==
    ASSUME NEW store \in Kubeconfigs, NEW c \in Clusters, NEW own \in {Own, Nothing}
    PROVE  RemovalIsExact(store, c, own)
<1>. DEFINE after == Without(store, c)
            left == IF store.current = c THEN Nothing ELSE own
            removed == RemoveContext(FileOf(store, own), c)
<1>1. after \in Kubeconfigs /\ after.entry[c] = None
  BY WithoutType DEF Without, Kubeconfigs
<1>2. removed.lists = [l \in Lists |-> Shown(after)]
  BY FileOfFields, RemovedShown DEF RemoveContext
<1>3. /\ removed.current = IF FileOf(store, own).current = c THEN Nothing
                            ELSE FileOf(store, own).current
      /\ removed = [lists |-> removed.lists, current |-> removed.current]
  BY DEF RemoveContext
<1>4. FileOf(after, left).current = removed.current
  <2>1. after.current = IF store.current = c THEN NoCluster ELSE store.current
    BY DEF Without
  <2>. QED BY <1>3, <2>1, FileOfFields, OpsAssumption, OwnAssumption DEF Kubeconfigs
<1>5. removed = FileOf(after, left)
  BY <1>2, <1>3, <1>4, FileOfFields
<1>6. ContextStatus(removed, c) = "absent"
  BY <1>1, <1>2, NamesShown DEF ContextStatus, VerifyContext, Lists
<1>. QED BY <1>5, <1>6 DEF RemovalIsExact

-----------------------------------------------------------------------------

\* Whatever a kubeconfig holds, an export, a removal and the status of the
\* context do to the three lists, and say of them, exactly what ClusterOps
\* says of the store (kubeconfig.rs; do_check_context).
THEOREM EditsOfEveryStore == \A store \in Kubeconfigs : IsExact(store)
BY ExportExact, RemovalExact, StatusExact DEF IsExact

\* So in every reachable state the edits of the file are exact, whatever was
\* merged and removed before.
THEOREM EditsAlwaysExact == Spec => []EditsAreExact
<1>1. TypeOK => EditsAreExact
  BY EditsOfEveryStore DEF TypeOK, EditsAreExact, ExactStores
<1>. QED BY <1>1, TypeCorrect, PTL
=============================================================================
