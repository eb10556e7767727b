------------------------------ MODULE ClusterOps ------------------------------
(***************************************************************************)
(* The cluster operations of kindboard's core worker                       *)
(* (kindboard-app/src/worker.rs, with the kubeconfig merge of              *)
(* kindboard-core/src/provision/mod.rs).                                   *)
(*                                                                         *)
(* The worker turns every command into a task of its own; tasks interleave *)
(* at every await and, the runtime being multi-threaded, between any two   *)
(* file operations.  create, destroy and recreate own one cancellation     *)
(* token per (kind, cluster) slot; ensure (kubeconfig export) owns none.   *)
(* The tasks share three pieces of the outside world: the clusters `kind`  *)
(* lists, the kubeconfig file, and the stored cluster records.             *)
(*                                                                         *)
(* A spec is named by the command that introduced it, a cluster by the     *)
(* command whose `kind create` built it, and a kubeconfig entry by the     *)
(* cluster whose credentials it holds; 0 stands for "none".                *)
(***************************************************************************)
EXTENDS Naturals

CONSTANTS
    Clusters,      \* cluster names
    NoCluster,     \* the kubeconfig has no current context
    MaxOps,        \* bound: commands the user issues
    MaxRestarts,   \* bound: times the app is started again
    MaxOutside     \* bound: clusters created or deleted outside the app

ASSUME OpsAssumption ==
    /\ NoCluster \notin Clusters
    /\ MaxOps \in Nat /\ MaxRestarts \in Nat /\ MaxOutside \in Nat

None == 0
Foreign == MaxOps + 1            \* a cluster built outside the app
Builds == 0..(MaxOps + 1)
Slotted == {"create", "destroy", "recreate"}
Kinds == Slotted \cup {"ensure"}

VARIABLES
    issued,     \* number of commands issued so far
    op,         \* each command and the progress of its task
    cancelled,  \* the operations whose cancellation token has fired
    slots,      \* the worker's `cancels` map
    live,       \* what `kind get clusters` lists
    kube,       \* the kubeconfig file
    record,     \* the stored spec of each cluster
    config,     \* tmp/kind-<name>.yaml
    up,         \* the app is running
    restarts, outside

vars == <<issued, op, cancelled, slots, live, kube, record, config, up,
          restarts, outside>>
world == <<live, kube, record, config>>
session == <<issued, cancelled, slots, up, restarts, outside>>

Kubeconfigs == [entry : [Clusters -> Builds], current : Clusters \cup {NoCluster}]

Streamed == {"kcreate", "kwait", "deploy"}      \* run_streaming, no deadline
Active == Streamed \cup
          {"precheck", "config", "export", "load", "save", "persist",
           "kdelete", "kreap", "verify", "unload", "unsave", "unrecord"}
Ended == {"ok", "err", "aborted"}

Ops == [kind : Kinds, target : Clusters, spec : 0..MaxOps,
        pc : Active \cup Ended,
        built : 0..MaxOps,      \* the config its `kind create` read
        creds : Builds,         \* what `kind get kubeconfig` printed
        snap : Kubeconfigs,     \* the KubeconfigStore it loaded
        before : 0..MaxOps,     \* history: the record when it was issued
        met : SUBSET Clusters]  \* history: the clusters other tasks were at
                                \* work on while it ran

OpIds == 1..issued

TypeOK ==
    /\ issued \in 0..MaxOps
    /\ op \in [OpIds -> Ops]
    /\ cancelled \subseteq 1..MaxOps
    /\ slots \in [Slotted \X Clusters -> 0..MaxOps]
    /\ live \in [Clusters -> Builds]
    /\ kube \in Kubeconfigs
    /\ record \in [Clusters -> 0..MaxOps]
    /\ config \in [Clusters -> 0..MaxOps]
    /\ up \in BOOLEAN
    /\ restarts \in 0..MaxRestarts
    /\ outside \in 0..MaxOutside

Running(i) == i \in OpIds /\ op[i].pc \in Active
Key(i) == <<op[i].kind, op[i].target>>

-----------------------------------------------------------------------------
(* The kubeconfig: KubeconfigStore::ensure_context_from_kind_output and    *)
(* KubeconfigStore::remove_context on a loaded store.                      *)

Upsert(store, c, creds) == [entry |-> [store.entry EXCEPT ![c] = creds],
                            current |-> c]

\* Slip: the removed context stays the current one.
WithoutEntryOnly(store, c) == [store EXCEPT !.entry[c] = None]

Without(store, c) ==
    [entry |-> [store.entry EXCEPT ![c] = None],
     current |-> IF store.current = c THEN NoCluster ELSE store.current]

-----------------------------------------------------------------------------
(* Commands: the worker's dispatch loop.                                   *)

\* Only clusters the app provisioned before offer a recreate, from the spec
\* of their record or from that spec with another worker count.
Provisioned(c) == {j \in OpIds : /\ op[j].target = c
                                 /\ op[j].kind \in {"create", "recreate"}
                                 /\ op[j].pc = "ok"}

SpecsOffered(k, c) ==
    CASE k = "create" -> {issued + 1}
      [] k = "recreate" -> {op[j].spec : j \in Provisioned(c)} \cup
                           {issued + 1 : j \in Provisioned(c)}
      [] OTHER -> {None}

FirstStep == [create |-> "precheck", destroy |-> "kdelete",
              recreate |-> "kdelete", ensure |-> "load"]

\* Slip: the replaced token never fires.
NoTokens(keys) == {}

\* The tokens the map holds under some keys.
Tokens(keys) == {slots[key] : key \in keys} \ {None}

KeysOf(c) == {<<k, c>> : k \in Slotted}

NewOp(k, c, s) ==
    [kind |-> k, target |-> c, spec |-> s, pc |-> FirstStep[k], built |-> None,
     creds |-> None, snap |-> kube, before |-> record[c],
     met |-> {op[j].target : j \in {n \in OpIds : Running(n)}}]

Meets(i, c) == IF Running(i) THEN [op[i] EXCEPT !.met = @ \cup {c}] ELSE op[i]

\* run_loop hands the command to a fresh task; op_token replaces the token
\* of the slot and cancels the one it replaces.
Issue(k, c) ==
    /\ up /\ issued < MaxOps
    /\ \E s \in SpecsOffered(k, c) :
          op' = [i \in 1..(issued + 1) |-> IF i > issued THEN NewOp(k, c, s) ELSE Meets(i, c)]
    /\ issued' = issued + 1
    /\ IF k \in Slotted
       THEN /\ slots' = [slots EXCEPT ![<<k, c>>] = issued + 1]
            /\ cancelled' = cancelled \cup Tokens({<<k, c>>})
       ELSE UNCHANGED <<slots, cancelled>>
    /\ UNCHANGED <<live, kube, record, config, up, restarts, outside>>

\* CancelOp removes and fires the tokens of all three slots of the cluster.
CancelOp(c) ==
    /\ up /\ \E key \in KeysOf(c) : slots[key] # None
    /\ cancelled' = cancelled \cup Tokens(KeysOf(c))
    /\ slots' = [key \in Slotted \X Clusters |->
                   IF key \in KeysOf(c) THEN None ELSE slots[key]]
    /\ UNCHANGED <<issued, op, live, kube, record, config, up, restarts, outside>>

-----------------------------------------------------------------------------
(* The steps of a task.                                                    *)

To(i, step) == op' = [op EXCEPT ![i].pc = step]

\* The check between the steps of a plan, and the token attached to a
\* command: neither starts nor succeeds once the token has fired.
Alive(i) == i \notin cancelled

\* do_create: `kind get clusters`; when the listing fails, creation goes on.
Precheck(i) ==
    /\ op[i].pc = "precheck"
    /\ \/ live[op[i].target] # None /\ To(i, "err")
       \/ To(i, "config")
    /\ UNCHANGED <<world, session>>

\* Slip: a config left by an earlier operation is kept.
WriteConfigOnce(i) ==
    /\ op[i].pc = "config" /\ Alive(i)
    /\ config' = [config EXCEPT ![op[i].target] = IF @ = None THEN op[i].spec ELSE @]
    /\ To(i, "kcreate")
    /\ UNCHANGED <<live, kube, record, session>>

WriteConfig(i) ==
    /\ op[i].pc = "config" /\ Alive(i)
    /\ config' = [config EXCEPT ![op[i].target] = op[i].spec]
    /\ To(i, "kcreate")
    /\ UNCHANGED <<live, kube, record, session>>

\* `kind create cluster --config`: refuses a name that exists, otherwise the
\* cluster is listed from the moment its first container is.
KindCreate(i) ==
    /\ op[i].pc = "kcreate" /\ Alive(i)
    /\ live[op[i].target] = None
    /\ live' = [live EXCEPT ![op[i].target] = i]
    /\ op' = [op EXCEPT ![i].pc = "kwait", ![i].built = config[op[i].target]]
    /\ UNCHANGED <<kube, record, config, session>>

\* kind may write its own context into the same kubeconfig.
KindCreated(i) ==
    /\ op[i].pc = "kwait" /\ Alive(i)
    /\ live[op[i].target] = i
    /\ kube' \in {kube, Upsert(kube, op[i].target, i)}
    /\ To(i, "export")
    /\ UNCHANGED <<live, record, config, session>>

\* Failed or killed: kind removes the nodes it started, or leaves them.
KindCreateFails(i) ==
    /\ op[i].pc = "kwait"
    /\ \/ live' = live
       \/ /\ live[op[i].target] = i
          /\ live' = [live EXCEPT ![op[i].target] = None]
    /\ To(i, "err")
    /\ UNCHANGED <<kube, record, config, session>>

\* ExportAndMergeKubeconfig exports, loads, saves; do_ensure_context loads,
\* exports, saves.
Export(i) ==
    /\ op[i].pc = "export" /\ Alive(i)
    /\ live[op[i].target] # None
    /\ op' = [op EXCEPT ![i].creds = live[op[i].target],
                        ![i].pc = IF op[i].kind = "ensure" THEN "save" ELSE "load"]
    /\ UNCHANGED <<world, session>>

Load(i) ==
    /\ op[i].pc = "load"
    /\ op' = [op EXCEPT ![i].snap = kube,
                        ![i].pc = IF op[i].kind = "ensure" THEN "export" ELSE "save"]
    /\ UNCHANGED <<world, session>>

Save(i) ==
    /\ op[i].pc = "save"
    /\ kube' = Upsert(op[i].snap, op[i].target, op[i].creds)
    /\ To(i, IF op[i].kind = "ensure" THEN "ok" ELSE "deploy")
    /\ UNCHANGED <<live, record, config, session>>

\* The CNI and ingress chains and the final verification, all of them
\* kubectl, helm or cilium commands against the context of the cluster.
Deploy(i) ==
    /\ op[i].pc = "deploy" /\ Alive(i)
    /\ live[op[i].target] # None
    /\ kube.entry[op[i].target] = live[op[i].target]
    /\ To(i, "persist")
    /\ UNCHANGED <<world, session>>

Persist(i) ==
    /\ op[i].pc = "persist"
    /\ record' = [record EXCEPT ![op[i].target] = op[i].spec]
    /\ To(i, "ok")
    /\ UNCHANGED <<live, kube, config, session>>

\* destroy_phase.  `kind delete` removes the nodes (and perhaps the context)
\* and then exits; its exit counts only if the token has not fired.
KindDelete(i) ==
    /\ op[i].pc = "kdelete"
    /\ live' = [live EXCEPT ![op[i].target] = None]
    /\ kube' \in {kube, Without(kube, op[i].target)}
    /\ To(i, "kreap")
    /\ UNCHANGED <<record, config, session>>

KindDeleted(i) ==
    /\ op[i].pc = "kreap" /\ Alive(i)
    /\ To(i, "unload")
    /\ UNCHANGED <<world, session>>

KindDeleteFails(i) ==
    /\ op[i].pc \in {"kdelete", "kreap"}
    /\ To(i, IF Alive(i) THEN "verify" ELSE "err")
    /\ UNCHANGED <<world, session>>

\* `kind delete` failed: only a listing without the cluster lets the
\* cleanup continue.
\* Slip: any failure of `kind delete` counts as "already gone".
VerifyNothing(i) ==
    /\ op[i].pc = "verify"
    /\ To(i, "unload")
    /\ UNCHANGED <<world, session>>

VerifyGone(i) ==
    /\ op[i].pc = "verify"
    /\ live[op[i].target] = None
    /\ To(i, "unload")
    /\ UNCHANGED <<world, session>>

Unload(i) ==
    /\ op[i].pc = "unload"
    /\ op' = [op EXCEPT ![i].snap = kube, ![i].pc = "unsave"]
    /\ UNCHANGED <<world, session>>

\* Slips: a recreate drops the record with the context; a destroy keeps it.
UnsaveAndUnrecord(i) ==
    /\ op[i].pc = "unsave"
    /\ kube' = Without(op[i].snap, op[i].target)
    /\ record' = [record EXCEPT ![op[i].target] = None]
    /\ To(i, IF op[i].kind = "destroy" THEN "unrecord" ELSE "config")
    /\ UNCHANGED <<live, config, session>>

UnsaveOnly(i) ==
    /\ op[i].pc = "unsave"
    /\ kube' = Without(op[i].snap, op[i].target)
    /\ To(i, IF op[i].kind = "destroy" THEN "ok" ELSE "config")
    /\ UNCHANGED <<live, record, config, session>>

Unsave(i) ==
    /\ op[i].pc = "unsave"
    /\ kube' = Without(op[i].snap, op[i].target)
    /\ To(i, IF op[i].kind = "destroy" THEN "unrecord" ELSE "config")
    /\ UNCHANGED <<live, record, config, session>>

Unrecord(i) ==
    /\ op[i].pc = "unrecord"
    /\ record' = [record EXCEPT ![op[i].target] = None]
    /\ To(i, "ok")
    /\ UNCHANGED <<live, kube, config, session>>

\* A command that exits non-zero, times out or is cancelled, or a file
\* operation that fails, ends the operation; nothing is rolled back.
\* Slip: the record is saved whether or not the plan succeeded.
FailAndPersist(i) ==
    /\ op[i].pc = "deploy"
    /\ record' = [record EXCEPT ![op[i].target] = op[i].spec]
    /\ To(i, "err")
    /\ UNCHANGED <<live, kube, config, session>>

Fail(i) ==
    /\ op[i].pc \in Active \ {"precheck", "kwait", "kdelete", "kreap"}
    /\ To(i, "err")
    /\ UNCHANGED <<world, session>>

Step(i) ==
    \/ Precheck(i) \/ WriteConfig(i) \/ KindCreate(i) \/ KindCreated(i)
    \/ KindCreateFails(i) \/ Export(i) \/ Load(i) \/ Save(i) \/ Deploy(i)
    \/ Persist(i) \/ KindDelete(i) \/ KindDeleted(i) \/ KindDeleteFails(i)
    \/ VerifyGone(i) \/ Unload(i) \/ Unsave(i) \/ Unrecord(i) \/ Fail(i)

-----------------------------------------------------------------------------
(* The environment, shutdown and restart.                                  *)

Outside(c) ==
    /\ outside < MaxOutside
    /\ live' = [live EXCEPT ![c] = IF live[c] = None THEN Foreign ELSE None]
    /\ outside' = outside + 1
    /\ UNCHANGED <<issued, op, cancelled, slots, kube, record, config, up, restarts>>

\* The end of run_loop: the token map is dropped and every task aborted; an
\* aborted task drops its ProcessHandle, which kills the subprocess.
Shutdown ==
    /\ up /\ up' = FALSE
    /\ op' = [i \in OpIds |-> IF Running(i) THEN [op[i] EXCEPT !.pc = "aborted"]
                                            ELSE op[i]]
    /\ slots' = [key \in Slotted \X Clusters |-> None]
    /\ UNCHANGED <<issued, cancelled, world, restarts, outside>>

\* Startup cleans tmp/.
Restart ==
    /\ ~up /\ restarts < MaxRestarts
    /\ up' = TRUE /\ restarts' = restarts + 1
    /\ config' = [c \in Clusters |-> None]
    /\ UNCHANGED <<issued, op, cancelled, slots, live, kube, record, outside>>

Init ==
    /\ issued = 0
    /\ live \in [Clusters -> {None, Foreign}]
    /\ kube = [entry |-> live, current |-> NoCluster]
    /\ record = [c \in Clusters |-> None]
    /\ config = [c \in Clusters |-> None]
    /\ op = << >>
    /\ cancelled = {}
    /\ slots = [key \in Slotted \X Clusters |-> None]
    /\ up = TRUE /\ restarts = 0 /\ outside = 0

Next ==
    \/ \E k \in Kinds, c \in Clusters : Issue(k, c)
    \/ \E c \in Clusters : CancelOp(c)
    \/ \E i \in OpIds : Step(i)
    \/ \E c \in Clusters : Outside(c)
    \/ Shutdown
    \/ Restart

Spec == Init /\ [][Next]_vars

-----------------------------------------------------------------------------
(* Properties.                                                             *)

\* The Cancel button can always reach an operation that is still running:
\* as long as its token has not fired, the worker's map holds it in its slot.
\* So at most one operation of a kind and cluster runs uncancelled, whatever
\* is issued, replaced and cancelled while tasks finish in any order
\* (run_loop, op_token).
RunningOpIsCancellable ==
    \A i \in OpIds : Running(i) /\ op[i].kind \in Slotted /\ i \notin cancelled
                        => slots[Key(i)] = i

\* A stored record always holds the spec of a create or recreate whose whole
\* plan succeeded (do_create, do_recreate): no failed, cancelled or aborted
\* operation leaves its spec behind, whatever ran beside it.
RecordsComeFromCompletedPlans ==
    \A c \in Clusters : record[c] # None =>
        \E i \in OpIds : /\ op[i].target = c /\ op[i].spec = record[c]
                         /\ op[i].kind \in {"create", "recreate"}
                         /\ op[i].pc = "ok"

\* current-context never names a context the file does not hold, although
\* several tasks (and kind) rewrite the whole file from stores they loaded
\* earlier (KubeconfigStore::remove_context clears it).
CurrentHasEntry == kube.current # NoCluster => kube.entry[kube.current] # None

\* The operation that had the last word on its cluster; nobody else was at
\* work on the cluster, on any cluster, while it ran.
Latest(i) == \A j \in OpIds : j > i => op[j].target # op[i].target
Undisturbed(i) == op[i].target \notin op[i].met /\ outside = 0
Alone(i) == op[i].met = {} /\ outside = 0

\* A create or recreate that reports success leaves the cluster it built
\* listed, built from the spec it stores, with a context that reaches it; a
\* destroy leaves no cluster, no context and no record, whatever earlier
\* operations failed, were cancelled or were aborted halfway - when no other
\* command ran meanwhile (one on another cluster is enough to lose the
\* context: ExportTouchesOnlyItsContext).
OkMeansDone ==
    \A i \in OpIds : Latest(i) /\ Alone(i) /\ op[i].pc = "ok" =>
        LET c == op[i].target IN
        /\ op[i].kind \in {"create", "recreate"} =>
             /\ live[c] = i /\ kube.entry[c] = i
             /\ record[c] = op[i].spec /\ op[i].built = op[i].spec
        /\ op[i].kind = "destroy" =>
             live[c] = None /\ kube.entry[c] = None /\ record[c] = None

\* "a failed recreate never mutates the stored spec until the new cluster is
\* up" (docs/architecture.md, 6): until an operation has succeeded the record
\* is the one it found, also across a shutdown in the middle and whatever
\* runs on other clusters.
StoredSpecUntouched ==
    \A i \in OpIds : Latest(i) /\ Undisturbed(i) /\ op[i].pc # "ok"
                        => record[op[i].target] = op[i].before

\* The context and the record are only cleaned up once the cluster is gone:
\* a `kind delete` that failed or was cancelled stops the operation first
\* (destroy_phase).
CleanupOnlyWhenGone ==
    \A i \in OpIds : op[i].pc \in {"unload", "unsave", "unrecord"} /\ Undisturbed(i)
                        => live[op[i].target] = None

\* kubeconfig.rs on ensure_context_from_kind_output: "Does not touch other
\* clusters/users/contexts."  An export changes the entry of its own cluster
\* only.
ExportTouchesOnlyItsContext ==
    [][\A i \in OpIds, c \in Clusters :
          op[i].kind = "ensure" /\ op[i].pc = "save" /\ op'[i].pc = "ok"
             /\ c # op[i].target
          => kube'.entry[c] = kube.entry[c]]_vars
=============================================================================
