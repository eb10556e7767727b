------------------------------ MODULE Provision ------------------------------
(***************************************************************************)
(* The execution of create plans (CreatePlan): run_plan and execute_step   *)
(* of kindboard-core/src/provision/mod.rs.                                 *)
(*                                                                         *)
(* A plan is a chain: each step depends on the one before it, so run_plan  *)
(* executes it as it is written (TopologicalSort).  Runs are of one        *)
(* cluster name: a create and a recreate have tasks of their own, and      *)
(* share the cluster and the files below tmp/, whose names derive from the *)
(* cluster's.  Subprocesses end by themselves or by the token (Exec); the  *)
(* kubeconfig is modelled in ClusterOps.                                   *)
(***************************************************************************)
EXTENDS Naturals, Sequences, FiniteSets, CreatePlan

CONSTANTS
    Runs,
    Specs,        \* the specs that runs provision
    None,
    MaxPolls,     \* bound: looks at the CRD before its deadline
    MaxDeletes    \* bound: deletions of the cluster

ASSUME ProvisionAssumption ==
    /\ None \notin Runs /\ MaxPolls \in Nat /\ MaxDeletes \in Nat
    /\ Specs \subseteq [cni : {"kindnet", "flannel", "calico", "cilium"}, ownCidr : BOOLEAN,
                        gateway : BOOLEAN, hubble : BOOLEAN, mesh : BOOLEAN,
                        ingress : {"none", "cilium", "nginx", "traefik"}]

VARIABLES
    stage, spec, at,    \* of each run: where it is in its plan
    polls,              \* looks at the CRD so far
    cancelled,          \* the runs whose token fired
    log,                \* the events each run has sent
    file,               \* the files of the cluster below tmp/
    cluster,            \* the run whose config the cluster was created from
    applied,            \* what the cluster was given
    crds,               \* CRDs the cluster knows
    deletes,
    cancelAt,           \* history: the step at which the token fired
    disturbed           \* history: runs that met another run or a deletion

run == <<stage, spec, at, polls, cancelled, log>>
world == <<file, cluster, applied, crds, deletes>>
history == <<cancelAt, disturbed>>
vars == <<stage, spec, at, polls, cancelled, log, file, cluster, applied, crds, deletes,
          cancelAt, disturbed>>

-----------------------------------------------------------------------------
Plans == [s \in Specs |-> Plan(s)]
Current(r) == Plans[spec[r]][at[r]]
Active(r) == stage[r] \notin {"waiting", "ok", "failed"}

Paths == {"config", "flannel", "patched", "operator", "cr", "gateway", "nginx"}

\* A file holds what its URL is pinned to, something else, or what a run wrote.
Contents == {"absent", "partial", "pinned", "other"} \cup Runs
Manifests == [path : Paths, content : Contents] \cup {[path |-> "cilium", content |-> "pinned"]}
Events == [is : {"started", "finished", "failed", "success", "failure"}, step : Nat]

TypeOK ==
    /\ stage \in [Runs -> {"waiting", "check", "start", "act", "busy", "digest", "verify",
                           "finish", "ok", "failed"}]
    /\ spec \in [Runs -> Specs \cup {None}] /\ at \in [Runs -> Nat]
    /\ \A r \in Runs : Active(r) => spec[r] \in Specs /\ at[r] \in DOMAIN Plans[spec[r]]
    /\ polls \in [Runs -> 0..MaxPolls] /\ cancelled \subseteq Runs
    /\ log \in [Runs -> Seq(Events)]
    /\ file \in [Paths -> Contents] /\ cluster \in Contents \cup {None}
    /\ applied \subseteq Manifests /\ crds \subseteq {"calico", "gateway"}
    /\ deletes \in 0..MaxDeletes
    /\ cancelAt \in [Runs -> Nat] /\ disturbed \subseteq Runs

To(r, next) == stage' = [stage EXCEPT ![r] = next]
Doing(r, do) == stage[r] = "act" /\ Current(r).do = do
Sent(r, is) == [is |-> is, step |-> at[r]]
Send(r, is) == log' = [log EXCEPT ![r] = Append(@, Sent(r, is))]

\* A step whose action is done is verified, if there is something to verify.
Done(r) == To(r, IF Current(r).verify THEN "verify" ELSE "finish")

-----------------------------------------------------------------------------
(* run_plan                                                                *)

Begin(r, s) ==
    /\ stage[r] = "waiting"
    /\ spec' = [spec EXCEPT ![r] = s] /\ at' = [at EXCEPT ![r] = 1] /\ To(r, "check")
    /\ disturbed' = disturbed \cup
         (IF \E q \in Runs : Active(q) THEN {r} \cup {q \in Runs : Active(q)} ELSE {})
    /\ UNCHANGED <<polls, cancelled, log, world, cancelAt>>

CheckToken(r) ==
    /\ stage[r] = "check"
    /\ \/ r \in cancelled /\ To(r, "failed") /\ Send(r, "failure")
       \/ r \notin cancelled /\ To(r, "start") /\ UNCHANGED log
    /\ UNCHANGED <<spec, at, polls, cancelled, world, history>>

Start(r) ==
    /\ stage[r] = "start" /\ To(r, "act") /\ Send(r, "started")
    /\ polls' = [polls EXCEPT ![r] = 0]
    /\ UNCHANGED <<spec, at, cancelled, world, history>>

Finish(r) ==
    /\ stage[r] = "finish"
    /\ IF at[r] < Len(Plans[spec[r]])
         THEN To(r, "check") /\ at' = [at EXCEPT ![r] = @ + 1] /\ Send(r, "finished")
         ELSE /\ To(r, "ok") /\ UNCHANGED at
              /\ log' = [log EXCEPT ![r] = @ \o <<Sent(r, "finished"), Sent(r, "success")>>]
    /\ UNCHANGED <<spec, polls, cancelled, world, history>>

\* Slip: the end of the plan is not announced.
FailQuietly(r) == To(r, "failed") /\ Send(r, "failed") /\ UNCHANGED <<spec, at, polls, cancelled>>

Fail(r) ==
    /\ To(r, "failed")
    /\ log' = [log EXCEPT ![r] = @ \o <<Sent(r, "failed"), Sent(r, "failure")>>]
    /\ UNCHANGED <<spec, at, polls, cancelled>>

-----------------------------------------------------------------------------
(* execute_step                                                            *)

Proceed(r) == UNCHANGED <<spec, at, polls, cancelled, log, deletes, history>>

\* WriteFile does not look at the token.
WritesFile(r) ==
    /\ Doing(r, "write")
    /\ file' = [file EXCEPT ![Current(r).path] = r] /\ Done(r)
    /\ Proceed(r) /\ UNCHANGED <<cluster, applied, crds>>

\* PatchFlannel reads the manifest and writes a copy with the spec's network;
\* it fails if the manifest does not have the line, as another one may not.
Patches(r) ==
    /\ Doing(r, "patch") /\ file["flannel"] # "absent"
    /\ file' = [file EXCEPT !["patched"] = IF file["flannel"] = "pinned" THEN r ELSE "other"]
    /\ Done(r)
    /\ Proceed(r) /\ UNCHANGED <<cluster, applied, crds>>

\* curl -o creates or truncates the file.
DownloadStarts(r) ==
    /\ Doing(r, "download")
    /\ file' = [file EXCEPT ![Current(r).path] = "partial"] /\ To(r, "busy")
    /\ Proceed(r) /\ UNCHANGED <<cluster, applied, crds>>

DownloadEnds(r) ==
    /\ stage[r] = "busy" /\ r \notin cancelled
    /\ \E content \in {"pinned", "other"} : file' = [file EXCEPT ![Current(r).path] = content]
    /\ To(r, "digest")
    /\ Proceed(r) /\ UNCHANGED <<cluster, applied, crds>>

\* Slip: the digest is not compared.
DigestIgnored(r) ==
    /\ stage[r] = "digest" /\ Done(r)
    /\ Proceed(r) /\ UNCHANGED <<file, cluster, applied, crds>>

DigestMatches(r) ==
    /\ stage[r] = "digest" /\ file[Current(r).path] = "pinned" /\ Done(r)
    /\ Proceed(r) /\ UNCHANGED <<file, cluster, applied, crds>>

DigestDiffers(r) ==
    /\ stage[r] = "digest" /\ file[Current(r).path] # "pinned"
    /\ file' = [file EXCEPT ![Current(r).path] = "absent"] /\ Fail(r)
    /\ UNCHANGED <<cluster, applied, crds, deletes, history>>

\* kubectl apply reads the file.  An Installation needs the operator's CRD.
Applies(r) ==
    /\ Doing(r, "apply") /\ r \notin cancelled
    /\ cluster # None /\ file[Current(r).path] # "absent"
    /\ Current(r).path = "cr" => "calico" \in crds
    /\ applied' = applied \cup {[path |-> Current(r).path, content |-> file[Current(r).path]]}
    /\ crds' = IF Current(r).path = "gateway" THEN crds \cup {"gateway"} ELSE crds
    /\ Done(r)
    /\ Proceed(r) /\ UNCHANGED <<file, cluster>>

KindCreates(r) ==
    /\ Doing(r, "command") /\ Current(r).id = "kind-create" /\ r \notin cancelled
    /\ cluster = None /\ file["config"] # "absent"
    /\ cluster' = file["config"] /\ Done(r)
    /\ Proceed(r) /\ UNCHANGED <<file, applied, crds>>

HasCni(s) ==
    CASE s.cni = "kindnet" -> TRUE
      [] s.cni = "flannel" -> \E m \in applied : m.path \in {"flannel", "patched"}
      [] s.cni = "calico" -> \E m \in applied : m.path = "cr"
      [] s.cni = "cilium" -> \E m \in applied : m.path = "cilium"

\* Every other command works on the cluster; the last one waits for its nodes.
CommandWorks(r) ==
    /\ Doing(r, "command") /\ Current(r).id # "kind-create" /\ r \notin cancelled
    /\ cluster # None /\ (Current(r).id = "final-verify" => HasCni(spec[r]))
    /\ applied' = IF Current(r).id = "cni-cilium-install"
                    THEN applied \cup {[path |-> "cilium", content |-> "pinned"]} ELSE applied
    /\ Done(r)
    /\ Proceed(r) /\ UNCHANGED <<file, cluster, crds>>

CrdIsThere(r) ==
    /\ Doing(r, "wait") /\ r \notin cancelled /\ cluster # None /\ "calico" \in crds
    /\ Done(r)
    /\ Proceed(r) /\ UNCHANGED <<file, cluster, applied, crds>>

\* Slip: the deadline is not looked at.
PollsOn(r) ==
    /\ Doing(r, "wait") /\ r \notin cancelled /\ (cluster = None \/ "calico" \notin crds)
    /\ UNCHANGED <<run, world, history>>

\* The CRD is not there: kubectl fails, and is asked again until the deadline.
Polls(r) ==
    /\ Doing(r, "wait") /\ r \notin cancelled /\ (cluster = None \/ "calico" \notin crds)
    /\ IF polls[r] < MaxPolls
         THEN /\ polls' = [polls EXCEPT ![r] = @ + 1]
              /\ UNCHANGED <<stage, spec, at, cancelled, log>>
         ELSE Fail(r)
    /\ UNCHANGED <<world, history>>

\* The nodes are ready, or cilium is.
Verifies(r) ==
    /\ stage[r] = "verify" /\ r \notin cancelled /\ cluster # None /\ HasCni(spec[r])
    /\ To(r, "finish")
    /\ Proceed(r) /\ UNCHANGED <<file, cluster, applied, crds>>

\* A call fails, or ends by the token.  (A hung one is modelled in Exec.)
StepFails(r) ==
    /\ stage[r] \in {"act", "busy", "verify"} /\ Fail(r)
    /\ Current(r).do = "wait" => r \in cancelled
    /\ UNCHANGED <<world, history>>

\* kubectl is missing or hangs: the wait ends before its deadline.
ProbeFails(r) ==
    /\ Doing(r, "wait") /\ Fail(r)
    /\ UNCHANGED <<world, history>>

ExecuteStep(r) ==
    \/ WritesFile(r) \/ Patches(r) \/ DownloadStarts(r) \/ DownloadEnds(r)
    \/ DigestMatches(r) \/ DigestDiffers(r) \/ Applies(r) \/ KindCreates(r)
    \/ CommandWorks(r) \/ CrdIsThere(r) \/ Polls(r) \/ Verifies(r) \/ StepFails(r)

RunPlan(r) == CheckToken(r) \/ Start(r) \/ ExecuteStep(r) \/ Finish(r)

-----------------------------------------------------------------------------
(* The rest of the program and the cluster.                                *)

Cancel(r) ==
    /\ Active(r) /\ r \notin cancelled
    /\ cancelled' = cancelled \cup {r} /\ cancelAt' = [cancelAt EXCEPT ![r] = at[r]]
    /\ UNCHANGED <<stage, spec, at, polls, log, world, disturbed>>

\* The destroy phase of another operation, or the user.
Deleted ==
    /\ cluster # None /\ deletes < MaxDeletes /\ deletes' = deletes + 1
    /\ cluster' = None /\ applied' = {} /\ crds' = {}
    /\ disturbed' = disturbed \cup {r \in Runs : Active(r)}
    /\ UNCHANGED <<run, file, cancelAt>>

\* The operator's pod starts and registers its CRDs.
CrdRegisters ==
    /\ cluster # None /\ "calico" \notin crds /\ \E m \in applied : m.path = "operator"
    /\ crds' = crds \cup {"calico"}
    /\ UNCHANGED <<run, file, cluster, applied, deletes, history>>

Init ==
    /\ stage = [r \in Runs |-> "waiting"] /\ spec = [r \in Runs |-> None]
    /\ at = [r \in Runs |-> 0] /\ polls = [r \in Runs |-> 0] /\ cancelled = {}
    /\ log = [r \in Runs |-> <<>>]
    /\ file = [p \in Paths |-> "absent"] /\ cluster = None /\ applied = {} /\ crds = {}
    /\ deletes = 0 /\ cancelAt = [r \in Runs |-> 0] /\ disturbed = {}

Next ==
    \/ \E r \in Runs : (\E s \in Specs : Begin(r, s)) \/ RunPlan(r) \/ ProbeFails(r) \/ Cancel(r)
    \/ Deleted \/ CrdRegisters

Spec == Init /\ [][Next]_vars

\* The worker's tasks are scheduled.  That the look at the CRD fails for another
\* reason than its absence is not counted upon.
FairSpec == Spec /\ \A r \in Runs : WF_vars(RunPlan(r))

-----------------------------------------------------------------------------
(* Properties.                                                             *)

Over(r) == stage[r] \in {"ok", "failed"}

\* ProvisionEvent: a step that started is finished or failed before another
\* one starts, and PlanFinished is "sent exactly once, after the last step or
\* on abort": true after every step of the plan, and never before the end.
\* Once the token has fired at most one more step begins (it fires between
\* the look at it and the step); none follows that.
EventsTellTheRun ==
    \A r \in Runs : LET events == log[r] IN
        /\ \A k \in DOMAIN events :
             /\ events[k].is = "started" /\ k < Len(events) =>
                  events[k + 1].is \in {"finished", "failed"} /\ events[k + 1].step = events[k].step
             /\ events[k].is \in {"success", "failure"} => k = Len(events)
        /\ Over(r) <=> events # <<>> /\ events[Len(events)].is \in {"success", "failure"}
        /\ stage[r] = "ok" =>
             {e.step : e \in {events[k] : k \in DOMAIN events}} = DOMAIN Plans[spec[r]]
        /\ r \in cancelled => at[r] <= cancelAt[r] + 1

\* Every manifest that reaches a cluster is the one its digest is pinned to,
\* or what the run itself wrote: the file that was checked is the file that
\* is applied, unless another run of the name writes the same files.
AppliedWasChecked ==
    [][\A r \in Runs \ disturbed :
          Applies(r) => \A m \in applied' \ applied : m.content \in {"pinned", r}]_vars

\* "The Installation CR must not be applied before the CRD exists", and "the
\* Gateway API CRDs must be applied before the base install" (provision/mod.rs).
CrdsComeFirst ==
    \A r \in Runs \ disturbed :
        /\ Doing(r, "apply") /\ Current(r).path = "cr" => "calico" \in crds
        /\ Doing(r, "command") /\ Current(r).id = "cni-cilium-install" /\ spec[r].gateway
             => "gateway" \in crds

\* A plan that reports success has made the cluster of its own config, with
\* its CNI, its ingress controller and its gateway CRDs.
SuccessIsComplete ==
    [][\A r \in Runs \ disturbed : Finish(r) /\ stage'[r] = "ok" =>
          /\ cluster = r /\ HasCni(spec[r])
          /\ \A k \in DOMAIN Plans[spec[r]] :
               Plans[spec[r]][k].do = "apply" =>
                 \E m \in applied : m.path = Plans[spec[r]][k].path /\ m.content \in {"pinned", r}]_vars

\* Every plan ends: the CRD is not waited for without end.  (A run begins
\* once, so that no run is under way again and again if each one ends.)
PlanEnds == []<>(\A r \in Runs : ~Active(r))
=============================================================================
