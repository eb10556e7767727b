------------------------------- MODULE Wizard -------------------------------
(***************************************************************************)
(* The create wizard (kindboard-app/src/views/wizard.rs and render_wizard  *)
(* of app.rs): a form that is edited field by field in any order, whose    *)
(* spec is validated in every frame.  Fields that are hidden, because of   *)
(* the CNI or the mesh box, keep what was entered in them.                 *)
(***************************************************************************)
EXTENDS ClusterSpec

CONSTANTS
    DefaultService,          \* DEFAULT_SERVICE_CIDR
    PodTexts, ServiceTexts   \* bound: what is typed for the networks

VARIABLES
    open,
    form,      \* WizardState
    created    \* the spec of the CreateCluster command, once it is issued

vars == <<open, form, created>>

NoExtras == [gateway |-> FALSE, hubble |-> FALSE, ingress |-> TRUE, mesh |-> FALSE,
             id |-> 0, name |-> "empty"]

\* WizardState::fresh
Fresh ==
    [name |-> "empty", version |-> "default", cni |-> "kindnet", pod |-> DefaultPod,
     service |-> DefaultService, workers |-> 0, ingress |-> "none", extras |-> NoExtras]

\* The text of the name is trimmed.
Texts == Names \cup {"padded"}
Trim(text) == IF text = "padded" THEN "good" ELSE text

Extras == [gateway : BOOLEAN, hubble : BOOLEAN, ingress : BOOLEAN, mesh : BOOLEAN,
           id : 0..MaxClusterId, name : Names]

Port(n) == [host |-> n, container |-> n]

\* A version that does not parse gives way to the default one.
ToSpec(f) ==
    [name |-> Trim(f.name),
     version |-> IF f.version = "bad" THEN "default" ELSE f.version,
     cni |-> f.cni, pod |-> f.pod, service |-> f.service, workers |-> f.workers,
     ports |-> IF f.ingress \in {"nginx", "traefik"} THEN <<Port(80), Port(443)>> ELSE <<>>,
     ingress |-> f.ingress,
     cilium |-> IF f.cni = "cilium" THEN {f.extras} ELSE {}]

TypeOK ==
    /\ open \in BOOLEAN
    /\ form \in [name : Texts, version : {"default", "bad"}, cni : Cnis,
                pod : {DefaultPod} \cup PodTexts, service : {DefaultService} \cup ServiceTexts,
                workers : 0..MaxWorkers, ingress : Ingresses, extras : Extras]
    /\ \A s \in created : Valid(s)

-----------------------------------------------------------------------------
\* Bound: one cluster is created.
Open ==
    /\ ~open /\ created = {}
    /\ open' = TRUE
    /\ UNCHANGED <<form, created>>

Enter(field, values) ==
    /\ open
    /\ \E v \in values : form' = [form EXCEPT ![field] = v]
    /\ UNCHANGED <<open, created>>

Type ==
    \/ Enter("name", Texts) \/ Enter("version", {"default", "bad"})
    \/ Enter("pod", PodTexts) \/ Enter("service", ServiceTexts)
    \/ Enter("workers", 0..MaxWorkers)

PickCni == Enter("cni", Cnis)

PickIngress ==
    Enter("ingress", IF form.cni = "cilium" THEN Ingresses ELSE Ingresses \ {"cilium"})

Tick ==
    /\ form.cni = "cilium"
    /\ Enter("extras", {[form.extras EXCEPT ![box] = ~form.extras[box]] :
                          box \in {"gateway", "hubble", "ingress"}})

\* The field of the id that the box shows brings the id into its range.
TickMesh ==
    /\ form.cni = "cilium"
    /\ Enter("extras", {[form.extras EXCEPT !.mesh = ~@, !.id = IF @ = 0 THEN 1 ELSE @]})

EnterMesh ==
    /\ form.cni = "cilium" /\ form.extras.mesh
    /\ Enter("extras", {[form.extras EXCEPT !.name = n] : n \in Names}
                       \cup {[form.extras EXCEPT !.id = i] : i \in 1..MaxClusterId})

Edit == Type \/ PickCni \/ PickIngress \/ Tick \/ TickMesh \/ EnterMesh

Enabled == Valid(ToSpec(form)) /\ form.name # "empty"

Create ==
    /\ open /\ Enabled
    /\ created' = {ToSpec(form)}
    /\ open' = FALSE /\ form' = Fresh

Cancel ==
    /\ open
    /\ open' = FALSE /\ form' = Fresh
    /\ UNCHANGED created

Init == open = FALSE /\ form = Fresh /\ created = {}

Next == Open \/ Edit \/ Create \/ Cancel
=============================================================================
