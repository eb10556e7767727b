----------------------------- MODULE Kubeconfig -----------------------------
(***************************************************************************)
(* What KubeconfigStore does to a kubeconfig (kindboard-core,              *)
(* kubeconfig.rs): its three lists of named entries and the name of the    *)
(* current context.                                                        *)
(*                                                                         *)
(* A list that is stored is a set here: no edit depends on its order.  The *)
(* lists that `kind get kubeconfig` prints are sequences: of them the      *)
(* first entry counts.  `name` stands for kind_context_name of a cluster,  *)
(* which is a prefix and the cluster's name.                               *)
(***************************************************************************)
EXTENDS Naturals, Sequences

CONSTANT Nothing       \* no current context

Lists == {"clusters", "users", "contexts"}

\* Of all that an entry has, what the edits look at, and the rest.
Entry(name, data) == [name |-> name, data |-> data]
NamesOf(entries) == {e.name : e \in entries}
Others(entries, names) == {e \in entries : e.name \notin names}

\* Slip: kube-rs's own merge, "first-wins", keeps stale entries.
MergeFirstWins(lists, next) ==
    [l \in Lists |-> lists[l] \cup Others(next[l], NamesOf(lists[l]))]

Merge(lists, next) ==
    [l \in Lists |-> Others(lists[l], NamesOf(next[l])) \cup next[l]]

\* take_entry and find: the first entry of the name, or else the first of all.
Taken(entries, name) ==
    LET named == {i \in DOMAIN entries : entries[i].name = name}
    IN  IF named # {} THEN {entries[i] : i \in {j \in named : \A k \in named : j <= k}}
        ELSE {entries[i] : i \in DOMAIN entries \cap {1}}

EnsureContextFromKindOutput(file, name, output) ==
    LET next == [l \in Lists |-> Taken(output[l], name)]
    IN  [lists |-> Merge(file.lists, next),
         current |-> IF next["contexts"] = {} THEN file.current
                     ELSE CHOOSE n \in NamesOf(next["contexts"]) : TRUE]

\* The cluster, user and context of a name.
Triple(name, data) == [l \in Lists |-> {Entry(name, data)}]

\* A server that is no https URL is refused, and nothing changes.
EnsureContext(file, name, data, https) ==
    IF ~https THEN file
    ELSE [lists |-> Merge(file.lists, Triple(name, data)), current |-> name]

\* Slip: only the context goes.
RemoveContextOnly(file, name) ==
    [lists |-> [file.lists EXCEPT !["contexts"] = Others(@, {name})],
     current |-> IF file.current = name THEN Nothing ELSE file.current]

RemoveContext(file, name) ==
    [lists |-> [l \in Lists |-> Others(file.lists[l], {name})],
     current |-> IF file.current = name THEN Nothing ELSE file.current]

VerifyContext(file, name) == name \in NamesOf(file.lists["contexts"])

\* do_check_context
ContextStatus(file, name) ==
    CASE ~VerifyContext(file, name) -> "absent"
      [] VerifyContext(file, name) /\ file.current = name -> "current"
      [] OTHER -> "present"
=============================================================================
