------------------------------ MODULE KubeFile ------------------------------
(***************************************************************************)
(* The kubeconfig of ClusterOps, which has an entry for each cluster and a *)
(* current one, as the file that KubeconfigStore edits (Kubeconfig): three *)
(* lists with an entry of every cluster, beside the user's own.            *)
(***************************************************************************)
EXTENDS ClusterOps, Kubeconfig

CONSTANTS
    Own,          \* the user's own entry in each list
    OwnData       \* what is in it

ASSUME OwnAssumption == Own \notin Clusters /\ Nothing \notin Clusters /\ Own # Nothing

\* The user's current context is lost once an edit has made another current.
FileOf(store, own) ==
    [lists |-> [l \in Lists |-> {Entry(Own, OwnData)} \cup
                                {Entry(c, store.entry[c]) : c \in {d \in Clusters : store.entry[d] # None}}],
     current |-> IF store.current = NoCluster THEN own ELSE store.current]

\* kind prints the entry of the cluster, and could print others beside it.
KindOutputs(c, creds) ==
    LET entry == Entry(c, creds)
    IN  {[l \in Lists |-> list] :
            list \in {<<entry>>, <<Entry(Own, creds), entry>>, <<entry, Entry(c, None)>>}}

-----------------------------------------------------------------------------
(* What each edit makes of the file of a store.                            *)

ExportIsExact(store, c, own) ==
    \A creds \in Builds \ {None} :
        LET file == FileOf(store, own)
            exported == FileOf(Upsert(store, c, creds), own)
        IN  /\ \A output \in KindOutputs(c, creds) :
                 EnsureContextFromKindOutput(file, c, output) = exported
            /\ EnsureContext(file, c, creds, TRUE) = exported
            /\ ContextStatus(exported, c) = "current"

RemovalIsExact(store, c, own) ==
    LET removed == RemoveContext(FileOf(store, own), c)
    IN  /\ removed = FileOf(Without(store, c), IF store.current = c THEN Nothing ELSE own)
        /\ ContextStatus(removed, c) = "absent"

StatusIsExact(store, c, own) ==
    ContextStatus(FileOf(store, own), c) =
        IF store.entry[c] = None THEN "absent"
        ELSE IF store.current = c THEN "current" ELSE "present"

IsExact(store) ==
    \A c \in Clusters, own \in {Own, Nothing} :
        ExportIsExact(store, c, own) /\ RemovalIsExact(store, c, own) /\ StatusIsExact(store, c, own)

\* An image, so that TLC goes through the kubeconfigs once.
ExactStores == {store : store \in {s \in Kubeconfigs : IsExact(s)}}

-----------------------------------------------------------------------------
(* Properties.                                                             *)

\* "Upserts them; same-name entries are replaced, never duplicated.  Does not
\* touch other clusters/users/contexts" (kubeconfig.rs): whatever was merged
\* and removed before, an export of a cluster puts its credentials into all
\* three lists and makes it current, a removal takes all three out and
\* clears what was current, the user's own entries stay as they are, and the
\* tab is told what the file says.
EditsAreExact == kube \in ExactStores
=============================================================================
