----------------------------- MODULE Dashboard -----------------------------
(***************************************************************************)
(* The tab of a cluster: how its snapshots come onto the screen (Topology) *)
(* and what it draws of them (Diagram).                                    *)
(***************************************************************************)
EXTENDS Topology, Diagram

CONSTANT Collapses   \* the sets of namespaces that the user has collapsed before

\* What a fetch makes of the cluster, and the picture when it is applied.
PicturesAreTrue ==
    \A history \in Histories :
        \A graph \in {PollTopology(history, befores) : befores \in Moments(Len(history) - 1)} :
            \A collapsed \in {Retained(c, graph) : c \in Collapses} :
                PictureIsTrue(history, graph, collapsed)

\* However the cluster changes between the lists of a poll: what was there
\* all the time is in the picture, what never was is not.  Of what was there
\* all the time the lines are those of the cluster; a workload whose pods did
\* not change has their status; and members are hidden just if their
\* namespace is collapsed.  Lines and status are those of a workload whose
\* name is not another's, nor another's up to a dash, nor its ReplicaSet's.
DiagramIsTrue == shown # Nothing => PicturesAreTrue
=============================================================================
