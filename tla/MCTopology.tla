----------------------------- MODULE MCTopology -----------------------------
(* A cluster of two namespaces in which one object after the other comes,  *)
(* goes or is replaced, two of them during a poll; names that are or begin *)
(* with another's.                                                         *)
EXTENDS Dashboard

Object(kind, ns, name) == [kind |-> kind, ns |-> ns, name |-> name]
Workload(kind, ns, name, app) == [template |-> {<<"app", app>>, <<"tier", "1">>}] @@ Object(kind, ns, name)
PodOf(ns, name, owners, controllers, phase, containers) ==
    [owners |-> owners, controllers |-> controllers, phase |-> phase, containers |-> containers]
    @@ Object("Pod", ns, name)

Web == <<"web">>
WebApi == <<"web", "api">>
Db == <<"db">>
Replicas(name) == name \o <<"x1">>

Backup == <<"backup">>
Nightly == <<"backup", "1">>

Base == {
    Object("Namespace", "", "a"), Object("Namespace", "", "b"), Object("Namespace", "", "empty"),
    Workload("Deployment", "a", Web, "web"),
    Workload("StatefulSet", "b", Db, "db"),
    Workload("CronJob", "b", Backup, "backup"),
    Workload("DaemonSet", "b", Replicas(Web), "web"),
    PodOf("a", "web1", <<Replicas(Web)>>, {<<"Deployment", Web>>}, "Running", <<TRUE>>),
    PodOf("b", "web1", <<Replicas(Web)>>, {<<"Deployment", Web>>}, "Running", <<TRUE>>),
    PodOf("b", "db1", <<Db>>, {<<"StatefulSet", Db>>}, "Running", <<TRUE, FALSE>>),
    [selector |-> {<<"app", "web">>}] @@ Object("Service", "a", "front"),
    [selector |-> {<<"app", "web">>}] @@ Object("Service", "b", "front"),
    [selector |-> {}] @@ Object("Service", "b", "headless"),
    [paths |-> {"front"}, default |-> {"headless"}] @@ Object("Ingress", "a", "in")}

Later == {
    Workload("Deployment", "a", WebApi, "api"),
    Workload("StatefulSet", "a", Web, "web"),
    Workload("Job", "b", Nightly, "backup"),
    PodOf("a", "web1", <<Replicas(Web)>>, {<<"Deployment", Web>>}, "Failed", <<FALSE>>),
    PodOf("a", "web2", <<Replicas(Web)>>, {<<"Deployment", Web>>}, "Pending", <<>>),
    PodOf("a", "api1", <<Replicas(WebApi)>>, {<<"Deployment", WebApi>>}, "Lost", <<FALSE>>),
    PodOf("a", "lone", <<>>, {}, "Succeeded", <<FALSE>>),
    PodOf("b", "night", <<Nightly>>, {<<"Job", Nightly>>, <<"CronJob", Backup>>}, "Running", <<TRUE>>),
    PodOf("new", "lone", <<>>, {}, "Running", <<TRUE>>),
    Object("Namespace", "", "new"),
    [selector |-> {<<"app", "db">>}] @@ Object("Service", "b", "headless")}

Id(o) == <<o.kind, o.ns, o.name>>

\* An object comes into its namespace, or in the place of one with its id;
\* or it goes, a namespace when it is empty.
Fits(o, cluster) == o.ns = "" \/ Object("Namespace", "", o.ns) \in cluster
MayGo(o, cluster) == o.kind = "Namespace" => \A member \in cluster : member.ns # o.name

After(cluster) ==
    {{o \in cluster : Id(o) # Id(new)} \cup {new} : new \in {o \in Later : Fits(o, cluster)}}
    \cup {cluster \ {o} : o \in {o \in cluster : MayGo(o, cluster)}}

SomeHistories == UNION {{<<Base, c, d>> : d \in After(c)} : c \in After(Base)}
SomeCollapses == {{}, {"a"}, {"a", "b"}}
=============================================================================
