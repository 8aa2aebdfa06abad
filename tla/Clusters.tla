------------------------------- MODULE Clusters -------------------------------
(***************************************************************************)
(* Clusters of one organization and their node pools: the handlers that     *)
(* create, update and delete them, the cluster's webhook, the controller    *)
(* that deletes expired clusters and reports upgrades and DNS zones, and    *)
(* the garbage collector.                                                   *)
(*                                                                         *)
(* A cluster is created before its template is looked up and its node pools *)
(* are created, one by one, and nothing is undone if a step fails.  A node  *)
(* pool is named after its cluster and the option that asks for it, so two  *)
(* clusters may ask for the same name ("a" with "b-c", "a-b" with "c").     *)
(*                                                                         *)
(* The controller and the handlers read copies; deletions and patches go by *)
(* name, and meet whatever cluster has the name by then.                    *)
(***************************************************************************)
EXTENDS Naturals, Sequences, Functions

CONSTANTS
    Names,       \* of clusters
    Wanted,      \* [Names -> names of the node pools that options ask for, in order]
    Templated,   \* [Names -> names of the node pools that a template asks for, in order]
    Controlling, \* node pools with the control plane
    Versions,    \* <<minor, patch>>
    Default,     \* the version of the default release
    Bodies,      \* bound: [Names -> bodies of requests to create the cluster]
    Costs,       \* bound: [kinds of events -> what each counts]
    MaxCost,     \* bound: events
    MaxUID       \* bound: clusters that are created

VARIABLES
    clusters,   \* [Names -> cluster]
    copies,     \* what the informer shows of them
    pools,      \* [names of node pools -> node pool]
    requests,   \* [Names -> the last request to create the cluster]
    queue,      \* clusters the controller is to reconcile
    timers,     \* clusters that are reconciled again when they expire
    aged,       \* clusters, by UID, whose duration has passed
    zones,      \* clusters that have a DNS zone
    world,      \* default template, default release, feature cluster-upgrades
    outdated,   \* clusters not reconciled since a release or the feature changed
    uids,
    events

watched == <<clusters, copies, queue, timers, aged, zones, world, outdated>>
vars == <<watched, pools, requests, uids, events>>

NoVersion == <<0, 0>>

PoolNames == UNION {Range(Wanted[c]) \cup Range(Templated[c]) : c \in Names}

NoCluster == [uid |-> 0, deleting |-> FALSE, blocked |-> FALSE, timed |-> FALSE, version |-> Default,
              upgrades |-> {}, zone |-> FALSE]
Cluster == {NoCluster} \cup
    [uid: 1 .. MaxUID, deleting: BOOLEAN, blocked: BOOLEAN,
     timed: BOOLEAN,                         \* a duration is set
     version: Versions, upgrades: SUBSET Versions, zone: BOOLEAN]

NoPool == [exists |-> FALSE, owner |-> 0, blocks |-> FALSE, replicas |-> 0]
Pool == {NoPool} \cup
    [exists: {TRUE}, owner: 1 .. MaxUID,
     blocks: BOOLEAN,                        \* the owner's deletion waits for it
     replicas: {0, 1}]                       \* 1 stands for 1 .. 9

Body == [version: Versions \cup {NoVersion}, timed: BOOLEAN, from: {"options", "default", "named"}, replicas: {0, 1}]
ASSUME BodiesAssumption == Bodies \in [Names -> SUBSET Body]

Kinds == {"failure", "delete", "pool", "edit", "age", "zone", "world", "restart"}
ASSUME ClustersAssumption ==
    /\ \A c \in Names : Wanted[c] \in Seq(Range(Wanted[c])) /\ Templated[c] \in Seq(Range(Templated[c]))
    /\ Versions \subseteq Nat \X Nat /\ Default \in Versions
    /\ Costs \in [Kinds -> Nat] /\ MaxCost \in Nat /\ MaxUID \in Nat

Lists == {Wanted[c] : c \in Names} \cup {Templated[c] : c \in Names}
Request == [step: {"none", "template", "pools", "created"},
            uid: 0 .. MaxUID,
            from: {"options", "default", "named"},
            replicas: {0, 1},
            left: UNION {{SubSeq(list, n, Len(list)) : n \in 1 .. Len(list) + 1} : list \in Lists},
            asked: SUBSET PoolNames]
NoRequest == [step |-> "none", uid |-> 0, from |-> "options", replicas |-> 1, left |-> <<>>, asked |-> {}]

TypeOK ==
    /\ clusters \in [Names -> Cluster] /\ copies \in [Names -> Cluster]
    /\ pools \in [PoolNames -> Pool]
    /\ requests \in [Names -> Request]
    /\ queue \subseteq Names /\ timers \subseteq Names /\ zones \subseteq Names /\ outdated \subseteq Names
    /\ aged \subseteq 1 .. MaxUID /\ uids \in 0 .. MaxUID /\ events \in 0 .. MaxCost
    /\ world \in [template: BOOLEAN, release: BOOLEAN, feature: BOOLEAN]

Init ==
    /\ clusters = [c \in Names |-> NoCluster] /\ copies = clusters
    /\ pools = [n \in PoolNames |-> NoPool]
    /\ requests = [c \in Names |-> NoRequest]
    /\ queue = {} /\ timers = {} /\ zones = {} /\ outdated = {} /\ aged = {}
    /\ uids = 0 /\ events = 0
    /\ world = [template |-> TRUE, release |-> TRUE, feature |-> TRUE]

Exists(cluster) == cluster.uid # 0
HasExpired(cluster) == cluster.timed /\ cluster.uid \in aged

Happens(kind) == events' = events + Costs[kind] /\ events' <= MaxCost

-----------------------------------------------------------------------------
(* Webhooks *)

MayDelete(cluster) == Exists(cluster) /\ (HasExpired(cluster) \/ ~cluster.blocked)

\* Without a version the cluster gets that of the default release, if there is one.
MayCreate(version) == version # NoVersion \/ world.release

\* Replicas of the control plane; roles that need a feature are left out.
MayHave(pool, replicas) == pool \in Controlling => replicas # 0

-----------------------------------------------------------------------------
(* Handlers *)

\* Requests that are not valid, or of a name that is taken, change nothing.
CreateOrganizationCluster(c) ==
    /\ requests[c].step \notin {"template", "pools"}
    /\ ~Exists(clusters[c]) /\ uids < MaxUID
    /\ \E body \in Bodies[c] :
          /\ MayCreate(body.version)
          /\ clusters' = [clusters EXCEPT ![c] =
                [NoCluster EXCEPT !.uid = uids + 1, !.timed = body.timed,
                                  !.version = IF body.version = NoVersion THEN Default ELSE body.version]]
          /\ requests' = [requests EXCEPT ![c] =
                [NoRequest EXCEPT !.step = "template", !.uid = uids + 1,
                                  !.from = body.from, !.replicas = body.replicas]]
    /\ uids' = uids + 1
    /\ UNCHANGED <<copies, pools, queue, timers, aged, zones, world, outdated, events>>

\* The client learns nothing of what is there already.
End(c) == requests' = [requests EXCEPT ![c] = NoRequest]

\* A named template may be missing; without a default one the answer is no cluster, nor an error.
FindTemplate(c) ==
    LET from == requests[c].from
        left == IF from = "options" THEN Wanted[c] ELSE Templated[c]
    IN
    /\ requests[c].step = "template"
    /\ \/ /\ from = "named" \/ world.template
          /\ requests' = [requests EXCEPT ![c] = [@ EXCEPT !.step = "pools", !.left = left, !.asked = Range(left)]]
          /\ UNCHANGED events
       \/ from # "named" /\ ~world.template /\ End(c) /\ UNCHANGED events
       \/ Happens("failure") /\ End(c)
    /\ UNCHANGED <<watched, pools, uids>>

\* Mutant: the node pools are not owned.
OwnedBy_None(c) == 0

OwnedBy(c) == requests[c].uid

\* Mutant: a node pool that is there already counts as created.
CreatePool_Existing(c) ==
    LET name == Head(requests[c].left) IN
    /\ requests[c].step = "pools" /\ requests[c].left # <<>>
    /\ IF pools[name].exists THEN UNCHANGED pools
       ELSE pools' = [pools EXCEPT ![name] = [exists |-> TRUE, owner |-> OwnedBy(c), blocks |-> TRUE,
                                              replicas |-> requests[c].replicas]]
    /\ requests' = [requests EXCEPT ![c].left = Tail(@)]
    /\ UNCHANGED <<watched, uids, events>>

\* The first node pool that cannot be created ends the request; the others stay.
CreatePool(c) ==
    LET name == Head(requests[c].left)
        replicas == requests[c].replicas
        may == ~pools[name].exists /\ MayHave(name, replicas)
    IN
    /\ requests[c].step = "pools" /\ requests[c].left # <<>>
    /\ \/ /\ may
          /\ pools' = [pools EXCEPT ![name] = [exists |-> TRUE, owner |-> OwnedBy(c), blocks |-> TRUE,
                                               replicas |-> replicas]]
          /\ requests' = [requests EXCEPT ![c].left = Tail(@)]
          /\ UNCHANGED events
       \/ ~may /\ End(c) /\ UNCHANGED <<pools, events>>
       \/ Happens("failure") /\ End(c) /\ UNCHANGED pools
    /\ UNCHANGED <<watched, uids>>

AnswerCreate(c) ==
    /\ requests[c].step = "pools" /\ requests[c].left = <<>>
    /\ requests' = [requests EXCEPT ![c] = [NoRequest EXCEPT !.step = "created", !.uid = requests[c].uid,
                                                             !.asked = requests[c].asked]]
    /\ UNCHANGED <<watched, pools, uids, events>>

\* In the foreground: the cluster stays until the garbage collector has deleted what blocks it.
Delete(c) == clusters' = [clusters EXCEPT ![c].deleting = TRUE]

DeleteOrganizationCluster(c) ==
    /\ Happens("delete") /\ Exists(copies[c]) /\ MayDelete(clusters[c])
    /\ Delete(c)
    /\ UNCHANGED <<copies, pools, requests, queue, timers, aged, zones, world, outdated, uids>>

\* Mutant: a node pool that is added later is not owned.
PoolOwner_None(c) == 0

\* The owner is the cluster that the copy shows.
PoolOwner(c) == copies[c].uid

CreateClusterNodePool(c, name) ==
    /\ Happens("pool") /\ Exists(copies[c]) /\ ~pools[name].exists
    /\ \E replicas \in {0, 1} :
          /\ MayHave(name, replicas)
          /\ pools' = [pools EXCEPT ![name] = [exists |-> TRUE, owner |-> PoolOwner(c), blocks |-> FALSE,
                                               replicas |-> replicas]]
    /\ UNCHANGED <<watched, requests, uids>>

\* Between one and nine replicas; of whichever cluster the node pool is.
UpdateClusterNodePool(c, name) ==
    /\ Happens("pool") /\ Exists(copies[c]) /\ pools[name].exists
    /\ pools' = [pools EXCEPT ![name].replicas = 1]
    /\ UNCHANGED <<watched, requests, uids>>

DeleteClusterNodePool(c, name) ==
    /\ Happens("pool") /\ Exists(copies[c]) /\ pools[name].exists
    /\ pools' = [pools EXCEPT ![name] = NoPool]
    /\ requests' = [d \in Names |-> IF requests[d].uid = pools[name].owner
                                    THEN [requests[d] EXCEPT !.asked = @ \ {name}] ELSE requests[d]]
    /\ UNCHANGED <<watched, uids>>

-----------------------------------------------------------------------------
(* Controller *)

\* Versions of a release that are newer, and not newer than the version with the minor after the
\* next and no patch.
NewerThan(v, w) == v[1] > w[1] \/ (v[1] = w[1] /\ v[2] > w[2])

\* Mutant: the patch is kept when the minor is incremented.
Offered_KeepPatch(version) ==
    {v \in Versions : NewerThan(v, version) /\ ~NewerThan(v, <<version[1] + 2, version[2]>>)}

Offered(version) ==
    {v \in Versions : NewerThan(v, version) /\ ~NewerThan(v, <<version[1] + 2, 0>>)}

Upgrades(cluster) ==
    CASE ~world.feature -> {}
      [] world.feature /\ world.release -> Offered(cluster.version)
      [] OTHER -> cluster.upgrades

\* Mutant: a cluster that expired stays while its deletion is not blocked.
Expires_Blocked(cluster) == HasExpired(cluster) /\ cluster.blocked

Expires(cluster) == HasExpired(cluster) /\ ~cluster.blocked

\* A copy that has expired: the deletion may be refused, or meet another cluster of the name.
DeleteExpired(c) ==
    /\ c \in queue /\ Expires(copies[c])
    /\ IF MayDelete(clusters[c])
       THEN Delete(c) /\ queue' = queue \ {c}
       ELSE UNCHANGED <<clusters, queue>>
    /\ UNCHANGED <<copies, pools, requests, timers, aged, zones, world, outdated, uids, events>>

\* What differs from the copy is written to whatever has the name.
Changed(c) ==
    [clusters[c] EXCEPT !.upgrades = IF Upgrades(copies[c]) # copies[c].upgrades THEN Upgrades(copies[c]) ELSE @,
                        !.zone = IF (c \in zones) # copies[c].zone THEN c \in zones ELSE @]

Patches(c) == Upgrades(copies[c]) # copies[c].upgrades \/ (c \in zones) # copies[c].zone

\* The timer is not set for a cluster that expires while it is reconciled.
Reconcile(c) ==
    /\ c \in queue /\ Exists(copies[c]) /\ ~Expires(copies[c])
    /\ \/ /\ Exists(clusters[c]) \/ ~Patches(c)
          /\ clusters' = [clusters EXCEPT ![c] = IF Exists(@) THEN Changed(c) ELSE @]
          /\ outdated' = outdated \ {c}
          /\ queue' = queue \ {c}
          /\ \/ /\ timers' = IF copies[c].timed /\ ~HasExpired(copies[c]) THEN timers \cup {c} ELSE timers
                /\ UNCHANGED <<aged, events>>
             \/ /\ copies[c].timed /\ ~HasExpired(copies[c]) /\ Happens("age")
                /\ aged' = aged \cup {copies[c].uid} /\ UNCHANGED timers
       \/ ~Exists(clusters[c]) /\ Patches(c)
          /\ UNCHANGED <<clusters, outdated, queue, timers, aged, events>>
    /\ UNCHANGED <<copies, pools, requests, zones, world, uids>>

Forget(c) ==
    /\ c \in queue /\ ~Exists(copies[c])
    /\ queue' = queue \ {c}
    /\ UNCHANGED <<clusters, copies, pools, requests, timers, aged, zones, world, outdated, uids, events>>

Deliver(c) ==
    /\ copies[c] # clusters[c]
    /\ copies' = [copies EXCEPT ![c] = clusters[c]]
    /\ queue' = queue \cup {c}
    /\ UNCHANGED <<clusters, pools, requests, timers, aged, zones, world, outdated, uids, events>>

\* Every cluster the informer shows is reconciled, every ten hours and when a process starts.
Resync ==
    /\ queue' = queue \cup {c \in Names : Exists(copies[c])}
    /\ UNCHANGED <<clusters, copies, pools, requests, timers, aged, zones, world, outdated, uids, events>>

-----------------------------------------------------------------------------
(* Garbage collector *)

HasOwner(pool) == \E c \in Names : Exists(clusters[c]) /\ clusters[c].uid = pool.owner

\* A node pool goes with its owner, or before it if that is being deleted.
Collect(name) ==
    LET pool == pools[name] IN
    /\ pool.exists /\ pool.owner # 0
    /\ ~HasOwner(pool) \/ \E c \in Names : clusters[c].deleting /\ clusters[c].uid = pool.owner
    /\ pools' = [pools EXCEPT ![name] = NoPool]
    /\ UNCHANGED <<watched, requests, uids, events>>

Remove(c) ==
    /\ clusters[c].deleting
    /\ ~\E n \in PoolNames : pools[n].exists /\ pools[n].blocks /\ pools[n].owner = clusters[c].uid
    /\ clusters' = [clusters EXCEPT ![c] = NoCluster]
    /\ requests' = IF requests[c].step = "created" THEN [requests EXCEPT ![c] = NoRequest] ELSE requests
    /\ UNCHANGED <<copies, pools, queue, timers, aged, zones, world, outdated, uids, events>>

-----------------------------------------------------------------------------
(* Events *)

\* Someone blocks the deletion or allows it, sets or removes the duration, or upgrades the cluster.
Edit(c) ==
    /\ Happens("edit") /\ Exists(clusters[c])
    /\ \/ clusters' = [clusters EXCEPT ![c].blocked = ~@]
       \/ clusters' = [clusters EXCEPT ![c].timed = ~@]
       \/ \E v \in clusters[c].upgrades : clusters' = [clusters EXCEPT ![c].version = v]
    /\ UNCHANGED <<copies, pools, requests, queue, timers, aged, zones, world, outdated, uids>>

\* The duration of a cluster passes, and its timer ends.
Age(uid) ==
    LET due == {c \in timers : copies[c].uid = uid} IN
    /\ Happens("age") /\ uid \notin aged
    /\ \E c \in Names : \E cluster \in {clusters[c], copies[c]} : cluster.uid = uid /\ cluster.timed
    /\ aged' = aged \cup {uid}
    /\ queue' = queue \cup due /\ timers' = timers \ due
    /\ UNCHANGED <<clusters, copies, pools, requests, zones, world, outdated, uids>>

\* A DNS zone is created or deleted, and shown; its cluster is reconciled.
ChangeZone(c) ==
    /\ Happens("zone")
    /\ zones' = IF c \in zones THEN zones \ {c} ELSE zones \cup {c}
    /\ queue' = queue \cup {c}
    /\ UNCHANGED <<clusters, copies, pools, requests, timers, aged, world, outdated, uids>>

\* Templates, releases and features are not watched.
ChangeWorld(part) ==
    /\ Happens("world")
    /\ world' = [world EXCEPT ![part] = ~@]
    /\ outdated' = IF part = "template" THEN outdated ELSE Names
    /\ UNCHANGED <<clusters, copies, pools, requests, queue, timers, aged, zones, uids>>

\* A process that starts has no timers.
Restart ==
    /\ Happens("restart")
    /\ timers' = {} /\ queue' = {c \in Names : Exists(clusters[c])} /\ copies' = clusters
    /\ requests' = [c \in Names |-> IF requests[c].step \in {"template", "pools"}
                                    THEN NoRequest ELSE requests[c]]
    /\ UNCHANGED <<clusters, pools, aged, zones, world, outdated, uids>>

-----------------------------------------------------------------------------

Handle(c) ==
    \/ CreateOrganizationCluster(c) \/ FindTemplate(c) \/ CreatePool(c) \/ AnswerCreate(c)
    \/ DeleteOrganizationCluster(c)
    \/ \E n \in PoolNames :
          CreateClusterNodePool(c, n) \/ UpdateClusterNodePool(c, n) \/ DeleteClusterNodePool(c, n)

Control(c) == DeleteExpired(c) \/ Reconcile(c) \/ Forget(c)

Happen ==
    \/ \E c \in Names : Edit(c) \/ ChangeZone(c)
    \/ \E uid \in 1 .. MaxUID : Age(uid)
    \/ \E part \in DOMAIN world : ChangeWorld(part)
    \/ Restart

Next ==
    \/ \E c \in Names : Handle(c) \/ Control(c) \/ Deliver(c) \/ Remove(c)
    \/ \E n \in PoolNames : Collect(n)
    \/ Happen \/ Resync

Spec == Init /\ [][Next]_vars

\* Informers deliver, the controller works off its queue, resyncs recur, garbage is collected.
FairSpec ==
    /\ Spec
    /\ WF_vars(Resync)
    /\ \A c \in Names : WF_vars(Control(c))
    /\ WF_vars(\E c \in Names : Deliver(c))
    /\ WF_vars(\E c \in Names : Remove(c)) /\ WF_vars(\E n \in PoolNames : Collect(n))

-----------------------------------------------------------------------------
(* Properties *)

(***************************************************************************)
(* A request to create a cluster that was answered with the cluster left it *)
(* with every node pool that was asked for, each its own, as long as nobody *)
(* deletes the one or the other.                                            *)
(***************************************************************************)
AnsweredWhole ==
    \A c \in Names :
        LET r == requests[c] IN
        r.step = "created" /\ clusters[c].uid = r.uid /\ ~clusters[c].deleting =>
            \A n \in r.asked : pools[n].exists /\ pools[n].owner = r.uid

\* The bound of the code: a newer version, of the same minor or the next, or the first of the minor after.
Suits(v, version) ==
    \/ v[1] = version[1] /\ v[2] > version[2]
    \/ v[1] = version[1] + 1
    \/ v = <<version[1] + 2, 0>>

(***************************************************************************)
(* Upgrades that are not those of the version, and a zone that is not       *)
(* reported, are about to be reconciled, also after late copies, unless a   *)
(* release or the feature changed, which nothing watches.                   *)
(***************************************************************************)
WrongReportPending ==
    \A c \in Names :
        LET cluster == clusters[c]
            right == IF world.feature THEN {v \in Versions : Suits(v, cluster.version)} ELSE {}
        IN
        Exists(cluster) /\ c \notin queue /\ copies[c] = cluster /\ ~Expires(cluster) =>
            /\ cluster.zone = (c \in zones)
            /\ c \in outdated \/ ~world.release \/ cluster.upgrades = right

(***************************************************************************)
(* Node pools of a cluster that is gone go too, so that their names can be  *)
(* used again: also one that a late copy of the cluster let in.             *)
(***************************************************************************)
PoolsCollected == []<>(\A n \in PoolNames : pools[n].exists => HasOwner(pools[n]))

\* A cluster that expires is deleted, unless that is blocked or its duration changes.
ExpiredGo == []<>(\A c \in Names : HasExpired(clusters[c]) /\ ~clusters[c].blocked => clusters[c].deleting)

=============================================================================
