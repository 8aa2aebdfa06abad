---------------------------- MODULE ClustersProofs ----------------------------
(***************************************************************************)
(* Theorems about Clusters for any number of clusters, node pools, versions *)
(* and requests, any delay of the informer and any events.                  *)
(***************************************************************************)
EXTENDS Clusters, SequenceTheorems, TLAPS

-----------------------------------------------------------------------------
(* Clusters, node pools and requests, one by one *)

VersionSets == SUBSET Versions
UIDs == 1 .. MaxUID

\* Clusters that are there.
Live == [uid: UIDs, deleting: BOOLEAN, blocked: BOOLEAN, timed: BOOLEAN, version: Versions,
         upgrades: VersionSets, zone: BOOLEAN]

LEMMA ClusterIs ==
  /\ Cluster = {NoCluster} \cup Live
  /\ ~Exists(NoCluster) /\ ~NoCluster.deleting /\ ~NoCluster.timed
  /\ \A cluster \in Live : Exists(cluster) /\ cluster.uid \in UIDs
  /\ \A cluster \in Cluster : cluster = NoCluster \/ cluster \in Live
  /\ \A cluster \in Cluster : Exists(cluster) => cluster \in Live
<1>1. Cluster = {NoCluster} \cup Live
  BY DEF Cluster, Live, VersionSets, UIDs
<1>2. ~Exists(NoCluster) /\ ~NoCluster.deleting /\ ~NoCluster.timed
  BY DEF NoCluster, Exists
<1>3. \A cluster \in Live : Exists(cluster) /\ cluster.uid \in UIDs
  <2>1. 0 \notin UIDs
    BY ClustersAssumption DEF UIDs
  <2> QED BY <2>1 DEF Live, Exists
<1> QED BY <1>1, <1>2, <1>3

\* Node pools that are there.
Pools == [exists: {TRUE}, owner: UIDs, blocks: BOOLEAN, replicas: {0, 1}]

LEMMA PoolIs ==
  /\ Pool = {NoPool} \cup Pools
  /\ ~NoPool.exists
  /\ \A pool \in Pools : pool.exists = TRUE /\ pool.owner \in UIDs /\ pool.owner # 0
  /\ \A pool \in Pool : pool.exists => pool \in Pools
<1>1. Pool = {NoPool} \cup Pools
  BY DEF Pool, Pools, UIDs
<1>2. ~NoPool.exists
  BY DEF NoPool
<1>3. \A pool \in Pools : pool.exists = TRUE /\ pool.owner \in UIDs /\ pool.owner # 0
  <2>1. 0 \notin UIDs
    BY ClustersAssumption DEF UIDs
  <2> QED BY <2>1 DEF Pools
<1> QED BY <1>1, <1>2, <1>3

\* What is left of a list of node pools.
Lefts == UNION {{SubSeq(list, n, Len(list)) : n \in 1 .. Len(list) + 1} : list \in Lists}
Steps == {"none", "template", "pools", "created"}
Froms == {"options", "default", "named"}
PoolSets == SUBSET PoolNames

LEMMA RequestIs ==
  Request = [step: Steps, uid: 0 .. MaxUID, from: Froms, replicas: {0, 1}, left: Lefts, asked: PoolSets]
BY DEF Request, Lefts, Steps, Froms, PoolSets

LEMMA ListsAre ==
  \A list \in Lists : list \in Seq(PoolNames)
<1> SUFFICES ASSUME NEW c \in Names
             PROVE  Wanted[c] \in Seq(PoolNames) /\ Templated[c] \in Seq(PoolNames)
  BY DEF Lists
<1>1. Range(Wanted[c]) \subseteq PoolNames /\ Range(Templated[c]) \subseteq PoolNames
  BY DEF PoolNames
<1>2. Wanted[c] \in Seq(Range(Wanted[c])) /\ Templated[c] \in Seq(Range(Templated[c]))
  BY ClustersAssumption
<1> QED BY <1>1, <1>2, SeqMonotonic

LEMMA Suffix ==
  ASSUME NEW list \in Lists, NEW n \in 1 .. Len(list) + 1
  PROVE  SubSeq(list, n, Len(list)) \in Lefts
BY DEF Lefts

LEMMA LeftIs ==
  ASSUME NEW left \in Lefts
  PROVE  /\ left \in Seq(PoolNames) /\ Range(left) \in PoolSets
         /\ left # << >> => Head(left) \in PoolNames /\ Tail(left) \in Lefts
<1>0. PICK list \in Lists : \E n \in 1 .. Len(list) + 1 : left = SubSeq(list, n, Len(list))
  BY DEF Lefts
<1>1. PICK n \in 1 .. Len(list) + 1 : left = SubSeq(list, n, Len(list))
  BY <1>0
<1>2. list \in Seq(PoolNames) /\ Len(list) \in Nat /\ n \in Int /\ Len(list) \in Int
  BY ListsAre, LenProperties
<1>3. \A i \in n .. Len(list) : list[i] \in PoolNames
  BY <1>2, ElementOfSeq
<1>4. left \in Seq(PoolNames)
  BY <1>1, <1>2, <1>3, SubSeqProperties
<1>5. Range(left) \in PoolSets
  BY <1>4, RangeOfSeq DEF PoolSets
<1>6. ASSUME left # << >> PROVE Head(left) \in PoolNames /\ Tail(left) \in Lefts
  <2>1. n \in 1 .. Len(list)
    <3>1. n > Len(list) => left = << >>
      BY <1>1, <1>2, SubSeqEmpty
    <3> QED BY <1>2, <1>6, <3>1
  <2>2. Tail(left) = SubSeq(list, n + 1, Len(list))
    BY <1>1, <1>2, <2>1, HeadTailOfSubSeq
  <2>3. n + 1 \in 1 .. Len(list) + 1
    BY <1>2, <2>1
  <2>4. Tail(left) \in Lefts
    BY <2>2, <2>3, Suffix
  <2>5. Head(left) \in PoolNames
    BY <1>4, <1>6, HeadTailProperties
  <2> QED BY <2>4, <2>5
<1> QED BY <1>4, <1>5, <1>6

LEMMA WholeLists ==
  ASSUME NEW c \in Names
  PROVE  Wanted[c] \in Lefts /\ Templated[c] \in Lefts /\ << >> \in Lefts
<1>1. \A list \in Lists : list \in Lefts /\ << >> \in Lefts
  <2> SUFFICES ASSUME NEW list \in Lists PROVE list \in Lefts /\ << >> \in Lefts
    OBVIOUS
  <2>1. list \in Seq(PoolNames) /\ Len(list) \in Nat
    BY ListsAre, LenProperties
  <2>2. SubSeq(list, 1, Len(list)) = list /\ SubSeq(list, Len(list) + 1, Len(list)) = << >>
    BY <2>1, SubSeqFull, SubSeqEmpty
  <2>3. 1 \in 1 .. Len(list) + 1 /\ Len(list) + 1 \in 1 .. Len(list) + 1
    BY <2>1
  <2> QED BY <2>2, <2>3 DEF Lefts
<1> QED BY <1>1 DEF Lists

\* The first of a list, and the others.
LEMMA HeadAndTail ==
  ASSUME NEW left \in Lefts, left # << >>, NEW n \in Range(left)
  PROVE  n = Head(left) \/ n \in Range(Tail(left))
<1>1. left \in Seq(PoolNames) /\ Tail(left) \in Seq(PoolNames) /\ Len(Tail(left)) = Len(left) - 1
      /\ Len(left) \in Nat /\ Head(left) = left[1]
      /\ \A i \in 1 .. Len(Tail(left)) : Tail(left)[i] = left[i + 1]
  BY LeftIs, HeadTailProperties, LenProperties
<1>2. /\ Range(left) = {left[i] : i \in 1 .. Len(left)}
      /\ Range(Tail(left)) = {Tail(left)[i] : i \in 1 .. Len(Tail(left))}
  BY <1>1, RangeEquality
<1>3. PICK i \in 1 .. Len(left) : n = left[i]
  BY <1>2
<1>4. CASE i = 1
  BY <1>1, <1>3, <1>4
<1>5. CASE i # 1
  <2>1. i - 1 \in 1 .. Len(Tail(left)) /\ (i - 1) + 1 = i
    BY <1>1, <1>5
  <2>2. Tail(left)[i - 1] = n
    BY <1>1, <1>3, <2>1
  <2> QED BY <1>2, <2>1, <2>2
<1> QED BY <1>4, <1>5

-----------------------------------------------------------------------------
(* What one step makes of the clusters *)

ClusterTypes == clusters \in [Names -> Cluster] /\ copies \in [Names -> Cluster]
PoolTypes == pools \in [PoolNames -> Pool]
RequestTypes ==
    /\ requests \in [Names -> Request]
    /\ \A c \in Names : requests[c].step # "none" => requests[c].uid # 0
SetTypes == /\ queue \subseteq Names /\ timers \subseteq Names /\ zones \subseteq Names /\ outdated \subseteq Names
            /\ aged \subseteq UIDs
CountTypes == /\ uids \in 0 .. MaxUID /\ events \in 0 .. MaxCost
              /\ world \in [template: BOOLEAN, release: BOOLEAN, feature: BOOLEAN]

TypeInv == ClusterTypes /\ PoolTypes /\ RequestTypes /\ SetTypes /\ CountTypes

LEMMA TypeInvIs == TypeInv => TypeOK
BY DEF TypeInv, ClusterTypes, PoolTypes, RequestTypes, SetTypes, CountTypes, TypeOK, UIDs

LEMMA TypesStart == Init => TypeInv
<1> SUFFICES ASSUME Init PROVE TypeInv
  OBVIOUS
<1>1. ClusterTypes /\ PoolTypes
  BY ClusterIs, PoolIs DEF Init, ClusterTypes, PoolTypes
<1>2. RequestTypes
  <2>1. \A c \in Names : NoRequest \in Request
    <3> SUFFICES ASSUME NEW c \in Names PROVE NoRequest \in Request
      OBVIOUS
    <3>1. << >> \in Lefts /\ {} \in PoolSets /\ 0 \in 0 .. MaxUID
      BY WholeLists, ClustersAssumption DEF PoolSets
    <3> QED BY <3>1, RequestIs DEF NoRequest, Steps, Froms
  <2>2. NoRequest.step = "none"
    BY DEF NoRequest
  <2> QED BY <2>1, <2>2 DEF Init, RequestTypes
<1>3. SetTypes /\ CountTypes
  BY ClustersAssumption DEF Init, SetTypes, CountTypes
<1> QED BY <1>1, <1>2, <1>3 DEF TypeInv

(***************************************************************************)
(* What a step may do to the cluster of a name: nothing, its creation with  *)
(* a new UID, its deletion if that is allowed, an edit, the patch of the    *)
(* controller, and its removal.                                             *)
(***************************************************************************)
ClusterWrite(c, x, y) ==
    \/ y = x
    \/ ~Exists(x) /\ y \in Live /\ y.uid = uids + 1 /\ ~y.deleting /\ uids' = uids + 1
    \/ Exists(x) /\ y \in Live /\ y = [x EXCEPT !.deleting = TRUE]
    \/ /\ Exists(x) /\ y \in Live /\ y.uid = x.uid /\ y.deleting = x.deleting
       /\ y.upgrades = x.upgrades /\ y.zone = x.zone
    \/ Exists(x) /\ y \in Live /\ y.uid = x.uid /\ y.deleting = x.deleting /\ Reconcile(c)
    \/ x.deleting /\ y = NoCluster

ClusterWrites ==
    /\ clusters' \in [Names -> Cluster]
    /\ \A c \in Names : ClusterWrite(c, clusters[c], clusters'[c])
    /\ \A c, d \in Names : c = d \/ clusters'[c] = clusters[c] \/ clusters'[d] = clusters[d]

\* One cluster is written, the others stay.
LEMMA OneWritten ==
  ASSUME ClusterTypes, NEW c \in Names, NEW y \in Cluster, ClusterWrite(c, clusters[c], y),
         clusters' = [clusters EXCEPT ![c] = y]
  PROVE  ClusterWrites
<1>1. clusters'[c] = y /\ \A d \in Names \ {c} : clusters'[d] = clusters[d]
  BY DEF ClusterTypes
<1>2. clusters' \in [Names -> Cluster]
  BY DEF ClusterTypes
<1> QED BY <1>1, <1>2 DEF ClusterWrites, ClusterWrite

LEMMA NoneWritten ==
  ASSUME ClusterTypes, UNCHANGED clusters PROVE ClusterWrites
BY DEF ClusterWrites, ClusterWrite, ClusterTypes

\* An edit leaves alone what the controller reports.
EditOf(x, y) ==
    /\ y \in Live /\ y.uid = x.uid /\ y.deleting = x.deleting
    /\ y.upgrades = x.upgrades /\ y.zone = x.zone

LEMMA Edited ==
  ASSUME NEW x \in Live
  PROVE  /\ [x EXCEPT !.deleting = TRUE] \in Live
         /\ \A flag \in BOOLEAN :
              EditOf(x, [x EXCEPT !.blocked = flag]) /\ EditOf(x, [x EXCEPT !.timed = flag])
         /\ \A v \in Versions : EditOf(x, [x EXCEPT !.version = v])
BY DEF Live, EditOf

LEMMA UpgradesTyped ==
  ASSUME CountTypes, NEW cluster \in Live PROVE Upgrades(cluster) \in VersionSets
<1>1. Offered(cluster.version) \in VersionSets /\ {} \in VersionSets /\ cluster.upgrades \in VersionSets
  BY DEF Offered, VersionSets, Live
<1>2. world.feature \in BOOLEAN /\ world.release \in BOOLEAN
  BY DEF CountTypes
<1>3. \/ Upgrades(cluster) = {}
      \/ Upgrades(cluster) = Offered(cluster.version)
      \/ Upgrades(cluster) = cluster.upgrades
  BY <1>2 DEF Upgrades
<1> QED BY <1>1, <1>3

\* What the controller's patch makes of the cluster.
LEMMA ChangedIs ==
  ASSUME ClusterTypes, CountTypes, NEW c \in Names, Exists(clusters[c]), Exists(copies[c])
  PROVE  /\ Changed(c) \in Live /\ Changed(c).uid = clusters[c].uid
         /\ Changed(c).deleting = clusters[c].deleting /\ Changed(c).version = clusters[c].version
         /\ Changed(c).upgrades = IF Upgrades(copies[c]) # copies[c].upgrades THEN Upgrades(copies[c])
                                  ELSE clusters[c].upgrades
         /\ Changed(c).zone = IF (c \in zones) # copies[c].zone THEN c \in zones ELSE clusters[c].zone
<1>1. clusters[c] \in Live /\ copies[c] \in Live
  BY ClusterIs DEF ClusterTypes
<1> DEFINE u == IF Upgrades(copies[c]) # copies[c].upgrades THEN Upgrades(copies[c])
                ELSE clusters[c].upgrades
           z == IF (c \in zones) # copies[c].zone THEN c \in zones ELSE clusters[c].zone
<1>2. u \in VersionSets /\ z \in BOOLEAN
  <2>1. Upgrades(copies[c]) \in VersionSets
    BY <1>1, UpgradesTyped
  <2>2. clusters[c].upgrades \in VersionSets /\ clusters[c].zone \in BOOLEAN
    BY <1>1 DEF Live
  <2>3. u \in VersionSets
    BY <2>1, <2>2
  <2>4. z \in BOOLEAN
    <3>1. (c \in zones) \in BOOLEAN
      OBVIOUS
    <3>2. CASE (c \in zones) # copies[c].zone
      BY <3>1, <3>2, Zenon
    <3>3. CASE ~((c \in zones) # copies[c].zone)
      BY <2>2, <3>3, Zenon
    <3> QED BY <3>2, <3>3
  <2> QED BY <2>3, <2>4
<1>3. Changed(c) = [clusters[c] EXCEPT !.upgrades = u, !.zone = z]
  BY DEF Changed
<1> HIDE DEF u, z
<1>4. /\ Changed(c) \in Live /\ Changed(c).uid = clusters[c].uid
      /\ Changed(c).deleting = clusters[c].deleting /\ Changed(c).version = clusters[c].version
      /\ Changed(c).upgrades = u /\ Changed(c).zone = z
  <2> SUFFICES ASSUME NEW x, NEW y, x = clusters[c], y = Changed(c)
               PROVE  /\ y \in Live /\ y.uid = x.uid /\ y.deleting = x.deleting
                      /\ y.version = x.version /\ y.upgrades = u /\ y.zone = z
    OBVIOUS
  <2>1. x \in Live /\ y = [x EXCEPT !.upgrades = u, !.zone = z]
    BY <1>1, <1>3
  <2> QED BY ONLY <1>2, <2>1 DEF Live
<1> QED BY <1>4 DEF u, z

\* What every step does to the clusters, action by action.
LEMMA ClustersMove ==
  ASSUME ClusterTypes, CountTypes, uids' \in 0 .. MaxUID, Next
  PROVE  ClusterWrites
<1>0. /\ clusters \in [Names -> Cluster] /\ copies \in [Names -> Cluster]
      /\ uids \in Nat /\ uids' \in Nat
  BY DEF ClusterTypes, CountTypes
<1>l. Live \subseteq Cluster /\ NoCluster \in Cluster
  BY ClusterIs
<1>1. ASSUME NEW c \in Names, CreateOrganizationCluster(c) PROVE ClusterWrites
  <2>1. PICK body \in Bodies[c] :
          /\ MayCreate(body.version)
          /\ clusters' = [clusters EXCEPT ![c] =
                [NoCluster EXCEPT !.uid = uids + 1, !.timed = body.timed,
                                  !.version = IF body.version = NoVersion THEN Default ELSE body.version]]
    BY <1>1 DEF CreateOrganizationCluster
  <2>2. ~Exists(clusters[c]) /\ uids' = uids + 1
    BY <1>1 DEF CreateOrganizationCluster
  <2>3. body \in Body
    BY BodiesAssumption
  <2> DEFINE version == IF body.version = NoVersion THEN Default ELSE body.version
             y == [NoCluster EXCEPT !.uid = uids + 1, !.timed = body.timed, !.version = version]
  <2>4. version \in Versions /\ body.timed \in BOOLEAN
    BY <2>3, ClustersAssumption DEF Body
  <2>5. uids + 1 \in UIDs
    BY <1>0, <2>2 DEF CountTypes, UIDs
  <2> HIDE DEF version
  <2>6. y \in Live /\ y.uid = uids + 1 /\ ~y.deleting
    <3>1. {} \in VersionSets
      BY DEF VersionSets
    <3> QED BY <2>4, <2>5, <3>1 DEF Live, NoCluster
  <2>7. clusters' = [clusters EXCEPT ![c] = y]
    BY <2>1 DEF version
  <2> HIDE DEF y
  <2>8. ClusterWrite(c, clusters[c], y)
    BY <2>2, <2>6 DEF ClusterWrite
  <2> QED BY <1>l, <2>6, <2>7, <2>8, OneWritten
<1>2. ASSUME NEW c \in Names, DeleteOrganizationCluster(c) \/ DeleteExpired(c) PROVE ClusterWrites
  <2>1. CASE UNCHANGED clusters
    BY <2>1, NoneWritten
  <2>2. CASE MayDelete(clusters[c]) /\ Delete(c)
    <3>1. clusters[c] \in Live /\ Exists(clusters[c])
      BY <1>0, <2>2, ClusterIs DEF MayDelete
    <3>2. PICK y : y = [clusters[c] EXCEPT !.deleting = TRUE]
      OBVIOUS
    <3>3. y \in Live
      BY <3>1, <3>2, Edited
    <3>4. clusters' = [clusters EXCEPT ![c] = y]
      BY <2>2, <3>2 DEF Delete
    <3>5. ClusterWrite(c, clusters[c], y)
      BY <2>2, <3>1, <3>2, <3>3 DEF ClusterWrite
    <3> QED BY <1>l, <3>3, <3>4, <3>5, OneWritten
  <2> QED BY <1>2, <2>1, <2>2 DEF DeleteOrganizationCluster, DeleteExpired
<1>3. ASSUME NEW c \in Names, Reconcile(c) PROVE ClusterWrites
  <2>1. CASE ~Exists(clusters[c])
    <3>1. clusters' = clusters
      BY <1>0, <1>3, <2>1 DEF Reconcile
    <3> QED BY <3>1, NoneWritten
  <2>2. CASE Exists(clusters[c])
    <3>1. Exists(copies[c]) /\ clusters' = [clusters EXCEPT ![c] = Changed(c)]
      BY <1>0, <1>3, <2>2 DEF Reconcile
    <3>2. ClusterWrite(c, clusters[c], Changed(c)) /\ Changed(c) \in Live
      BY <1>3, <2>2, <3>1, ChangedIs DEF ClusterWrite
    <3> QED BY <1>l, <3>1, <3>2, OneWritten
  <2> QED BY <2>1, <2>2
<1>4. ASSUME NEW c \in Names, Remove(c) PROVE ClusterWrites
  <2>1. ClusterWrite(c, clusters[c], NoCluster) /\ clusters' = [clusters EXCEPT ![c] = NoCluster]
    BY <1>4 DEF Remove, ClusterWrite
  <2> QED BY <1>l, <2>1, OneWritten
<1>5. ASSUME NEW c \in Names, Edit(c) PROVE ClusterWrites
  <2>1. clusters[c] \in Live /\ Exists(clusters[c])
    BY <1>0, <1>5, ClusterIs DEF Edit
  <2>2. clusters[c].upgrades \subseteq Versions /\ (~clusters[c].blocked) \in BOOLEAN
        /\ (~clusters[c].timed) \in BOOLEAN
    BY <2>1 DEF Live, VersionSets
  <2>3. \/ clusters' = [clusters EXCEPT ![c] = [clusters[c] EXCEPT !.blocked = ~clusters[c].blocked]]
        \/ clusters' = [clusters EXCEPT ![c] = [clusters[c] EXCEPT !.timed = ~clusters[c].timed]]
        \/ \E v \in Versions : clusters' = [clusters EXCEPT ![c] = [clusters[c] EXCEPT !.version = v]]
    BY <1>5, <2>2 DEF Edit
  <2>4. PICK y : EditOf(clusters[c], y) /\ clusters' = [clusters EXCEPT ![c] = y]
    BY <2>1, <2>2, <2>3, Edited
  <2>5. ClusterWrite(c, clusters[c], y)
    BY <2>1, <2>4 DEF ClusterWrite, EditOf
  <2> QED BY <1>l, <2>4, <2>5, OneWritten DEF EditOf
<1>6. ASSUME UNCHANGED clusters PROVE ClusterWrites
  BY <1>6, NoneWritten
<1>7. ASSUME NEW c \in Names,
             FindTemplate(c) \/ CreatePool(c) \/ AnswerCreate(c) \/ Forget(c) \/ Deliver(c) \/ ChangeZone(c)
             \/ \E n \in PoolNames :
                  CreateClusterNodePool(c, n) \/ UpdateClusterNodePool(c, n) \/ DeleteClusterNodePool(c, n)
      PROVE  ClusterWrites
  <2>1. UNCHANGED clusters
    BY <1>7 DEF FindTemplate, CreatePool, AnswerCreate, Forget, Deliver, ChangeZone, watched,
                CreateClusterNodePool, UpdateClusterNodePool, DeleteClusterNodePool
  <2> QED BY <1>6, <2>1
<1>8. ASSUME (\E n \in PoolNames : Collect(n)) \/ (\E uid \in 1 .. MaxUID : Age(uid))
             \/ (\E part \in DOMAIN world : ChangeWorld(part)) \/ Restart \/ Resync
      PROVE  ClusterWrites
  <2>1. UNCHANGED clusters
    BY <1>8 DEF Collect, Age, ChangeWorld, Restart, Resync, watched
  <2> QED BY <1>6, <2>1
<1> QED BY <1>1, <1>2, <1>3, <1>4, <1>5, <1>7, <1>8 DEF Next, Handle, Control, Happen

-----------------------------------------------------------------------------
(* Types *)

LEMMA Counting ==
  ASSUME CountTypes, NEW kind \in Kinds, Happens(kind) PROVE events' \in 0 .. MaxCost
<1>1. Costs[kind] \in Nat /\ MaxCost \in Nat
  BY ClustersAssumption
<1> QED BY <1>1 DEF CountTypes, Happens

LEMMA CountsKept ==
  ASSUME CountTypes, [Next]_vars PROVE CountTypes'
<1>1. CASE UNCHANGED vars
  BY <1>1 DEF vars, watched, CountTypes
<1>2. Kinds = {"failure", "delete", "pool", "edit", "age", "zone", "world", "restart"}
  BY DEF Kinds
<1>c. \A kind \in Kinds : Happens(kind) => events' \in 0 .. MaxCost
  BY Counting
<1>3. ASSUME NEW c \in Names, CreateOrganizationCluster(c) PROVE CountTypes'
  <2>1. uids \in Nat /\ uids <= MaxUID /\ MaxUID \in Nat /\ uids < MaxUID /\ uids' = uids + 1
    BY <1>3, ClustersAssumption DEF CountTypes, CreateOrganizationCluster
  <2>2. uids' \in 0 .. MaxUID
    BY <2>1
  <2>3. UNCHANGED <<world, events>>
    BY <1>3 DEF CreateOrganizationCluster
  <2> QED BY <2>2, <2>3 DEF CountTypes
<1>4. ASSUME UNCHANGED <<uids, world>>, events' = events \/ events' \in 0 .. MaxCost PROVE CountTypes'
  BY <1>4 DEF CountTypes
<1>5. ASSUME NEW c \in Names, Handle(c), ~CreateOrganizationCluster(c) PROVE CountTypes'
  <2>1. UNCHANGED <<uids, world>> /\ (events' = events \/ \E kind \in Kinds : Happens(kind))
    BY <1>2, <1>5 DEF Handle, FindTemplate, CreatePool, AnswerCreate, DeleteOrganizationCluster,
       CreateClusterNodePool, UpdateClusterNodePool, DeleteClusterNodePool, watched
  <2> QED BY <1>4, <1>c, <2>1
<1>6. ASSUME NEW c \in Names, Control(c) \/ Deliver(c) \/ Remove(c) PROVE CountTypes'
  <2>1. UNCHANGED <<uids, world>> /\ (events' = events \/ \E kind \in Kinds : Happens(kind))
    BY <1>2, <1>6 DEF Control, DeleteExpired, Reconcile, Forget, Deliver, Remove
  <2> QED BY <1>4, <1>c, <2>1
<1>7. ASSUME (\E n \in PoolNames : Collect(n)) \/ Resync PROVE CountTypes'
  <2>1. UNCHANGED <<uids, world, events>>
    BY <1>7 DEF Collect, Resync, watched
  <2> QED BY <1>4, <2>1
<1>8. ASSUME NEW part \in DOMAIN world, ChangeWorld(part) PROVE CountTypes'
  <2>1. events' \in 0 .. MaxCost /\ uids' = uids
    BY <1>2, <1>8, <1>c DEF ChangeWorld
  <2>2. part \in {"template", "release", "feature"}
    BY DEF CountTypes
  <2>3. world' = [world EXCEPT ![part] = ~world[part]]
    BY <1>8 DEF ChangeWorld
  <2>4. world' \in [template: BOOLEAN, release: BOOLEAN, feature: BOOLEAN]
    BY <2>2, <2>3 DEF CountTypes
  <2> QED BY <2>1, <2>4 DEF CountTypes
<1>9. ASSUME Happen, ~\E part \in DOMAIN world : ChangeWorld(part) PROVE CountTypes'
  <2>1. UNCHANGED <<uids, world>> /\ (\E kind \in Kinds : Happens(kind))
    BY <1>2, <1>9 DEF Happen, Edit, ChangeZone, Age, Restart
  <2> QED BY <1>4, <1>c, <2>1
<1> QED BY <1>1, <1>3, <1>5, <1>6, <1>7, <1>8, <1>9 DEF Next, Happen

LEMMA PoolsKept ==
  ASSUME ClusterTypes, PoolTypes, RequestTypes, [Next]_vars PROVE PoolTypes'
<1>p. Pools \subseteq Pool /\ NoPool \in Pool
  BY PoolIs
<1>1. CASE UNCHANGED pools
  BY <1>1 DEF PoolTypes
<1>2. ASSUME NEW name \in PoolNames, NEW y \in Pool, pools' = [pools EXCEPT ![name] = y] PROVE PoolTypes'
  BY <1>2 DEF PoolTypes
<1>3. ASSUME NEW c \in Names, CreatePool(c) PROVE PoolTypes'
  <2>1. CASE UNCHANGED pools
    BY <1>1, <2>1
  <2>2. CASE ~UNCHANGED pools
    <3>1. PICK r : r = requests[c]
      OBVIOUS
    <3>2. r \in Request /\ r.step = "pools" /\ r.uid # 0 /\ r.left # << >>
      BY <1>3, <3>1 DEF RequestTypes, CreatePool
    <3>3. r.left \in Lefts /\ r.replicas \in {0, 1} /\ r.uid \in UIDs
      <4>1. r.left \in Lefts /\ r.replicas \in {0, 1} /\ r.uid \in 0 .. MaxUID
        BY <3>2, RequestIs
      <4> QED BY <3>2, <4>1, ClustersAssumption DEF UIDs
    <3>4. Head(r.left) \in PoolNames
      BY <3>2, <3>3, LeftIs
    <3>5. pools' = [pools EXCEPT ![Head(r.left)] = [exists |-> TRUE, owner |-> r.uid, blocks |-> TRUE,
                                                    replicas |-> r.replicas]]
      BY <1>3, <2>2, <3>1 DEF CreatePool, OwnedBy
    <3>6. [exists |-> TRUE, owner |-> r.uid, blocks |-> TRUE, replicas |-> r.replicas] \in Pools
      BY <3>3 DEF Pools
    <3> QED BY <1>2, <1>p, <3>4, <3>5, <3>6
  <2> QED BY <2>1, <2>2
<1>4. ASSUME NEW c \in Names, NEW name \in PoolNames, CreateClusterNodePool(c, name) PROVE PoolTypes'
  <2>1. Exists(copies[c]) /\ copies[c] \in Live
    BY <1>4, ClusterIs DEF CreateClusterNodePool, PoolOwner, ClusterTypes
  <2>2. copies[c].uid \in UIDs
    BY <2>1, ClusterIs
  <2>3. PICK replicas \in {0, 1} :
          pools' = [pools EXCEPT ![name] = [exists |-> TRUE, owner |-> copies[c].uid, blocks |-> FALSE,
                                            replicas |-> replicas]]
    BY <1>4 DEF CreateClusterNodePool, PoolOwner
  <2>4. [exists |-> TRUE, owner |-> copies[c].uid, blocks |-> FALSE, replicas |-> replicas] \in Pools
    BY <2>2 DEF Pools
  <2> QED BY <1>2, <1>p, <2>3, <2>4
<1>5. ASSUME NEW c \in Names, NEW name \in PoolNames, UpdateClusterNodePool(c, name) PROVE PoolTypes'
  <2>1. pools[name] \in Pools
    BY <1>5, PoolIs DEF UpdateClusterNodePool, PoolTypes
  <2>2. [pools[name] EXCEPT !.replicas = 1] \in Pools
    BY <2>1 DEF Pools
  <2>3. pools' = [pools EXCEPT ![name] = [pools[name] EXCEPT !.replicas = 1]]
    BY <1>5 DEF UpdateClusterNodePool
  <2> QED BY <1>2, <1>p, <2>2, <2>3
<1>6. ASSUME NEW name \in PoolNames, Collect(name) \/ \E c \in Names : DeleteClusterNodePool(c, name)
      PROVE  PoolTypes'
  <2>1. pools' = [pools EXCEPT ![name] = NoPool]
    BY <1>6 DEF Collect, DeleteClusterNodePool
  <2> QED BY <1>2, <1>p, <2>1
<1>7. ASSUME NEW c \in Names,
             CreateOrganizationCluster(c) \/ FindTemplate(c) \/ AnswerCreate(c) \/ DeleteOrganizationCluster(c)
             \/ Control(c) \/ Deliver(c) \/ Remove(c)
      PROVE  PoolTypes'
  <2>1. UNCHANGED pools
    BY <1>7 DEF CreateOrganizationCluster, FindTemplate, AnswerCreate, DeleteOrganizationCluster,
       Control, DeleteExpired, Reconcile, Forget, Deliver, Remove
  <2> QED BY <1>1, <2>1
<1>8. ASSUME Happen \/ Resync \/ UNCHANGED vars PROVE PoolTypes'
  <2>1. UNCHANGED pools
    BY <1>8 DEF Happen, Edit, ChangeZone, Age, ChangeWorld, Restart, Resync, vars
  <2> QED BY <1>1, <2>1
<1> QED BY <1>3, <1>4, <1>5, <1>6, <1>7, <1>8 DEF Next, Handle

\* One request, or what several asked for, is written.
LEMMA OneRequest ==
  ASSUME RequestTypes, NEW c \in Names, NEW r \in Request, r.step # "none" => r.uid # 0,
         requests' = [requests EXCEPT ![c] = r]
  PROVE  RequestTypes'
BY DEF RequestTypes

LEMMA RequestsKept ==
  ASSUME ClusterTypes, RequestTypes, CountTypes, CountTypes', [Next]_vars PROVE RequestTypes'
<1>n. ASSUME NEW c \in Names PROVE NoRequest \in Request /\ NoRequest.step = "none"
  <2>1. << >> \in Lefts /\ {} \in PoolSets /\ 0 \in 0 .. MaxUID
    BY WholeLists, ClustersAssumption DEF PoolSets
  <2> QED BY <2>1, RequestIs DEF NoRequest, Steps, Froms
<1>1. CASE UNCHANGED requests
  BY <1>1 DEF RequestTypes
<1>e. ASSUME NEW c \in Names, End(c) PROVE RequestTypes'
  BY <1>e, <1>n, OneRequest DEF End
<1>2. ASSUME NEW c \in Names, CreateOrganizationCluster(c) PROVE RequestTypes'
  <2>1. PICK body \in Bodies[c] :
          requests' = [requests EXCEPT ![c] =
                [NoRequest EXCEPT !.step = "template", !.uid = uids + 1,
                                  !.from = body.from, !.replicas = body.replicas]]
    BY <1>2 DEF CreateOrganizationCluster
  <2>2. PICK from, replicas : from = body.from /\ replicas = body.replicas
    OBVIOUS
  <2>3. from \in Froms /\ replicas \in {0, 1}
    <3>1. body \in Body
      BY BodiesAssumption
    <3> QED BY <2>2, <3>1 DEF Body, Froms
  <2>4. uids + 1 \in 0 .. MaxUID /\ uids + 1 # 0
    BY <1>2 DEF CreateOrganizationCluster, CountTypes
  <2>5. PICK r : r = [NoRequest EXCEPT !.step = "template", !.uid = uids + 1,
                                       !.from = from, !.replicas = replicas]
    OBVIOUS
  <2>6. r \in Request /\ r.uid # 0
    BY <1>n, <2>3, <2>4, <2>5, RequestIs DEF Steps
  <2> QED BY <2>1, <2>2, <2>5, <2>6, OneRequest
<1>3. ASSUME NEW c \in Names, FindTemplate(c) PROVE RequestTypes'
  <2>1. PICK r : r = requests[c]
    OBVIOUS
  <2>2. r \in Request /\ r.uid # 0
    BY <1>3, <2>1 DEF FindTemplate, RequestTypes
  <2>3. PICK left : /\ left \in {Wanted[c], Templated[c]}
                    /\ \/ End(c)
                       \/ requests' = [requests EXCEPT ![c] = [r EXCEPT !.step = "pools", !.left = left,
                                                                        !.asked = Range(left)]]
    BY <1>3, <2>1 DEF FindTemplate
  <2>4. left \in Lefts
    BY <2>3, WholeLists
  <2>5. Range(left) \in PoolSets
    BY <2>4, LeftIs
  <2>6. [r EXCEPT !.step = "pools", !.left = left, !.asked = Range(left)] \in Request
        /\ [r EXCEPT !.step = "pools", !.left = left, !.asked = Range(left)].uid # 0
    BY <2>2, <2>4, <2>5, RequestIs DEF Steps
  <2> QED BY <1>e, <2>3, <2>6, OneRequest
<1>4. ASSUME NEW c \in Names, CreatePool(c) PROVE RequestTypes'
  <2>1. PICK r : r = requests[c]
    OBVIOUS
  <2>2. r \in Request /\ r.uid # 0 /\ r.left # << >>
    BY <1>4, <2>1 DEF CreatePool, RequestTypes
  <2>3. End(c) \/ requests' = [requests EXCEPT ![c] = [r EXCEPT !.left = Tail(r.left)]]
    BY <1>4, <2>1 DEF CreatePool
  <2>4. Tail(r.left) \in Lefts
    BY <2>2, RequestIs, LeftIs
  <2>5. [r EXCEPT !.left = Tail(r.left)] \in Request /\ [r EXCEPT !.left = Tail(r.left)].uid # 0
    BY <2>2, <2>4, RequestIs
  <2> QED BY <1>e, <2>3, <2>5, OneRequest
<1>5. ASSUME NEW c \in Names, AnswerCreate(c) PROVE RequestTypes'
  <2>1. PICK uid, asked : uid = requests[c].uid /\ asked = requests[c].asked
    OBVIOUS
  <2>2. uid # 0 /\ uid \in 0 .. MaxUID /\ asked \in PoolSets
    BY <1>5, <2>1, RequestIs DEF AnswerCreate, RequestTypes
  <2>3. PICK r : r = [NoRequest EXCEPT !.step = "created", !.uid = uid, !.asked = asked]
    OBVIOUS
  <2>4. r \in Request /\ r.uid # 0
    BY <1>n, <2>2, <2>3, RequestIs DEF Steps
  <2>5. requests' = [requests EXCEPT ![c] = r]
    BY <1>5, <2>1, <2>3 DEF AnswerCreate
  <2> QED BY <2>4, <2>5, OneRequest
<1>6. ASSUME NEW c \in Names, NEW name \in PoolNames, DeleteClusterNodePool(c, name) PROVE RequestTypes'
  <2>1. requests' = [d \in Names |-> IF requests[d].uid = pools[name].owner
                                     THEN [requests[d] EXCEPT !.asked = requests[d].asked \ {name}]
                                     ELSE requests[d]]
    BY <1>6 DEF DeleteClusterNodePool
  <2>2. ASSUME NEW r \in Request
        PROVE  LET q == [r EXCEPT !.asked = r.asked \ {name}]
               IN  q \in Request /\ q.step = r.step /\ q.uid = r.uid
    <3>1. r.asked \ {name} \in PoolSets
      BY <2>2, RequestIs DEF PoolSets
    <3> QED BY <2>2, <3>1, RequestIs
  <2>3. ASSUME NEW d \in Names
        PROVE  requests'[d] \in Request /\ requests'[d].step = requests[d].step
               /\ requests'[d].uid = requests[d].uid
    BY <2>1, <2>2 DEF RequestTypes
  <2>4. requests' \in [Names -> Request]
    BY <2>1, <2>3
  <2> QED BY <2>3, <2>4 DEF RequestTypes
<1>7. ASSUME NEW c \in Names, Remove(c) PROVE RequestTypes'
  <2>1. UNCHANGED requests \/ End(c)
    BY <1>7 DEF Remove, End
  <2> QED BY <1>1, <1>e, <2>1
<1>8. ASSUME Restart PROVE RequestTypes'
  BY <1>8, <1>n DEF Restart, RequestTypes
<1>9. ASSUME NEW c \in Names,
             \/ DeleteOrganizationCluster(c) \/ Control(c) \/ Deliver(c)
             \/ \E n \in PoolNames : CreateClusterNodePool(c, n) \/ UpdateClusterNodePool(c, n)
      PROVE  RequestTypes'
  <2>1. UNCHANGED requests
    BY <1>9 DEF DeleteOrganizationCluster, Control, DeleteExpired, Reconcile, Forget, Deliver,
       CreateClusterNodePool, UpdateClusterNodePool
  <2> QED BY <1>1, <2>1
<1>10. ASSUME \/ \E n \in PoolNames : Collect(n)
              \/ \E c \in Names : Edit(c) \/ ChangeZone(c)
              \/ \E uid \in 1 .. MaxUID : Age(uid)
              \/ \E part \in DOMAIN world : ChangeWorld(part)
              \/ Resync \/ UNCHANGED vars
       PROVE  RequestTypes'
  <2>1. UNCHANGED requests
    BY <1>10 DEF Edit, ChangeZone, Age, ChangeWorld, Collect, Resync, vars
  <2> QED BY <1>1, <2>1
<1> QED BY <1>2, <1>3, <1>4, <1>5, <1>6, <1>7, <1>8, <1>9, <1>10 DEF Next, Handle, Happen

LEMMA SetsKept ==
  ASSUME ClusterTypes, SetTypes, [Next]_vars PROVE SetTypes'
<1>1. ASSUME NEW c \in Names, Reconcile(c) PROVE SetTypes'
  <2>1. copies[c].uid \in UIDs
    BY <1>1, ClusterIs DEF Reconcile, ClusterTypes
  <2>2. /\ queue' \subseteq queue /\ outdated' \subseteq outdated /\ zones' = zones
        /\ timers' \subseteq timers \cup {c} /\ aged' \subseteq aged \cup {copies[c].uid}
    BY <1>1 DEF Reconcile
  <2> QED BY <2>1, <2>2 DEF SetTypes
<1>2. ASSUME NEW uid \in 1 .. MaxUID, Age(uid) PROVE SetTypes'
  BY <1>2 DEF Age, SetTypes, UIDs
<1>3. ASSUME NEW c \in Names, Deliver(c) \/ Remove(c) \/ DeleteExpired(c) \/ Forget(c) PROVE SetTypes'
  BY <1>3 DEF Deliver, Remove, DeleteExpired, Forget, SetTypes
<1>4. ASSUME NEW c \in Names, Edit(c) \/ ChangeZone(c) PROVE SetTypes'
  BY <1>4 DEF Edit, ChangeZone, SetTypes
<1>5. ASSUME (\E part \in DOMAIN world : ChangeWorld(part)) \/ Restart \/ Resync
             \/ UNCHANGED vars \/ (\E n \in PoolNames : Collect(n))
      PROVE  SetTypes'
  BY <1>5 DEF ChangeWorld, Restart, Resync, Collect, vars, watched, SetTypes
<1>6. ASSUME NEW c \in Names, Handle(c) PROVE SetTypes'
  <2>1. UNCHANGED <<queue, timers, aged, zones, outdated>>
    BY <1>6 DEF Handle, CreateOrganizationCluster, FindTemplate, CreatePool, AnswerCreate,
       DeleteOrganizationCluster, CreateClusterNodePool, UpdateClusterNodePool, DeleteClusterNodePool, watched
  <2> QED BY <2>1 DEF SetTypes
<1> QED BY <1>1, <1>2, <1>3, <1>4, <1>5, <1>6 DEF Next, Control, Happen

LEMMA CopiesKept ==
  ASSUME ClusterTypes, [Next]_vars
  PROVE  /\ copies' \in [Names -> Cluster]
         /\ \A c \in Names : copies'[c] = copies[c] \/ copies'[c] = clusters[c]
<1> DEFINE Kept == /\ copies' \in [Names -> Cluster]
                   /\ \A c \in Names : copies'[c] = copies[c] \/ copies'[c] = clusters[c]
<1>1. ASSUME NEW c \in Names, Deliver(c) PROVE Kept
  BY <1>1 DEF Deliver, ClusterTypes
<1>2. CASE Restart
  BY <1>2 DEF Restart, ClusterTypes
<1>3. CASE UNCHANGED copies
  BY <1>3 DEF ClusterTypes
<1>4. ASSUME NEW c \in Names, Handle(c) PROVE UNCHANGED copies
  BY <1>4 DEF Handle, CreateOrganizationCluster, FindTemplate, CreatePool, AnswerCreate,
       DeleteOrganizationCluster, CreateClusterNodePool, UpdateClusterNodePool, DeleteClusterNodePool, watched
<1>5. ASSUME NEW c \in Names, Control(c) \/ Remove(c) PROVE UNCHANGED copies
  BY <1>5 DEF Control, DeleteExpired, Reconcile, Forget, Remove
<1>6. ASSUME Happen, ~Restart PROVE UNCHANGED copies
  BY <1>6 DEF Happen, Edit, ChangeZone, Age, ChangeWorld
<1>7. ASSUME Resync \/ UNCHANGED vars \/ (\E n \in PoolNames : Collect(n)) PROVE UNCHANGED copies
  BY <1>7 DEF Resync, Collect, vars, watched
<1> QED BY <1>1, <1>2, <1>3, <1>4, <1>5, <1>6, <1>7 DEF Next

LEMMA TypesKept == TypeInv /\ [Next]_vars => TypeInv' /\ ClusterWrites
<1> SUFFICES ASSUME TypeInv, [Next]_vars PROVE TypeInv' /\ ClusterWrites
  OBVIOUS
<1>0. ClusterTypes /\ PoolTypes /\ RequestTypes /\ SetTypes /\ CountTypes
  BY DEF TypeInv
<1>1. CountTypes' /\ PoolTypes' /\ SetTypes'
  BY <1>0, CountsKept, PoolsKept, SetsKept
<1>2. RequestTypes'
  BY <1>0, <1>1, RequestsKept
<1>3. ClusterWrites
  <2>1. CASE Next
    BY <1>0, <1>1, <2>1, ClustersMove DEF CountTypes
  <2>2. CASE UNCHANGED vars
    BY <1>0, <2>2, NoneWritten DEF vars, watched
  <2> QED BY <2>1, <2>2
<1>4. copies' \in [Names -> Cluster]
  BY <1>0, CopiesKept
<1> QED BY <1>1, <1>2, <1>3, <1>4 DEF TypeInv, ClusterTypes, ClusterWrites

(***************************************************************************)
(* Clusters, their copies, node pools and requests keep their types: in     *)
(* particular a node pool that is there has an owner, because a request     *)
(* that creates node pools has created its cluster before.                  *)
(***************************************************************************)
THEOREM ClustersTyped == Spec => []TypeOK
BY TypesStart, TypesKept, TypeInvIs, PTL DEF Spec

-----------------------------------------------------------------------------
(* UIDs *)

\* No UID is used twice, and none is known before it is used.
UIDInv ==
    /\ \A c \in Names : clusters[c].uid <= uids /\ copies[c].uid <= uids /\ requests[c].uid <= uids
    /\ \A c, d \in Names : Exists(clusters[c]) /\ clusters[d].uid = clusters[c].uid => c = d

LEMMA UIDsTyped ==
  ASSUME TypeInv
  PROVE  /\ uids \in Nat
         /\ \A c \in Names : clusters[c].uid \in Nat /\ copies[c].uid \in Nat /\ requests[c].uid \in Nat
<1>1. \A cluster \in Cluster : cluster.uid \in Nat
  <2>1. \A cluster \in Live : cluster.uid \in Nat
    BY DEF Live, UIDs
  <2> QED BY <2>1, ClusterIs DEF NoCluster
<1>2. \A r \in Request : r.uid \in Nat
  BY RequestIs
<1> QED BY <1>1, <1>2 DEF TypeInv, ClusterTypes, RequestTypes, CountTypes

LEMMA UIDsStart == Init => UIDInv
BY DEF Init, UIDInv, NoCluster, NoRequest, Exists

\* A request keeps its UID, ends, or begins with the next one.
LEMMA RequestUIDs ==
  ASSUME TypeInv, [Next]_vars
  PROVE  /\ uids' = uids \/ uids' = uids + 1
         /\ \A c \in Names : requests'[c].uid \in {requests[c].uid, 0}
                             \/ (requests'[c].uid = uids + 1 /\ uids' = uids + 1)
<1> DEFINE Kept == \A c \in Names : requests'[c].uid \in {requests[c].uid, 0}
<1>0. requests \in [Names -> Request] /\ NoRequest.uid = 0
  BY DEF TypeInv, RequestTypes, NoRequest
<1>1. ASSUME UNCHANGED requests PROVE Kept
  BY <1>1
<1>2. ASSUME NEW c \in Names, CreateOrganizationCluster(c)
      PROVE  \A d \in Names : requests'[d].uid = requests[d].uid
                              \/ (requests'[d].uid = uids + 1 /\ uids' = uids + 1)
  <2>1. PICK body \in Bodies[c] :
          requests' = [requests EXCEPT ![c] =
                [NoRequest EXCEPT !.step = "template", !.uid = uids + 1,
                                  !.from = body.from, !.replicas = body.replicas]]
    BY <1>2 DEF CreateOrganizationCluster
  <2>2. requests'[c].uid = uids + 1
    BY <1>0, <2>1 DEF NoRequest
  <2>3. \A d \in Names \ {c} : requests'[d] = requests[d]
    BY <1>0, <2>1
  <2> QED BY <1>2, <2>2, <2>3 DEF CreateOrganizationCluster
<1>4. ASSUME NEW c \in Names, FindTemplate(c) \/ CreatePool(c) \/ AnswerCreate(c) \/ Remove(c) PROVE Kept
  <2>1. PICK r : r = requests[c]
    OBVIOUS
  <2>2. r \in Request
    BY <1>0, <2>1
  <2>3. \/ UNCHANGED requests
        \/ requests' = [requests EXCEPT ![c] = NoRequest]
        \/ \E left, asked : requests' = [requests EXCEPT ![c] = [r EXCEPT !.step = "pools", !.left = left,
                                                                          !.asked = asked]]
        \/ requests' = [requests EXCEPT ![c] = [r EXCEPT !.left = Tail(r.left)]]
        \/ requests' = [requests EXCEPT ![c] = [NoRequest EXCEPT !.step = "created", !.uid = r.uid,
                                                                 !.asked = r.asked]]
    <3>1. FindTemplate(c) => \/ requests' = [requests EXCEPT ![c] = NoRequest]
                             \/ \E left, asked :
                                  requests' = [requests EXCEPT ![c] = [r EXCEPT !.step = "pools", !.left = left,
                                                                                !.asked = asked]]
      BY <2>1 DEF FindTemplate, End
    <3>2. CreatePool(c) => \/ requests' = [requests EXCEPT ![c] = NoRequest]
                           \/ requests' = [requests EXCEPT ![c] = [r EXCEPT !.left = Tail(r.left)]]
      BY <2>1 DEF CreatePool, End
    <3>3. AnswerCreate(c) => requests' = [requests EXCEPT ![c] = [NoRequest EXCEPT !.step = "created",
                                                                  !.uid = r.uid, !.asked = r.asked]]
      BY <2>1 DEF AnswerCreate
    <3>4. Remove(c) => UNCHANGED requests \/ requests' = [requests EXCEPT ![c] = NoRequest]
      BY DEF Remove
    <3> QED BY <1>4, <3>1, <3>2, <3>3, <3>4
  <2>4. ASSUME NEW left, NEW asked PROVE [r EXCEPT !.step = "pools", !.left = left, !.asked = asked].uid = r.uid
    BY <2>2, RequestIs
  <2>5. [r EXCEPT !.left = Tail(r.left)].uid = r.uid
    BY <2>2, RequestIs
  <2>6. [NoRequest EXCEPT !.step = "created", !.uid = r.uid, !.asked = r.asked].uid = r.uid
    BY DEF NoRequest
  <2>7. ASSUME NEW left, NEW asked,
               requests' = [requests EXCEPT ![c] = [r EXCEPT !.step = "pools", !.left = left, !.asked = asked]]
        PROVE  Kept
    <3>1. PICK q : q = [r EXCEPT !.step = "pools", !.left = left, !.asked = asked]
      OBVIOUS
    <3>2. q.uid = r.uid
      BY <2>4, <3>1
    <3>3. requests' = [requests EXCEPT ![c] = q]
      BY <2>7, <3>1
    <3> QED BY <1>0, <2>1, <3>2, <3>3
  <2>8. ASSUME requests' = [requests EXCEPT ![c] = [r EXCEPT !.left = Tail(r.left)]] PROVE Kept
    <3>1. PICK q : q = [r EXCEPT !.left = Tail(r.left)]
      OBVIOUS
    <3>2. q.uid = r.uid
      BY <2>5, <3>1
    <3>3. requests' = [requests EXCEPT ![c] = q]
      BY <2>8, <3>1
    <3> QED BY <1>0, <2>1, <3>2, <3>3
  <2>9. ASSUME requests' = [requests EXCEPT ![c] = [NoRequest EXCEPT !.step = "created", !.uid = r.uid,
                                                                      !.asked = r.asked]]
         PROVE  Kept
    <3>1. PICK q : q = [NoRequest EXCEPT !.step = "created", !.uid = r.uid, !.asked = r.asked]
      OBVIOUS
    <3>2. q.uid = r.uid
      BY <2>6, <3>1
    <3>3. requests' = [requests EXCEPT ![c] = q]
      BY <2>9, <3>1
    <3> QED BY <1>0, <2>1, <3>2, <3>3
  <2>10. requests' = [requests EXCEPT ![c] = NoRequest] => Kept
    BY <1>0
  <2> HIDE DEF Kept
  <2> QED BY <1>1, <2>3, <2>7, <2>8, <2>9, <2>10
<1>5. ASSUME NEW c \in Names, NEW name \in PoolNames, DeleteClusterNodePool(c, name) PROVE Kept
  <2>1. ASSUME NEW d \in Names
        PROVE  requests'[d] = requests[d] \/ requests'[d] = [requests[d] EXCEPT !.asked = requests[d].asked \ {name}]
    BY <1>5 DEF DeleteClusterNodePool
  <2>2. ASSUME NEW r \in Request PROVE [r EXCEPT !.asked = r.asked \ {name}].uid = r.uid
    BY RequestIs
  <2> QED BY <1>0, <2>1, <2>2
<1>6. ASSUME Restart PROVE Kept
  BY <1>0, <1>6 DEF Restart
<1>7. ASSUME NEW c \in Names,
             \/ DeleteOrganizationCluster(c) \/ Control(c) \/ Deliver(c)
             \/ \E n \in PoolNames : CreateClusterNodePool(c, n) \/ UpdateClusterNodePool(c, n)
      PROVE  UNCHANGED requests
  BY <1>7 DEF DeleteOrganizationCluster, Control, DeleteExpired, Reconcile, Forget, Deliver,
     CreateClusterNodePool, UpdateClusterNodePool
<1>8. ASSUME \/ \E n \in PoolNames : Collect(n)
             \/ \E c \in Names : Edit(c) \/ ChangeZone(c)
             \/ \E uid \in 1 .. MaxUID : Age(uid)
             \/ \E part \in DOMAIN world : ChangeWorld(part)
             \/ Resync \/ UNCHANGED vars
      PROVE  UNCHANGED requests
  BY <1>8 DEF Edit, ChangeZone, Age, ChangeWorld, Collect, Resync, vars
<1>9. Kept \/ \E c \in Names : CreateOrganizationCluster(c)
  BY <1>1, <1>4, <1>5, <1>6, <1>7, <1>8 DEF Next, Handle, Happen
<1>10. uids' = uids \/ uids' = uids + 1
  <2>1. ASSUME NEW c \in Names, Handle(c) \/ Control(c) \/ Deliver(c) \/ Remove(c)
        PROVE  uids' = uids \/ uids' = uids + 1
    BY <2>1 DEF Handle, CreateOrganizationCluster, FindTemplate, CreatePool, AnswerCreate,
       DeleteOrganizationCluster, CreateClusterNodePool, UpdateClusterNodePool, DeleteClusterNodePool,
       Control, DeleteExpired, Reconcile, Forget, Deliver, Remove
  <2>2. ASSUME (\E n \in PoolNames : Collect(n)) \/ Happen \/ Resync \/ UNCHANGED vars PROVE uids' = uids
    BY <2>2 DEF Collect, Happen, Edit, ChangeZone, Age, ChangeWorld, Restart, Resync, vars
  <2> QED BY <2>1, <2>2 DEF Next
<1> QED BY <1>2, <1>9, <1>10

LEMMA UIDsKept == TypeInv /\ UIDInv /\ [Next]_vars => UIDInv'
<1> SUFFICES ASSUME TypeInv, UIDInv, [Next]_vars PROVE UIDInv'
  OBVIOUS
<1>0. TypeInv' /\ ClusterWrites
  BY TypesKept
<1>t. /\ uids \in Nat /\ \A c \in Names : clusters[c].uid \in Nat /\ copies[c].uid \in Nat /\ requests[c].uid \in Nat
      /\ \A c \in Names : clusters[c].uid <= uids /\ copies[c].uid <= uids /\ requests[c].uid <= uids
      /\ uids' = uids \/ uids' = uids + 1
  BY UIDsTyped, RequestUIDs DEF UIDInv
<1>1. ASSUME NEW c \in Names
      PROVE  \/ clusters'[c].uid = clusters[c].uid
             \/ clusters'[c].uid = 0
             \/ clusters'[c].uid = uids + 1 /\ uids' = uids + 1
  <2>1. ClusterWrite(c, clusters[c], clusters'[c])
    BY <1>0 DEF ClusterWrites
  <2>2. Exists(clusters[c]) => clusters[c] \in Live
    BY ClusterIs DEF TypeInv, ClusterTypes
  <2>3. \A x \in Live : [x EXCEPT !.deleting = TRUE].uid = x.uid
    BY DEF Live
  <2>4. NoCluster.uid = 0
    BY DEF NoCluster
  <2> QED BY <2>1, <2>2, <2>3, <2>4 DEF ClusterWrite
<1>2. ASSUME NEW c \in Names
      PROVE  clusters'[c].uid <= uids' /\ copies'[c].uid <= uids' /\ requests'[c].uid <= uids'
  <2>1. clusters'[c].uid <= uids'
    BY <1>t, <1>1
  <2>2. copies'[c] = copies[c] \/ copies'[c] = clusters[c]
    BY CopiesKept DEF TypeInv
  <2>3. copies'[c].uid <= uids'
    BY <1>t, <2>2
  <2>4. requests'[c].uid <= uids'
    BY <1>t, RequestUIDs
  <2> QED BY <2>1, <2>3, <2>4
<1>3. ASSUME NEW c \in Names, NEW d \in Names, Exists(clusters[c])', clusters'[d].uid = clusters'[c].uid
      PROVE  c = d
  <2>1. clusters'[c].uid # 0
    BY <1>3 DEF Exists
  <2>2. c = d \/ clusters'[c] = clusters[c] \/ clusters'[d] = clusters[d]
    BY <1>0 DEF ClusterWrites
  <2>3. ASSUME NEW e \in Names, clusters'[e].uid = uids + 1 PROVE clusters'[e] # clusters[e]
    BY <1>t, <2>3
  <2>4. clusters[c].uid = clusters[d].uid /\ clusters[c].uid # 0 => c = d
    BY DEF UIDInv, Exists
  <2> QED BY <1>1, <1>3, <1>t, <2>1, <2>2, <2>3, <2>4
<1> QED BY <1>2, <1>3 DEF UIDInv

-----------------------------------------------------------------------------
(* Reports *)

\* The upgrades that suit a version, while the feature is on.
Right(version) == IF world.feature THEN {v \in Versions : Suits(v, version)} ELSE {}

\* Comparing with the minor after the next and no patch offers what suits a version.
LEMMA OfferedSuits ==
  ASSUME NEW version \in Versions PROVE Offered(version) = {v \in Versions : Suits(v, version)}
<1> SUFFICES ASSUME NEW v \in Versions
             PROVE  NewerThan(v, version) /\ ~NewerThan(v, <<version[1] + 2, 0>>) <=> Suits(v, version)
  BY DEF Offered
<1>1. PICK m \in Nat, p \in Nat : version = <<m, p>>
  BY ClustersAssumption
<1>2. PICK n \in Nat, q \in Nat : v = <<n, q>>
  BY ClustersAssumption
<1>3. NewerThan(v, version) <=> n > m \/ (n = m /\ q > p)
  BY <1>1, <1>2 DEF NewerThan
<1>4. NewerThan(v, <<version[1] + 2, 0>>) <=> n > m + 2 \/ (n = m + 2 /\ q > 0)
  BY <1>1, <1>2 DEF NewerThan
<1>5. Suits(v, version) <=> (n = m /\ q > p) \/ n = m + 1 \/ (n = m + 2 /\ q = 0)
  BY <1>1, <1>2 DEF Suits
<1> QED BY <1>3, <1>4, <1>5

(***************************************************************************)
(* What the copy of a cluster shows is right, or the cluster was patched    *)
(* and its copy is late, unless it is about to be reconciled.  Of the       *)
(* upgrades this is so as far as anything tells the controller of them.     *)
(***************************************************************************)
Reported(c) ==
    /\ copies[c].zone = (c \in zones) \/ clusters[c].zone # copies[c].zone
    /\ \/ c \in outdated \/ ~world.release
       \/ copies[c].upgrades = Right(copies[c].version)
       \/ clusters[c].upgrades # copies[c].upgrades

Settled(c) ==
    /\ c \notin queue /\ Exists(copies[c]) /\ ~Expires(copies[c])
    /\ clusters[c].uid = copies[c].uid

ReportInv == \A c \in Names : Settled(c) => Reported(c)

LEMMA ReportStart == Init => ReportInv
BY DEF Init, ReportInv, Settled, Exists, NoCluster

LEMMA ReportMeans == TypeInv /\ ReportInv => WrongReportPending
<1> SUFFICES ASSUME TypeInv, ReportInv, NEW c \in Names,
                    Exists(clusters[c]), c \notin queue, copies[c] = clusters[c], ~Expires(clusters[c])
             PROVE  /\ clusters[c].zone = (c \in zones)
                    /\ \/ c \in outdated \/ ~world.release
                       \/ clusters[c].upgrades = Right(clusters[c].version)
  BY DEF WrongReportPending, Right
<1>1. Settled(c)
  BY DEF Settled
<1>2. Reported(c)
  BY <1>1 DEF ReportInv
<1> QED BY <1>2 DEF Reported

\* What the controller reports of a copy is right, as far as it is told.
LEMMA UpgradesRight ==
  ASSUME CountTypes, NEW cluster \in Live, world.release
  PROVE  Upgrades(cluster) = Right(cluster.version)
<1>1. cluster.version \in Versions
  BY DEF Live
<1>2. world.feature \in BOOLEAN
  BY DEF CountTypes
<1>3. CASE world.feature
  BY <1>1, <1>3, OfferedSuits DEF Upgrades, Right
<1>4. CASE ~world.feature
  BY <1>4 DEF Upgrades, Right
<1> QED BY <1>3, <1>4

LEMMA ReconcileReports ==
  ASSUME TypeInv, TypeInv', NEW c \in Names, Reconcile(c)
  PROVE  Settled(c)' => Reported(c)'
<1>0. ClusterTypes /\ CountTypes /\ clusters \in [Names -> Cluster] /\ copies[c] \in Live
      /\ Exists(copies[c])
  BY ClusterIs DEF TypeInv, ClusterTypes, Reconcile
<1>1. UNCHANGED <<copies, zones, world>>
  BY DEF Reconcile
<1>2. CASE ~Exists(clusters[c])
  <2>1. clusters' = clusters /\ clusters[c].uid = 0 /\ copies[c].uid # 0
    BY <1>0, <1>2 DEF Reconcile, Exists
  <2> QED BY <1>1, <2>1 DEF Settled
<1>3. CASE Exists(clusters[c])
  <2>1. clusters'[c] = Changed(c)
    BY <1>0, <1>3 DEF Reconcile
  <2>2. /\ clusters'[c].upgrades = IF Upgrades(copies[c]) # copies[c].upgrades THEN Upgrades(copies[c])
                                   ELSE clusters[c].upgrades
        /\ clusters'[c].zone = IF (c \in zones) # copies[c].zone THEN c \in zones ELSE clusters[c].zone
    BY <1>0, <1>3, <2>1, ChangedIs
  <2>3. copies[c].zone = (c \in zones) \/ clusters'[c].zone # copies[c].zone
    <3>1. CASE (c \in zones) # copies[c].zone
      BY <2>2, <3>1, Zenon
    <3> QED BY <3>1
  <2>4. \/ ~world.release
        \/ copies[c].upgrades = Right(copies[c].version)
        \/ clusters'[c].upgrades # copies[c].upgrades
    BY <1>0, <2>2, UpgradesRight
  <2> QED BY <1>1, <2>3, <2>4 DEF Reported, Right
<1> QED BY <1>2, <1>3

\* What the other steps do to what is reported of a cluster.
LEMMA Unreported ==
  ASSUME TypeInv, [Next]_vars, NEW c \in Names, ~Reconcile(c)
  PROVE  \/ c \in queue'
         \/ copies' = copies /\ Expires(copies[c]) /\ aged \subseteq aged'
         \/ ~Exists(copies'[c])
         \/ /\ c \notin queue /\ copies'[c] = copies[c] /\ aged \subseteq aged'
            /\ (c \in zones') = (c \in zones)
            /\ c \in outdated' \/ (world'.release = world.release /\ world'.feature = world.feature
                                   /\ c \notin outdated)
<1> DEFINE Goal == \/ c \in queue'
                   \/ copies' = copies /\ Expires(copies[c]) /\ aged \subseteq aged'
                   \/ ~Exists(copies'[c])
                   \/ /\ c \notin queue /\ copies'[c] = copies[c] /\ aged \subseteq aged'
                      /\ (c \in zones') = (c \in zones)
                      /\ c \in outdated' \/ (world'.release = world.release /\ world'.feature = world.feature
                                             /\ c \notin outdated)
<1>0. clusters \in [Names -> Cluster] /\ copies \in [Names -> Cluster] /\ outdated \subseteq Names
      /\ world \in [template: BOOLEAN, release: BOOLEAN, feature: BOOLEAN]
  BY DEF TypeInv, ClusterTypes, SetTypes, CountTypes
<1>1. ASSUME UNCHANGED <<copies, queue, aged, zones, world, outdated>> PROVE Goal
  BY <1>1
<1>2. ASSUME NEW d \in Names, Handle(d) \/ Edit(d) \/ Remove(d) PROVE Goal
  <2>1. UNCHANGED <<copies, queue, aged, zones, world, outdated>>
    BY <1>2 DEF Handle, CreateOrganizationCluster, FindTemplate, CreatePool, AnswerCreate,
       DeleteOrganizationCluster, CreateClusterNodePool, UpdateClusterNodePool, DeleteClusterNodePool, watched,
       Edit, Remove
  <2> QED BY <1>1, <2>1
<1>3. ASSUME NEW d \in Names, d # c, Control(d) PROVE Goal
  BY <1>3 DEF Control, DeleteExpired, Reconcile, Forget
<1>4. ASSUME DeleteExpired(c) \/ Forget(c) PROVE Goal
  BY <1>4 DEF DeleteExpired, Forget
<1>5. ASSUME NEW d \in Names, Deliver(d) \/ ChangeZone(d) PROVE Goal
  BY <1>0, <1>5 DEF Deliver, ChangeZone
<1>6. ASSUME NEW part \in DOMAIN world, ChangeWorld(part) PROVE Goal
  <2>1. part = "template" \/ c \in outdated'
    BY <1>6 DEF ChangeWorld
  <2>2. part = "template" => world'.release = world.release /\ world'.feature = world.feature
                             /\ outdated' = outdated
    BY <1>0, <1>6 DEF ChangeWorld
  <2> QED BY <1>6, <2>1, <2>2 DEF ChangeWorld
<1>7. ASSUME NEW uid \in 1 .. MaxUID, Age(uid) PROVE Goal
  BY <1>7 DEF Age
<1>8. ASSUME Restart PROVE Goal
  BY <1>8 DEF Restart
<1>9. ASSUME Resync \/ UNCHANGED vars \/ (\E n \in PoolNames : Collect(n)) PROVE Goal
  BY <1>9 DEF Resync, Collect, vars, watched
<1> QED BY <1>2, <1>3, <1>4, <1>5, <1>6, <1>7, <1>8, <1>9 DEF Next, Happen, Control

\* Only the controller changes what is reported, of the cluster that its copy shows.
LEMMA ReportStays ==
  ASSUME TypeInv, UIDInv, [Next]_vars, NEW c \in Names, ~Reconcile(c),
         Exists(copies[c]), clusters'[c].uid = copies[c].uid
  PROVE  /\ clusters[c].uid = copies[c].uid
         /\ clusters'[c].zone = clusters[c].zone /\ clusters'[c].upgrades = clusters[c].upgrades
<1>1. ClusterWrite(c, clusters[c], clusters'[c])
  BY TypesKept DEF ClusterWrites
<1>2. copies[c].uid # uids + 1 /\ copies[c].uid # 0 /\ NoCluster.uid = 0
  BY UIDsTyped DEF UIDInv, Exists, NoCluster
<1>3. Exists(clusters[c]) => clusters[c] \in Live
  BY ClusterIs DEF TypeInv, ClusterTypes
<1>4. ASSUME NEW x \in Live PROVE LET y == [x EXCEPT !.deleting = TRUE]
                                  IN  y.uid = x.uid /\ y.zone = x.zone /\ y.upgrades = x.upgrades
  BY DEF Live
<1> QED BY <1>1, <1>2, <1>3, <1>4 DEF ClusterWrite

LEMMA ReportKept == TypeInv /\ UIDInv /\ ReportInv /\ [Next]_vars => ReportInv'
<1> SUFFICES ASSUME TypeInv, UIDInv, ReportInv, [Next]_vars, NEW c \in Names, Settled(c)'
             PROVE  Reported(c)'
  BY DEF ReportInv
<1>1. CASE Reconcile(c)
  BY <1>1, ReconcileReports, TypesKept
<1>2. CASE ~Reconcile(c)
  <2>1. c \notin queue' /\ Exists(copies'[c]) /\ ~Expires(copies[c])' /\ clusters'[c].uid = copies'[c].uid
    BY DEF Settled, Exists
  <2>2. copies' = copies /\ Expires(copies[c]) /\ aged \subseteq aged' => Expires(copies[c])'
    BY DEF Expires, HasExpired
  <2>3. /\ c \notin queue /\ copies'[c] = copies[c] /\ aged \subseteq aged'
        /\ (c \in zones') = (c \in zones)
        /\ c \in outdated' \/ (world'.release = world.release /\ world'.feature = world.feature
                               /\ c \notin outdated)
    BY <1>2, <2>1, <2>2, Unreported
  <2>4. ~Expires(copies[c])
    BY <2>1, <2>3 DEF Expires, HasExpired
  <2>5. /\ clusters[c].uid = copies[c].uid
        /\ clusters'[c].zone = clusters[c].zone /\ clusters'[c].upgrades = clusters[c].upgrades
    BY <1>2, <2>1, <2>3, ReportStays
  <2>6. Reported(c)
    BY <2>1, <2>3, <2>4, <2>5 DEF ReportInv, Settled
  <2> QED BY <2>3, <2>5, <2>6 DEF Reported, Right
<1> QED BY <1>1, <1>2

(***************************************************************************)
(* WrongReportPending: whatever the informer shows late, a cluster whose    *)
(* report is wrong is in the queue, or will be when its copy is delivered,  *)
(* as long as nothing changed that the controller does not watch.           *)
(***************************************************************************)
THEOREM ReportsArePending == Spec => []WrongReportPending
<1>1. Spec => []TypeInv
  BY TypesStart, TypesKept, PTL DEF Spec
<1>2. Spec => []UIDInv
  BY <1>1, UIDsStart, UIDsKept, PTL DEF Spec
<1> QED BY <1>1, <1>2, ReportStart, ReportKept, ReportMeans, PTL DEF Spec

-----------------------------------------------------------------------------
(* Node pools that are asked for *)

Own(n, uid) == pools[n].exists /\ pools[n].owner = uid

(***************************************************************************)
(* A request creates the node pools it is asked for from the first to the   *)
(* last: what is not left to create is there, and owned by its cluster.     *)
(***************************************************************************)
Progress(c) ==
    LET r == requests[c] IN
    /\ r.step = "created" => r.left = << >>
    /\ r.step \in {"pools", "created"} /\ clusters[c].uid = r.uid /\ ~clusters[c].deleting =>
          \A n \in r.asked : n \in Range(r.left) \/ Own(n, r.uid)

ProgressInv == \A c \in Names : Progress(c)

LEMMA ProgressStart == Init => ProgressInv
BY DEF Init, ProgressInv, Progress, NoRequest

LEMMA NothingLeft == Range(<< >>) = {}
BY DEF Range

LEMMA ProgressMeans == TypeInv /\ ProgressInv => AnsweredWhole
BY NothingLeft DEF ProgressInv, Progress, AnsweredWhole, Own

\* A cluster that is there after a step and not being deleted was so before, or is new.
LEMMA ClusterBefore ==
  ASSUME TypeInv, UIDInv, [Next]_vars, NEW c \in Names, NEW uid \in Nat, uid # 0, uid <= uids,
         clusters'[c].uid = uid, ~clusters'[c].deleting
  PROVE  clusters[c].uid = uid /\ ~clusters[c].deleting
<1>1. ClusterWrite(c, clusters[c], clusters'[c])
  BY TypesKept DEF ClusterWrites
<1>2. uid # uids + 1 /\ NoCluster.uid = 0
  BY UIDsTyped DEF NoCluster
<1>3. Exists(clusters[c]) => clusters[c] \in Live
  BY ClusterIs DEF TypeInv, ClusterTypes
<1>4. \A x \in Live : [x EXCEPT !.deleting = TRUE].deleting = TRUE
  BY DEF Live
<1> QED BY <1>1, <1>2, <1>3, <1>4 DEF ClusterWrite

\* A node pool stays as long as its owner does, and nobody deletes it.
LEMMA PoolStays ==
  ASSUME TypeInv, UIDInv, [Next]_vars, NEW c \in Names, Exists(clusters[c]), ~clusters[c].deleting,
         NEW n \in PoolNames, Own(n, clusters[c].uid),
         ~\E d \in Names : DeleteClusterNodePool(d, n)
  PROVE  pools'[n].exists /\ pools'[n].owner = clusters[c].uid
<1> DEFINE Goal == pools'[n].exists /\ pools'[n].owner = clusters[c].uid
<1>0. pools \in [PoolNames -> Pool] /\ pools[n].exists /\ pools[n].owner = clusters[c].uid
  BY DEF TypeInv, PoolTypes, Own
<1>1. ASSUME pools'[n] = pools[n] PROVE Goal
  BY <1>0, <1>1
<1>2. ASSUME NEW d \in Names, CreatePool(d) PROVE Goal
  <2>1. \/ UNCHANGED pools
        \/ \E name, pool : ~pools[name].exists /\ pools' = [pools EXCEPT ![name] = pool]
    BY <1>2 DEF CreatePool
  <2> QED BY <1>0, <1>1, <2>1
<1>3. ASSUME NEW d \in Names, NEW name \in PoolNames, CreateClusterNodePool(d, name) PROVE Goal
  BY <1>0, <1>1, <1>3 DEF CreateClusterNodePool
<1>4. ASSUME NEW d \in Names, NEW name \in PoolNames, UpdateClusterNodePool(d, name) PROVE Goal
  <2>1. pools' = [pools EXCEPT ![name] = [pools[name] EXCEPT !.replicas = 1]]
    BY <1>4 DEF UpdateClusterNodePool
  <2>2. CASE name # n
    BY <1>0, <1>1, <2>1, <2>2
  <2>3. CASE name = n
    <3>1. pools[n] \in Pools
      BY <1>0, PoolIs
    <3>2. \A pool \in Pools : LET p == [pool EXCEPT !.replicas = 1]
                              IN  p.exists = pool.exists /\ p.owner = pool.owner
      BY DEF Pools
    <3>3. pools'[n] = [pools[n] EXCEPT !.replicas = 1]
      BY <1>0, <2>1, <2>3
    <3> QED BY <1>0, <3>1, <3>2, <3>3
  <2> QED BY <2>2, <2>3
<1>5. ASSUME NEW d \in Names, NEW name \in PoolNames, DeleteClusterNodePool(d, name) PROVE Goal
  <2>1. name # n
    BY <1>5
  <2> QED BY <1>0, <1>1, <1>5, <2>1 DEF DeleteClusterNodePool
<1>6. ASSUME NEW name \in PoolNames, Collect(name) PROVE Goal
  <2>1. CASE name # n
    BY <1>0, <1>1, <1>6, <2>1 DEF Collect
  <2>2. CASE name = n
    <3>1. HasOwner(pools[n])
      BY <1>0 DEF HasOwner
    <3>2. PICK d \in Names : clusters[d].deleting /\ clusters[d].uid = clusters[c].uid
      BY <1>0, <1>6, <2>2, <3>1 DEF Collect
    <3>3. c = d
      BY <3>2 DEF UIDInv
    <3> QED BY <3>2, <3>3
  <2> QED BY <2>1, <2>2
<1>7. ASSUME NEW d \in Names,
             CreateOrganizationCluster(d) \/ FindTemplate(d) \/ AnswerCreate(d) \/ DeleteOrganizationCluster(d)
             \/ Control(d) \/ Deliver(d) \/ Remove(d)
      PROVE  Goal
  <2>1. UNCHANGED pools
    BY <1>7 DEF CreateOrganizationCluster, FindTemplate, AnswerCreate, DeleteOrganizationCluster,
       Control, DeleteExpired, Reconcile, Forget, Deliver, Remove
  <2> QED BY <1>1, <2>1
<1>8. ASSUME Happen \/ Resync \/ UNCHANGED vars PROVE Goal
  <2>1. UNCHANGED pools
    BY <1>8 DEF Happen, Edit, ChangeZone, Age, ChangeWorld, Restart, Resync, vars
  <2> QED BY <1>1, <2>1
<1> QED BY <1>2, <1>3, <1>4, <1>5, <1>6, <1>7, <1>8 DEF Next, Handle

\* What a step makes of a request.
LEMMA RequestMoves ==
  ASSUME TypeInv, [Next]_vars, NEW c \in Names
  PROVE  \/ requests'[c] = requests[c] /\ ~\E d \in Names, n \in PoolNames : DeleteClusterNodePool(d, n)
         \/ requests'[c].step \in {"none", "template"}
         \/ requests'[c].step = "pools" /\ requests'[c].asked = Range(requests'[c].left)
         \/ CreatePool(c) \/ AnswerCreate(c)
         \/ \E d \in Names, n \in PoolNames : DeleteClusterNodePool(d, n)
<1> DEFINE Goal == \/ requests'[c] = requests[c] \/ requests'[c].step \in {"none", "template"}
                   \/ requests'[c].step = "pools" /\ requests'[c].asked = Range(requests'[c].left)
                   \/ CreatePool(c) \/ AnswerCreate(c)
                   \/ \E d \in Names, n \in PoolNames : DeleteClusterNodePool(d, n)
<1>0. requests \in [Names -> Request] /\ NoRequest.step = "none"
  BY DEF TypeInv, RequestTypes, NoRequest
<1>1. ASSUME NEW d \in Names, d # c, FindTemplate(d) \/ CreatePool(d) \/ AnswerCreate(d) \/ Remove(d)
      PROVE  Goal
  BY <1>0, <1>1 DEF FindTemplate, CreatePool, AnswerCreate, Remove, End
<1>2. ASSUME NEW d \in Names, CreateOrganizationCluster(d) PROVE Goal
  <2>1. CASE d = c
    <3>1. PICK body \in Bodies[c] :
            requests' = [requests EXCEPT ![c] =
                  [NoRequest EXCEPT !.step = "template", !.uid = uids + 1,
                                    !.from = body.from, !.replicas = body.replicas]]
      BY <1>2, <2>1 DEF CreateOrganizationCluster
    <3>2. requests'[c].step = "template"
      BY <1>0, <3>1 DEF NoRequest
    <3> QED BY <3>2
  <2>2. CASE d # c
    BY <1>0, <1>2, <2>2 DEF CreateOrganizationCluster
  <2> QED BY <2>1, <2>2
<1>3. ASSUME FindTemplate(c) PROVE Goal
  <2>1. PICK r, left : /\ r = requests[c]
                       /\ \/ End(c)
                          \/ requests' = [requests EXCEPT ![c] = [r EXCEPT !.step = "pools", !.left = left,
                                                                           !.asked = Range(left)]]
    BY <1>3 DEF FindTemplate
  <2>2. CASE End(c)
    BY <1>0, <2>2 DEF End
  <2>3. CASE requests' = [requests EXCEPT ![c] = [r EXCEPT !.step = "pools", !.left = left,
                                                           !.asked = Range(left)]]
    <3>1. requests'[c] = [r EXCEPT !.step = "pools", !.left = left, !.asked = Range(left)] /\ r \in Request
      BY <1>0, <2>1, <2>3
    <3>2. requests'[c].step = "pools" /\ requests'[c].left = left /\ requests'[c].asked = Range(left)
      BY <3>1, RequestIs
    <3> QED BY <3>2
  <2> QED BY <2>1, <2>2, <2>3
<1>4. ASSUME Remove(c) PROVE Goal
  BY <1>0, <1>4 DEF Remove
<1>5. ASSUME Restart PROVE Goal
  BY <1>0, <1>5 DEF Restart
<1>6. ASSUME NEW d \in Names,
             \/ DeleteOrganizationCluster(d) \/ Control(d) \/ Deliver(d)
             \/ \E n \in PoolNames : CreateClusterNodePool(d, n) \/ UpdateClusterNodePool(d, n)
      PROVE  UNCHANGED requests
  BY <1>6 DEF DeleteOrganizationCluster, Control, DeleteExpired, Reconcile, Forget, Deliver,
     CreateClusterNodePool, UpdateClusterNodePool
<1>7. ASSUME \/ \E n \in PoolNames : Collect(n)
             \/ \E d \in Names : Edit(d) \/ ChangeZone(d)
             \/ \E uid \in 1 .. MaxUID : Age(uid)
             \/ \E part \in DOMAIN world : ChangeWorld(part)
             \/ Resync \/ UNCHANGED vars
      PROVE  UNCHANGED requests
  BY <1>7 DEF Edit, ChangeZone, Age, ChangeWorld, Collect, Resync, vars
<1>8. Goal
  BY <1>1, <1>2, <1>3, <1>4, <1>5, <1>6, <1>7 DEF Next, Handle, Happen
<1> QED BY <1>8

LEMMA ProgressKept == TypeInv /\ UIDInv /\ ProgressInv /\ [Next]_vars => ProgressInv'
<1> SUFFICES ASSUME TypeInv, UIDInv, ProgressInv, [Next]_vars, NEW c \in Names PROVE Progress(c)'
  BY DEF ProgressInv
<1>0. /\ Progress(c) /\ requests \in [Names -> Request] /\ requests[c] \in Request
      /\ requests[c].step # "none" => requests[c].uid # 0
      /\ requests[c].uid \in Nat /\ requests[c].uid <= uids
      /\ pools \in [PoolNames -> Pool]
  BY UIDsTyped DEF ProgressInv, TypeInv, RequestTypes, PoolTypes, UIDInv
<1>a. requests[c].asked \subseteq PoolNames /\ requests[c].left \in Lefts
  BY <1>0, RequestIs DEF PoolSets
\* What was owned stays so.
<1>b. ASSUME requests[c].step \in {"pools", "created"}, clusters'[c].uid = requests[c].uid, ~clusters'[c].deleting
      PROVE  /\ clusters[c].uid = requests[c].uid /\ Exists(clusters[c]) /\ ~clusters[c].deleting
             /\ \A n \in requests[c].asked :
                   \/ n \in Range(requests[c].left)
                   \/ Own(n, requests[c].uid) /\ pools'[n].exists /\ pools'[n].owner = requests[c].uid
                   \/ Own(n, requests[c].uid) /\ \E d \in Names : DeleteClusterNodePool(d, n)
  <2>1. clusters[c].uid = requests[c].uid /\ Exists(clusters[c]) /\ ~clusters[c].deleting
    BY <1>0, <1>b, ClusterBefore DEF Exists
  <2>2. ASSUME NEW n \in requests[c].asked, n \notin Range(requests[c].left)
        PROVE  Own(n, requests[c].uid)
    BY <1>0, <1>b, <2>1, <2>2 DEF Progress
  <2>3. ASSUME NEW n \in requests[c].asked, Own(n, requests[c].uid),
               ~\E d \in Names : DeleteClusterNodePool(d, n)
        PROVE  pools'[n].exists /\ pools'[n].owner = requests[c].uid
    BY <1>a, <2>1, <2>3, PoolStays
  <2> QED BY <2>1, <2>2, <2>3
<1>1. CASE requests'[c] = requests[c] /\ ~\E d \in Names, n \in PoolNames : DeleteClusterNodePool(d, n)
  BY <1>0, <1>1, <1>a, <1>b DEF Progress, Own
<1>2. CASE requests'[c].step \in {"none", "template"}
  BY <1>2 DEF Progress
<1>3. CASE requests'[c].step = "pools" /\ requests'[c].asked = Range(requests'[c].left)
  BY <1>3 DEF Progress
<1>4. CASE CreatePool(c)
  <2>1. CASE End(c)
    <3>1. requests'[c].step = "none"
      BY <1>0, <2>1 DEF End, NoRequest
    <3> QED BY <1>2, <3>1
  <2>2. CASE ~End(c)
    <3>1. PICK r, y : r = requests[c] /\ y = [r EXCEPT !.left = Tail(r.left)]
      OBVIOUS
    <3>2. /\ r \in Request /\ r.left \in Lefts /\ r.left # << >> /\ r.step = "pools"
          /\ requests'[c] = y
          /\ pools' = [pools EXCEPT ![Head(r.left)] = [exists |-> TRUE, owner |-> r.uid, blocks |-> TRUE,
                                                       replicas |-> r.replicas]]
      BY <1>0, <1>4, <1>a, <2>2, <3>1 DEF CreatePool, OwnedBy
    <3>3. y.left = Tail(r.left) /\ y.step = "pools" /\ y.uid = r.uid /\ y.asked = r.asked
      BY <3>1, <3>2, RequestIs
    <3>4. Head(r.left) \in PoolNames
      BY <3>2, LeftIs
    <3>5. pools'[Head(r.left)].exists /\ pools'[Head(r.left)].owner = r.uid
      BY <1>0, <3>2, <3>4
    <3>6. ~\E d \in Names, n \in PoolNames : DeleteClusterNodePool(d, n)
      <4> SUFFICES ASSUME NEW d \in Names, NEW n \in PoolNames, DeleteClusterNodePool(d, n) PROVE FALSE
        OBVIOUS
      <4>1. pools[n].exists /\ pools'[n] = NoPool
        BY <1>0 DEF DeleteClusterNodePool
      <4>2. n = Head(r.left) \/ pools'[n] = pools[n]
        BY <1>0, <3>2
      <4> QED BY <3>5, <4>1, <4>2, PoolIs
    <3>7. ASSUME clusters'[c].uid = r.uid, ~clusters'[c].deleting, NEW n \in r.asked
          PROVE  n \in Range(Tail(r.left)) \/ (pools'[n].exists /\ pools'[n].owner = r.uid)
      <4>1. n \in Range(r.left) \/ (pools'[n].exists /\ pools'[n].owner = r.uid)
        BY <1>a, <1>b, <3>1, <3>2, <3>6, <3>7
      <4>2. n \in Range(r.left) => n = Head(r.left) \/ n \in Range(Tail(r.left))
        BY <3>2, HeadAndTail
      <4> QED BY <3>5, <4>1, <4>2
    <3> QED BY <3>2, <3>3, <3>7 DEF Progress, Own
  <2> QED BY <2>1, <2>2
<1>5. CASE AnswerCreate(c)
  <2>1. PICK uid, asked, r : /\ uid = requests[c].uid /\ asked = requests[c].asked
                             /\ r = [NoRequest EXCEPT !.step = "created", !.uid = uid, !.asked = asked]
    OBVIOUS
  <2>2. r.step = "created" /\ r.uid = uid /\ r.asked = asked /\ r.left = << >>
    BY <2>1 DEF NoRequest
  <2>3. /\ requests[c].step = "pools" /\ requests[c].left = << >> /\ requests'[c] = r
        /\ pools' = pools /\ clusters' = clusters
    BY <1>0, <1>5, <2>1 DEF AnswerCreate, watched
  <2>4. ASSUME clusters'[c].uid = uid, ~clusters'[c].deleting, NEW n \in asked PROVE Own(n, uid)
    BY <1>0, <2>1, <2>3, <2>4, NothingLeft DEF Progress
  <2> QED BY <2>1, <2>2, <2>3, <2>4 DEF Progress, Own
<1>6. ASSUME NEW d \in Names, NEW name \in PoolNames, DeleteClusterNodePool(d, name) PROVE Progress(c)'
  <2>1. PICK r, y : /\ r = requests[c]
                    /\ y = IF r.uid = pools[name].owner THEN [r EXCEPT !.asked = r.asked \ {name}] ELSE r
    OBVIOUS
  <2>2. r \in Request /\ requests'[c] = y
    BY <1>0, <1>6, <2>1 DEF DeleteClusterNodePool
  <2>3. /\ y.step = r.step /\ y.uid = r.uid /\ y.left = r.left /\ y.asked \subseteq r.asked
        /\ r.uid = pools[name].owner => name \notin y.asked
    BY <2>1, <2>2, RequestIs
  <2>4. pools' = [pools EXCEPT ![name] = NoPool] /\ UNCHANGED clusters
    BY <1>6 DEF DeleteClusterNodePool, watched
  <2>5. ASSUME r.step \in {"pools", "created"}, clusters'[c].uid = r.uid, ~clusters'[c].deleting,
               NEW n \in y.asked, n \notin Range(r.left)
        PROVE  pools'[n].exists /\ pools'[n].owner = r.uid
    <3>1. Own(n, r.uid)
      BY <1>b, <2>1, <2>3, <2>5
    <3>2. n # name
      BY <2>3, <2>5, <3>1 DEF Own
    <3>3. pools'[n] = pools[n]
      BY <1>0, <2>4, <3>2
    <3> QED BY <3>1, <3>3 DEF Own
  <2> QED BY <1>0, <2>1, <2>2, <2>3, <2>5 DEF Progress, Own
<1> QED BY <1>1, <1>2, <1>3, <1>4, <1>5, <1>6, RequestMoves

(***************************************************************************)
(* AnsweredWhole: the answer comes after the last node pool, and nothing    *)
(* takes a node pool from a cluster that stays.                             *)
(***************************************************************************)
THEOREM AnswersAreWhole == Spec => []AnsweredWhole
<1>1. Spec => []TypeInv
  BY TypesStart, TypesKept, PTL DEF Spec
<1>2. Spec => []UIDInv
  BY <1>1, UIDsStart, UIDsKept, PTL DEF Spec
<1> QED BY <1>1, <1>2, ProgressStart, ProgressKept, ProgressMeans, PTL DEF Spec

=============================================================================
