------------------------- MODULE OrganizationsProofs -------------------------
(***************************************************************************)
(* Theorems about Organizations for any number of organizations and users,  *)
(* any durations, any delay of the informers and any number of failures.    *)
(***************************************************************************)
EXTENDS Organizations, SequenceTheorems, TLAPS

\* Every version of the organizations, the members and so on is in S.
OrgsIn(S) == orgs \in S /\ orgCache \in S /\ orgWatch \in Seq(S)
ClustersIn(S) == clusters \in S /\ clusterCache \in S /\ clusterWatch \in Seq(S)
MembersIn(S) == members \in S /\ memberCache \in S /\ memberWatch \in Seq(S)
RbacIn(S) == rbac \in S /\ rbacCache \in S /\ rbacWatch \in Seq(S)

LEMMA NextVersions ==
  ASSUME NEW S, NEW s \in S, NEW c \in S, NEW w \in Seq(S), NEW t, NEW d, NEW x,
         \/ t \in S /\ d = c /\ (x = w \/ x = Append(w, t))
         \/ t = s /\ w # << >> /\ d = Head(w) /\ x = Tail(w)
         \/ t = s /\ d = s /\ x = << >>
         \/ t = s /\ d = c /\ x = w
  PROVE  t \in S /\ d \in S /\ x \in Seq(S)
<1>1. CASE t \in S /\ d = c /\ (x = w \/ x = Append(w, t))
  BY <1>1, AppendProperties
<1>2. CASE t = s /\ w # << >> /\ d = Head(w) /\ x = Tail(w)
  BY <1>2, HeadTailProperties
<1>3. CASE t = s /\ d = s /\ x = << >>
  BY <1>3, EmptySeq
<1> QED BY <1>1, <1>2, <1>3

LEMMA OrgMove ==
  ASSUME NEW S, OrgsIn(S),
         \/ \E s \in S : O!Write(s)
         \/ O!Deliver \/ O!Relist \/ UNCHANGED orgVars
  PROVE  orgs' \in S /\ orgCache' \in S /\ orgWatch' \in Seq(S)
BY NextVersions DEF OrgsIn, O!Write, O!Deliver, O!Relist, orgVars

LEMMA ClusterMove ==
  ASSUME NEW S, ClustersIn(S),
         \/ \E s \in S : C!Write(s)
         \/ C!Deliver \/ C!Relist \/ UNCHANGED clusterVars
  PROVE  clusters' \in S /\ clusterCache' \in S /\ clusterWatch' \in Seq(S)
BY NextVersions DEF ClustersIn, C!Write, C!Deliver, C!Relist, clusterVars

LEMMA MemberMove ==
  ASSUME NEW S, MembersIn(S),
         \/ \E s \in S : M!Write(s)
         \/ M!Deliver \/ M!Relist \/ UNCHANGED memberVars
  PROVE  members' \in S /\ memberCache' \in S /\ memberWatch' \in Seq(S)
BY NextVersions DEF MembersIn, M!Write, M!Deliver, M!Relist, memberVars

LEMMA RbacMove ==
  ASSUME NEW S, RbacIn(S),
         \/ \E s \in S : R!Write(s)
         \/ R!Deliver \/ R!Relist \/ UNCHANGED rbacVars
  PROVE  rbac' \in S /\ rbacCache' \in S /\ rbacWatch' \in Seq(S)
BY NextVersions DEF RbacIn, R!Write, R!Deliver, R!Relist, rbacVars

-----------------------------------------------------------------------------
(* Types *)

Ctl == [step: ControllerStep, org: Orgs, copy: Organization, part: Parts,
        bound: {"none", "False", "True"}, failed: BOOLEAN, due: {0} \cup Durations]

Creation == [step: {"none", "organization", "owner", "member", "done", "failed"},
             user: Users, duration: {0} \cup Durations]

LocalTypes ==
    /\ namespaces \in [Orgs -> {"free", "unowned", "owned", "gone"}]
    /\ creation \in [Orgs -> Creation]
    /\ elapsed \in [Orgs -> Age] /\ autoAssign \in BOOLEAN
    /\ promoted \in [Orgs -> SUBSET Users] /\ older \subseteq clusters
    /\ undone \subseteq Orgs /\ events \in 0 .. MaxEvents

ControllerTypes ==
    /\ queue \subseteq Orgs /\ timers \in [Orgs -> {0} \cup Durations]
    /\ ctl \in Ctl

LEMMA TypeOKParts ==
  TypeOK <=> /\ OrgsIn(OrgStore) /\ ClustersIn(ClusterStore) /\ MembersIn(MemberStore)
             /\ RbacIn(RbacStore) /\ LocalTypes /\ ControllerTypes
BY DEF TypeOK, OrgsIn, ClustersIn, MembersIn, RbacIn, LocalTypes, ControllerTypes, Ctl, Creation

LEMMA Defaults ==
  /\ NoOrganization \in Organization /\ NoRbac \in Rbac
  /\ Idle \in Ctl /\ Idle.step = "idle" /\ Idle.bound = "none" /\ Idle.part = 1
  /\ Durations \subseteq Nat
<1>1. NoOrganization \in Organization /\ NoRbac \in Rbac
  BY DEF NoOrganization, Organization, NoRbac, Rbac
<1>2. (CHOOSE o \in Orgs : TRUE) \in Orgs
  BY OrganizationsAssumption
<1>3. Idle \in Ctl
  BY <1>1, <1>2 DEF Idle, Ctl, ControllerStep, Parts
<1> QED BY <1>1, <1>3, OrganizationsAssumption DEF Idle

LEMMA InitTypes == Init => TypeOK
<1> SUFFICES ASSUME Init PROVE TypeOK
  OBVIOUS
<1>1. OrgsIn(OrgStore)
  BY Defaults, EmptySeq DEF Init, OrgsIn, OrgStore
<1>2. ClustersIn(ClusterStore) /\ MembersIn(MemberStore)
  BY EmptySeq DEF Init, ClustersIn, ClusterStore, MembersIn, MemberStore
<1>3. RbacIn(RbacStore)
  BY Defaults, EmptySeq DEF Init, RbacIn, RbacStore
<1>4. (CHOOSE u \in Users : TRUE) \in Users
  BY OrganizationsAssumption
<1>5. LocalTypes
  BY <1>4, OrganizationsAssumption DEF Init, LocalTypes, Creation, Age
<1>6. ControllerTypes
  BY Defaults DEF Init, ControllerTypes
<1> QED BY <1>1, <1>2, <1>3, <1>5, <1>6, TypeOKParts

(***************************************************************************)
(* What a step may do to one organization: nothing, its creation, a patch   *)
(* of the duration, of the condition or of the stamp, its deletion, the     *)
(* finalizer of the controller, its removal, and the garbage collector.     *)
(***************************************************************************)
OrgWrite(x, y, o) ==
    \/ y = x
    \/ /\ creation[o].step = "organization" /\ creation'[o].step = "owner"
       /\ \E d \in {0} \cup Durations : y = [NoOrganization EXCEPT !.phase = "live", !.duration = d]
    \/ Exists(x) /\ \E d \in {0} \cup Durations : y = [x EXCEPT !.duration = d]
    \/ Exists(x) /\ y = [x EXCEPT !.phase = "deleting", !.foreground = TRUE]
    \/ /\ x.phase = "live" \/ (Exists(x) /\ x.finalizer)
       /\ y = [x EXCEPT !.finalizer = TRUE, !.foreground = FALSE]
       /\ x.foreground => o \in undone'
    \/ At("conditions") /\ o = ctl.org /\ Exists(x) /\ y = [x EXCEPT !.bound = ctl.bound]
    \/ Exists(x) /\ \E d \in {0} \cup Durations : y = [x EXCEPT !.stamp = d]
    \/ /\ At("remove") /\ o = ctl.org /\ Exists(x)
       /\ y = Settled([x EXCEPT !.finalizer = FALSE, !.foreground = ctl.copy.foreground])
    \/ x.foreground /\ o \notin clusters /\ y = Settled([x EXCEPT !.foreground = FALSE])

OrgVersions == O!Write(orgs') \/ O!Deliver \/ O!Relist \/ UNCHANGED orgVars

OrgStep == /\ OrgVersions
           /\ orgs' \in OrgStore
           /\ \A o \in Orgs : OrgWrite(orgs[o], orgs'[o], o)

LEMMA OrgWriteType ==
  ASSUME NEW x \in Organization, NEW o \in Orgs, NEW y, ctl \in Ctl, OrgWrite(x, y, o)
  PROVE  y \in Organization
<1>1. /\ ctl.bound \in {"none", "False", "True"} /\ ctl.copy.foreground \in BOOLEAN
      /\ NoOrganization \in Organization
  BY Defaults DEF Ctl, Organization
<1>2. \A z \in Organization : Settled(z) \in Organization
  BY DEF Settled, Organization
<1>3. /\ [x EXCEPT !.finalizer = FALSE, !.foreground = ctl.copy.foreground] \in Organization
      /\ [x EXCEPT !.foreground = FALSE] \in Organization
  BY <1>1 DEF Organization
<1>4. CASE y = Settled([x EXCEPT !.finalizer = FALSE, !.foreground = ctl.copy.foreground])
  BY <1>2, <1>3, <1>4
<1>5. CASE y = Settled([x EXCEPT !.foreground = FALSE])
  BY <1>2, <1>3, <1>5
<1> QED BY <1>1, <1>4, <1>5 DEF OrgWrite, Organization

\* One organization is written, the others are not.
LEMMA OneOrg ==
  ASSUME orgs \in OrgStore, ctl \in Ctl, NEW o \in Orgs, NEW y,
         OrgWrite(orgs[o], y, o), O!Write([orgs EXCEPT ![o] = y])
  PROVE  OrgStep
<1>1. orgs[o] \in Organization
  BY DEF OrgStore
<1>2. y \in Organization
  BY <1>1, OrgWriteType
<1>3. orgs' = [orgs EXCEPT ![o] = y] /\ orgs' \in OrgStore
  BY <1>2 DEF O!Write, OrgStore
<1>4. \A q \in Orgs : OrgWrite(orgs[q], orgs'[q], q)
  BY <1>3 DEF OrgWrite, OrgStore
<1>5. O!Write(orgs')
  BY <1>3
<1> QED BY <1>3, <1>4, <1>5 DEF OrgStep, OrgVersions

LEMMA SameOrgs ==
  ASSUME orgs \in OrgStore,
         O!Write(orgs) \/ O!Deliver \/ O!Relist \/ UNCHANGED orgVars
  PROVE  OrgStep
<1>1. orgs' = orgs
  BY DEF O!Write, O!Deliver, O!Relist, orgVars
<1> QED BY <1>1 DEF OrgStep, OrgVersions, OrgWrite

LEMMA OrgSteps == ASSUME TypeOK, [Next]_vars PROVE OrgStep
<1>a. orgs \in OrgStore /\ ctl \in Ctl /\ creation \in [Orgs -> Creation]
      /\ \A o \in Orgs : orgs[o] \in Organization /\ orgCache[o] \in Organization
  BY DEF TypeOK, OrgStore, Ctl, Creation
<1>b. ctl.org \in Orgs /\ ctl.copy \in Organization
  BY <1>a DEF Ctl
<1>1. CASE UNCHANGED orgVars
  BY <1>1, <1>a, SameOrgs
<1>2. ASSUME NEW o \in Orgs, CreateOrganization(o) PROVE OrgStep
  <2>1. CASE UNCHANGED orgVars
    BY <2>1, <1>1
  <2>2. ASSUME O!Write([orgs EXCEPT ![o] = [NoOrganization EXCEPT !.phase = "live",
                                               !.duration = creation[o].duration]]),
               creation[o].step = "organization", creation'[o].step = "owner"
        PROVE  OrgStep
    <3>1. creation[o].duration \in {0} \cup Durations
      BY <1>a DEF Creation
    <3> DEFINE y == [NoOrganization EXCEPT !.phase = "live", !.duration = creation[o].duration]
    <3>2. OrgWrite(orgs[o], y, o)
      BY <2>2, <3>1 DEF OrgWrite
    <3> HIDE DEF y
    <3> QED BY <2>2, <3>2, <1>a, OneOrg DEF y
  <2> QED BY <1>2, <1>a, <2>1, <2>2 DEF CreateOrganization, Step, Creation
<1>3. ASSUME NEW o \in Orgs, NEW d \in {0} \cup Durations, UpdateGlobalOrganization(o, d)
      PROVE  OrgStep
  <2>1. CASE O!Write(orgs)
    BY <2>1, <1>a, SameOrgs
  <2>2. CASE O!Write([orgs EXCEPT ![o].duration = d])
    <3> DEFINE y == [orgs[o] EXCEPT !.duration = d]
    <3>1. O!Write([orgs EXCEPT ![o] = y])
      BY <2>2
    <3>2. OrgWrite(orgs[o], y, o)
      BY <1>3 DEF OrgWrite, UpdateGlobalOrganization
    <3> HIDE DEF y
    <3> QED BY <3>1, <3>2, <1>a, OneOrg
  <2> QED BY <1>3, <2>1, <2>2 DEF UpdateGlobalOrganization
<1>4. ASSUME NEW o \in Orgs, Exists(orgs[o]), Delete(o) PROVE OrgStep
  <2> DEFINE y == [orgs[o] EXCEPT !.phase = "deleting", !.foreground = TRUE]
  <2>1. O!Write([orgs EXCEPT ![o] = y])
    BY <1>4 DEF Delete
  <2>2. OrgWrite(orgs[o], y, o)
    BY <1>4 DEF OrgWrite
  <2> HIDE DEF y
  <2> QED BY <2>1, <2>2, <1>a, OneOrg
<1>5. ASSUME AddFinalizer PROVE OrgStep
  <2>1. CASE UNCHANGED orgVars
    BY <2>1, <1>1
  <2>2. ASSUME NEW o \in Orgs, o = ctl.org,
               O!Write([orgs EXCEPT ![o].finalizer = TRUE, ![o].foreground = FALSE]),
               orgs[o].phase = "live" \/ (Exists(orgs[o]) /\ orgs[o].finalizer),
               orgs[o].foreground => o \in undone'
        PROVE  OrgStep
    <3> DEFINE y == [orgs[o] EXCEPT !.finalizer = TRUE, !.foreground = FALSE]
    <3>1. O!Write([orgs EXCEPT ![o] = y])
      BY <2>2
    <3>2. OrgWrite(orgs[o], y, o)
      BY <2>2 DEF OrgWrite
    <3> HIDE DEF y
    <3> QED BY <3>1, <3>2, <1>a, OneOrg
  <2> QED BY <1>5, <1>b, <2>1, <2>2 DEF AddFinalizer
<1>6. ASSUME PatchConditions PROVE OrgStep
  <2>1. CASE O!Write(orgs)
    BY <2>1, <1>a, SameOrgs
  <2>2. ASSUME NEW o \in Orgs, o = ctl.org, O!Write([orgs EXCEPT ![o].bound = ctl.bound]),
               At("conditions"), Exists(orgs[o])
        PROVE  OrgStep
    <3> DEFINE y == [orgs[o] EXCEPT !.bound = ctl.bound]
    <3>1. O!Write([orgs EXCEPT ![o] = y])
      BY <2>2
    <3>2. OrgWrite(orgs[o], y, o)
      BY <2>2 DEF OrgWrite
    <3> HIDE DEF y
    <3> QED BY <3>1, <3>2, <1>a, OneOrg
  <2> QED BY <1>6, <1>b, <2>1, <2>2 DEF PatchConditions
<1>7. ASSUME PatchStatus PROVE OrgStep
  <2>1. CASE O!Write(orgs) \/ UNCHANGED orgVars
    BY <2>1, <1>a, SameOrgs
  <2>2. ASSUME NEW o \in Orgs, o = ctl.org, O!Write([orgs EXCEPT ![o].stamp = ctl.copy.duration]),
               Exists(orgs[o])
        PROVE  OrgStep
    <3> DEFINE y == [orgs[o] EXCEPT !.stamp = ctl.copy.duration]
    <3>1. O!Write([orgs EXCEPT ![o] = y])
      BY <2>2
    <3>2. OrgWrite(orgs[o], y, o)
      BY <1>b, <2>2 DEF OrgWrite, Organization
    <3> HIDE DEF y
    <3> QED BY <3>1, <3>2, <1>a, OneOrg
  <2> QED BY <1>7, <1>b, <2>1, <2>2 DEF PatchStatus
<1>8. ASSUME RemoveFinalizer PROVE OrgStep
  <2>1. CASE O!Write(orgs) \/ UNCHANGED orgVars
    BY <2>1, <1>a, SameOrgs
  <2>2. ASSUME NEW o \in Orgs, o = ctl.org, At("remove"), Exists(orgs[o]),
               O!Write([orgs EXCEPT ![o] = Settled([orgs[o] EXCEPT
                              !.finalizer = FALSE, !.foreground = ctl.copy.foreground])])
        PROVE  OrgStep
    <3> DEFINE y == Settled([orgs[o] EXCEPT !.finalizer = FALSE,
                                            !.foreground = ctl.copy.foreground])
    <3>1. OrgWrite(orgs[o], y, o)
      BY <2>2 DEF OrgWrite
    <3>2. O!Write([orgs EXCEPT ![o] = y])
      BY <2>2
    <3> HIDE DEF y
    <3> QED BY <3>1, <3>2, <1>a, OneOrg
  <2> QED BY <1>8, <1>b, <2>1, <2>2 DEF RemoveFinalizer
<1>9. ASSUME NEW o \in Orgs, CollectOrganization(o) PROVE OrgStep
  <2> DEFINE y == Settled([orgs[o] EXCEPT !.foreground = FALSE])
  <2>1. OrgWrite(orgs[o], y, o)
    BY <1>9 DEF OrgWrite, CollectOrganization
  <2>2. O!Write([orgs EXCEPT ![o] = y])
    BY <1>9 DEF CollectOrganization
  <2> HIDE DEF y
  <2> QED BY <2>1, <2>2, <1>a, OneOrg
<1>10. ASSUME Next PROVE OrgStep
  <2>1. ASSUME NEW o \in Orgs, DeleteGlobalOrganization(o) PROVE OrgStep
    BY <2>1, <1>4 DEF DeleteGlobalOrganization
  <2>2. ASSUME DeleteExpired PROVE OrgStep
    BY <2>2, <1>1, <1>4, <1>b DEF DeleteExpired
  <2>3. CASE DeliverOrg \/ Restart
    BY <2>3, <1>a, SameOrgs DEF DeliverOrg, Restart
  <2>4. CASE Controller
    BY <2>2, <2>4, <1>1, <1>5, <1>6, <1>7, <1>8 DEF Controller, Bind, ListClusters
  <2>5. CASE DeliverCluster \/ DeliverMember \/ DeliverRbac \/ ControllerError \/ ToggleFeature
    BY <2>5, <1>1 DEF DeliverCluster, DeliverMember, DeliverRbac, ControllerError, ToggleFeature
  <2>6. ASSUME NEW o \in Orgs,
               \/ \E u \in Users, d \in {0} \cup Durations : CreateNamespace(o, u, d)
               \/ OwnNamespace(o) \/ CreateMember(o) \/ CreateCluster(o) \/ DeleteCluster(o)
               \/ \E u \in Users, role \in {"none", "User", "SuperUser"} : ChangeMember(o, u, role)
               \/ Tick(o) \/ StartReconcile(o) \/ TimerFires(o) \/ Resync(o)
               \/ CollectNamespace(o) \/ CollectRbac(o)
        PROVE  OrgStep
    <3>1. UNCHANGED orgVars
      BY <2>6 DEF CreateNamespace, OwnNamespace, CreateMember, CreateCluster, DeleteCluster,
                  ChangeMember, Tick, StartReconcile, TimerFires, Resync, CollectNamespace,
                  CollectRbac
    <3> QED BY <3>1, <1>1
  <2> QED BY <1>10, <1>2, <1>3, <1>9, <2>1, <2>3, <2>4, <2>5, <2>6 DEF Next
<1> QED BY <1>1, <1>10 DEF vars

-----------------------------------------------------------------------------
(* What a step may do to the rights: write one part, or collect them. *)

RbacWrite(x, y, o) ==
    \/ y = x
    \/ At("bind") /\ o = ctl.org /\ y = WithPart(x, ctl.part, Subjects(o, ctl.part))
    \/ Orphaned(o) /\ y = NoRbac

RbacVersions == R!Write(rbac') \/ R!Deliver \/ R!Relist \/ UNCHANGED rbacVars

RbacStep == /\ RbacVersions
            /\ rbac' \in RbacStore
            /\ \A o \in Orgs : RbacWrite(rbac[o], rbac'[o], o)

LEMMA RbacSteps == ASSUME TypeOK, [Next]_vars PROVE RbacStep
<1>a. rbac \in RbacStore /\ ctl.org \in Orgs /\ ctl.part \in Parts
      /\ \A o \in Orgs : rbac[o] \in Rbac
  BY DEF TypeOK, RbacStore
<1>1. ASSUME rbac' = rbac, RbacVersions PROVE RbacStep
  BY <1>1, <1>a DEF RbacStep, RbacWrite
<1>2. CASE UNCHANGED rbacVars
  BY <1>1, <1>2 DEF rbacVars, RbacVersions
<1>3. ASSUME NEW o \in Orgs, NEW y \in Rbac, RbacWrite(rbac[o], y, o),
             R!Write([rbac EXCEPT ![o] = y])
      PROVE  RbacStep
  <2>1. rbac' = [rbac EXCEPT ![o] = y] /\ rbac' \in RbacStore
    BY <1>3, <1>a DEF R!Write, RbacStore
  <2>2. \A q \in Orgs : RbacWrite(rbac[q], rbac'[q], q)
    BY <1>3, <2>1 DEF RbacWrite, RbacStore
  <2>3. RbacVersions
    BY <1>3, <2>1 DEF RbacVersions
  <2> QED BY <2>1, <2>2, <2>3 DEF RbacStep
<1>4. ASSUME NEW o \in Orgs, o = ctl.org, Bind PROVE RbacStep
  <2> DEFINE y == WithPart(rbac[o], ctl.part, Subjects(o, ctl.part))
  <2>1. CASE R!Write(rbac)
    <3>1. rbac' = rbac
      BY <2>1 DEF R!Write
    <3> QED BY <1>1, <2>1, <3>1 DEF RbacVersions
  <2>2. CASE R!Write([rbac EXCEPT ![o] = y])
    <3>1. Subjects(o, ctl.part) \subseteq Users
      BY DEF Subjects
    <3>2. y \in Rbac
      BY <1>a, <3>1 DEF WithPart, Rbac
    <3>3. RbacWrite(rbac[o], y, o)
      BY <1>4 DEF RbacWrite, Bind
    <3> HIDE DEF y
    <3> QED BY <1>3, <2>2, <3>2, <3>3
  <2> QED BY <1>2, <1>4, <2>1, <2>2 DEF Bind, BindPart
<1>5. ASSUME NEW o \in Orgs, CollectRbac(o) PROVE RbacStep
  <2>1. RbacWrite(rbac[o], NoRbac, o) /\ R!Write([rbac EXCEPT ![o] = NoRbac])
    BY <1>5 DEF RbacWrite, CollectRbac
  <2> QED BY <1>3, <2>1, Defaults
<1>6. ASSUME DeliverRbac \/ Restart PROVE RbacStep
  <2>1. rbac' = rbac /\ RbacVersions
    BY <1>6 DEF DeliverRbac, Restart, R!Deliver, R!Relist, RbacVersions
  <2> QED BY <1>1, <2>1
<1>7. ASSUME Next PROVE RbacStep
  <2>1. CASE Controller
    BY <2>1, <1>a, <1>2, <1>4
    DEF Controller, DeleteExpired, AddFinalizer, PatchConditions, PatchStatus, ListClusters,
        RemoveFinalizer
  <2>2. CASE DeliverOrg \/ DeliverCluster \/ DeliverMember \/ ControllerError \/ ToggleFeature
    BY <2>2, <1>2 DEF DeliverOrg, DeliverCluster, DeliverMember, ControllerError, ToggleFeature
  <2>3. ASSUME NEW o \in Orgs,
               \/ \E u \in Users, d \in {0} \cup Durations : CreateNamespace(o, u, d)
               \/ CreateOrganization(o) \/ OwnNamespace(o) \/ CreateMember(o)
               \/ \E d \in {0} \cup Durations : UpdateGlobalOrganization(o, d)
               \/ DeleteGlobalOrganization(o) \/ CreateCluster(o) \/ DeleteCluster(o)
               \/ \E u \in Users, role \in {"none", "User", "SuperUser"} : ChangeMember(o, u, role)
               \/ Tick(o) \/ StartReconcile(o) \/ TimerFires(o) \/ Resync(o)
               \/ CollectOrganization(o) \/ CollectNamespace(o)
        PROVE  RbacStep
    <3>1. UNCHANGED rbacVars
      BY <2>3 DEF CreateNamespace, CreateOrganization, OwnNamespace, CreateMember, CreateCluster,
                  UpdateGlobalOrganization, DeleteGlobalOrganization, DeleteCluster, ChangeMember,
                  Tick, StartReconcile, TimerFires, Resync, CollectOrganization, CollectNamespace
    <3> QED BY <3>1, <1>2
  <2> QED BY <1>5, <1>6, <1>7, <2>1, <2>2, <2>3 DEF Next
<1> QED BY <1>2, <1>7 DEF vars

-----------------------------------------------------------------------------
(* What a step may do to members, clusters and the history of both. *)

MemberStep ==
    /\ M!Write(members') \/ M!Deliver \/ M!Relist \/ UNCHANGED memberVars
    /\ members' \in MemberStore
    /\ \A o \in Orgs, u \in Users :
         members'[o][u] = "SuperUser" => members[o][u] = "SuperUser" \/ u \in promoted'[o]
    /\ promoted' \in [Orgs -> SUBSET Users]
    /\ \A o \in Orgs : promoted[o] \subseteq promoted'[o]

\* In this state nothing keeps an organization for the sake of its clusters.
Freed(x) == x.phase = "gone" \/ (x.phase = "deleting" /\ ~x.foreground)

ClusterStep ==
    /\ C!Write(clusters') \/ C!Deliver \/ C!Relist \/ UNCHANGED clusterVars
    /\ clusters' \in ClusterStore
    /\ older' \subseteq clusters'
    /\ \A o \in older' \ older : orgs[o].phase = "live" /\ ~Freed(orgs'[o])
    /\ undone \subseteq undone' /\ undone' \subseteq Orgs

LEMMA MemberSteps == ASSUME TypeOK, [Next]_vars PROVE MemberStep
<1>a. members \in MemberStore /\ promoted \in [Orgs -> SUBSET Users]
      /\ \A o \in Orgs : creation[o].user \in Users
  BY DEF TypeOK
<1>1. CASE UNCHANGED <<memberVars, promoted>>
  BY <1>1, <1>a DEF MemberStep, memberVars
<1>2. ASSUME NEW o \in Orgs, NEW u \in Users, NEW role \in {"none", "User", "SuperUser"},
             M!Write([members EXCEPT ![o][u] = role]),
             promoted' = IF role = "SuperUser" THEN [promoted EXCEPT ![o] = @ \cup {u}]
                         ELSE promoted
      PROVE  MemberStep
  <2>1. members' = [members EXCEPT ![o][u] = role] /\ members' \in MemberStore
    BY <1>2, <1>a DEF M!Write, MemberStore
  <2>2. M!Write(members')
    BY <1>2, <2>1
  <2>3. \A q \in Orgs, v \in Users :
          members'[q][v] = IF q = o /\ v = u THEN role ELSE members[q][v]
    BY <2>1, <1>a DEF MemberStore
  <2>4. promoted' \in [Orgs -> SUBSET Users] /\ \A q \in Orgs : promoted[q] \subseteq promoted'[q]
    BY <1>2, <1>a
  <2>5. role = "SuperUser" => u \in promoted'[o]
    BY <1>2, <1>a
  <2> QED BY <2>1, <2>2, <2>3, <2>4, <2>5 DEF MemberStep
<1>3. ASSUME NEW o \in Orgs, CreateMember(o) PROVE MemberStep
  BY <1>3, <1>a, <1>1, <1>2 DEF CreateMember
<1>4. ASSUME NEW o \in Orgs, NEW u \in Users, NEW role \in {"none", "User", "SuperUser"},
             ChangeMember(o, u, role)
      PROVE  MemberStep
  BY <1>4, <1>2 DEF ChangeMember
<1>5. ASSUME DeliverMember \/ Restart PROVE MemberStep
  BY <1>5, <1>a DEF DeliverMember, Restart, M!Deliver, M!Relist, MemberStep, historyVars
<1>6. ASSUME Next PROVE MemberStep
  <2>1. CASE Controller
    BY <2>1, <1>1
    DEF Controller, DeleteExpired, AddFinalizer, Bind, PatchConditions, PatchStatus, ListClusters,
        RemoveFinalizer, externalVars, historyVars
  <2>2. CASE DeliverOrg \/ DeliverCluster \/ DeliverRbac \/ ControllerError \/ ToggleFeature
    BY <2>2, <1>1 DEF DeliverOrg, DeliverCluster, DeliverRbac, ControllerError, ToggleFeature,
                      externalVars, historyVars
  <2>3. ASSUME NEW o \in Orgs,
               \/ \E u \in Users, d \in {0} \cup Durations : CreateNamespace(o, u, d)
               \/ CreateOrganization(o) \/ OwnNamespace(o)
               \/ \E d \in {0} \cup Durations : UpdateGlobalOrganization(o, d)
               \/ DeleteGlobalOrganization(o) \/ CreateCluster(o) \/ DeleteCluster(o)
               \/ Tick(o) \/ StartReconcile(o) \/ TimerFires(o) \/ Resync(o)
               \/ CollectOrganization(o) \/ CollectNamespace(o) \/ CollectRbac(o)
        PROVE  MemberStep
    <3>1. UNCHANGED <<memberVars, promoted>>
      BY <2>3 DEF CreateNamespace, CreateOrganization, OwnNamespace, CreateCluster,
                  UpdateGlobalOrganization, DeleteGlobalOrganization, DeleteCluster,
                  Tick, StartReconcile, TimerFires, Resync, CollectOrganization, CollectNamespace,
                  CollectRbac, externalVars, historyVars
    <3> QED BY <3>1, <1>1
  <2> QED BY <1>3, <1>4, <1>5, <1>6, <2>1, <2>2, <2>3 DEF Next
<1> QED BY <1>1, <1>6 DEF vars, historyVars

LEMMA ClusterSteps == ASSUME TypeOK, [Next]_vars PROVE ClusterStep
<1>a. /\ clusters \in ClusterStore /\ older \subseteq clusters /\ undone \subseteq Orgs
      /\ ctl.org \in Orgs /\ orgs \in OrgStore
  BY DEF TypeOK
<1>1. ASSUME UNCHANGED <<clusterVars, older>>, undone \subseteq undone', undone' \subseteq Orgs
      PROVE  ClusterStep
  BY <1>1, <1>a DEF ClusterStep, clusterVars
<1>2. CASE UNCHANGED <<clusterVars, older, undone>>
  BY <1>1, <1>2, <1>a
<1>8. ASSUME NEW o \in Orgs, Delete(o), NoteCluster(o), UNCHANGED <<clusterVars, undone>>
      PROVE  ClusterStep
  <2>1. ~Freed(orgs'[o])
    BY <1>8, <1>a DEF Delete, O!Write, OrgStore, Organization, Freed
  <2>2. older' \subseteq clusters /\ \A q \in older' \ older : q = o /\ orgs[o].phase = "live"
    BY <1>8, <1>a DEF NoteCluster
  <2> QED BY <1>8, <1>a, <2>1, <2>2 DEF ClusterStep, clusterVars
<1>3. ASSUME NEW o \in Orgs, CreateCluster(o) PROVE ClusterStep
  <2>1. clusters' = clusters \cup {o} /\ C!Write(clusters')
    BY <1>3 DEF CreateCluster, C!Write
  <2> QED BY <1>3, <1>a, <2>1 DEF CreateCluster, ClusterStep, ClusterStore, historyVars
<1>4. ASSUME NEW o \in Orgs, DeleteCluster(o) PROVE ClusterStep
  <2>1. clusters' = clusters \ {o} /\ C!Write(clusters')
    BY <1>4 DEF DeleteCluster, C!Write
  <2> QED BY <1>4, <1>a, <2>1 DEF DeleteCluster, ClusterStep, ClusterStore
<1>5. ASSUME DeliverCluster \/ Restart PROVE ClusterStep
  BY <1>5, <1>a DEF DeliverCluster, Restart, C!Deliver, C!Relist, ClusterStep, historyVars
<1>6. ASSUME AddFinalizer PROVE ClusterStep
  BY <1>6, <1>a, <1>1 DEF AddFinalizer
<1>7. ASSUME Next PROVE ClusterStep
  <2>1. CASE Controller
    BY <2>1, <1>a, <1>2, <1>6, <1>8
    DEF Controller, DeleteExpired, Bind, PatchConditions, PatchStatus, ListClusters,
        RemoveFinalizer, externalVars, historyVars
  <2>2. CASE DeliverOrg \/ DeliverMember \/ DeliverRbac \/ ControllerError \/ ToggleFeature
    BY <2>2, <1>2 DEF DeliverOrg, DeliverMember, DeliverRbac, ControllerError, ToggleFeature,
                      externalVars, historyVars
  <2>3. ASSUME NEW o \in Orgs,
               \/ \E u \in Users, d \in {0} \cup Durations : CreateNamespace(o, u, d)
               \/ CreateOrganization(o) \/ OwnNamespace(o) \/ CreateMember(o)
               \/ \E d \in {0} \cup Durations : UpdateGlobalOrganization(o, d)
               \/ \E u \in Users, role \in {"none", "User", "SuperUser"} : ChangeMember(o, u, role)
               \/ Tick(o) \/ StartReconcile(o) \/ TimerFires(o) \/ Resync(o)
               \/ CollectOrganization(o) \/ CollectNamespace(o) \/ CollectRbac(o)
        PROVE  ClusterStep
    <3>1. UNCHANGED <<clusterVars, older, undone>>
      BY <2>3 DEF CreateNamespace, CreateOrganization, OwnNamespace, CreateMember, ChangeMember,
                  UpdateGlobalOrganization, Tick, StartReconcile, TimerFires, Resync, CollectOrganization, CollectNamespace,
                  CollectRbac, externalVars, historyVars
    <3> QED BY <3>1, <1>2
  <2>4. ASSUME NEW o \in Orgs, DeleteGlobalOrganization(o) PROVE ClusterStep
    BY <2>4, <1>8 DEF DeleteGlobalOrganization
  <2> QED BY <1>3, <1>4, <1>5, <1>7, <2>1, <2>2, <2>3, <2>4 DEF Next
<1> QED BY <1>2, <1>7 DEF vars, historyVars

-----------------------------------------------------------------------------
(* What a step may do to the controller. *)

Started(o) == [Idle EXCEPT !.step = FirstStep(orgCache[o], o), !.org = o, !.copy = orgCache[o]]

Bound ==
    /\ At("bind")
    /\ ctl.part \in rbac'[ctl.org].made \/ ctl.part \in rbacCache[ctl.org].made
    /\ IF ctl.part < 3 THEN ctl' = [ctl EXCEPT !.part = ctl.part + 1]
       ELSE \E due \in {0} \cup Durations :
              ctl' = [ctl EXCEPT !.step = "conditions", !.bound = "True", !.due = due]

CtlStep ==
    \/ ctl' \in {ctl, Idle}
    \/ \E o \in Orgs : Exists(orgCache[o]) /\ ctl' = Started(o)
    \/ Bound
    \/ At("bind") /\ ctl' = [ctl EXCEPT !.step = "conditions", !.bound = "False", !.failed = TRUE]
    \/ At("conditions") /\ \E failed \in BOOLEAN :
          ctl' = [ctl EXCEPT !.step = "status", !.failed = failed]
    \/ At("list") /\ ctl' = [ctl EXCEPT !.step = "remove"]

LEMMA CtlSteps == ASSUME TypeOK, [Next]_vars PROVE CtlStep
<1>a. ctl \in Ctl /\ ctl.org \in Orgs /\ ctl.part \in Parts /\ ctl.failed \in BOOLEAN
      /\ ctl.copy \in Organization /\ ctl.copy.duration \in {0} \cup Durations
  BY DEF TypeOK, Ctl, Organization
<1>b. rbac \in RbacStore /\ rbacCache \in RbacStore
      /\ \A o \in Orgs : rbac[o] \in Rbac
  BY DEF TypeOK, RbacStore
<1>1. CASE ctl' \in {ctl, Idle}
  BY <1>1 DEF CtlStep
<1>2. ASSUME NEW o \in Orgs, StartReconcile(o) PROVE CtlStep
  BY <1>2 DEF CtlStep, StartReconcile, Started
<1>3. ASSUME NEW o \in Orgs, NEW p \in Parts, o = ctl.org, p = ctl.part, Bind PROVE CtlStep
  <2>1. CASE ctl' = [ctl EXCEPT !.step = "conditions", !.bound = "False", !.failed = TRUE]
    BY <1>3, <2>1 DEF CtlStep, Bind
  <2> DEFINE y == WithPart(rbac[o], p, Subjects(o, p))
             desired == WithPart(rbacCache[o], p, Subjects(o, p))
             new == IF p < 3 THEN [ctl EXCEPT !.part = p + 1]
                    ELSE [ctl EXCEPT !.step = "conditions", !.bound = "True",
                                     !.due = IF HasExpired(ctl.copy, o) THEN 0
                                             ELSE ctl.copy.duration]
  <2>2. ASSUME ctl' = new,
               R!Write(IF p \in rbacCache[o].made /\ desired = rbacCache[o] THEN rbac
                       ELSE [rbac EXCEPT ![o] = y])
        PROVE  CtlStep
    <3>1. p \in rbac'[o].made \/ p \in rbacCache[o].made
      <4>1. CASE ~(p \in rbacCache[o].made /\ desired = rbacCache[o])
        <5>1. rbac' = [rbac EXCEPT ![o] = y]
          BY <2>2, <4>1 DEF R!Write
        <5>2. rbac'[o] = y
          BY <5>1, <1>b DEF RbacStore
        <5> QED BY <5>2 DEF WithPart
      <4> QED BY <4>1
    <3>2. IF ctl.part < 3 THEN ctl' = [ctl EXCEPT !.part = ctl.part + 1]
          ELSE \E due \in {0} \cup Durations :
                 ctl' = [ctl EXCEPT !.step = "conditions", !.bound = "True", !.due = due]
      BY <2>2, <1>3, <1>a
    <3>3. Bound
      BY <1>3, <3>1, <3>2 DEF Bound, Bind
    <3> QED BY <3>3 DEF CtlStep
  <2> QED BY <1>3, <2>1, <2>2 DEF Bind, BindPart
<1>4. ASSUME PatchConditions PROVE CtlStep
  <2>1. At("conditions") /\ \E failed \in BOOLEAN :
          ctl' = [ctl EXCEPT !.step = "status", !.failed = failed]
    BY <1>4, <1>a DEF PatchConditions
  <2> QED BY <2>1 DEF CtlStep
<1>5. ASSUME ListClusters PROVE CtlStep
  BY <1>5 DEF ListClusters, End, Goto, CtlStep
<1>6. ASSUME ControllerError PROVE CtlStep
  BY <1>6 DEF ControllerError, Retry, CtlStep
<1>7. ASSUME Next PROVE CtlStep
  <2>1. CASE Controller
    BY <2>1, <1>a, <1>1, <1>3, <1>4, <1>5
    DEF Controller, DeleteExpired, AddFinalizer, PatchStatus, RemoveFinalizer, End, Retry,
        controllerVars
  <2>2. CASE DeliverOrg \/ DeliverCluster \/ DeliverMember \/ DeliverRbac \/ ToggleFeature \/ Restart
    BY <2>2, <1>1 DEF DeliverOrg, DeliverCluster, DeliverMember, DeliverRbac, ToggleFeature,
                      Restart, controllerVars
  <2>3. ASSUME NEW o \in Orgs,
               \/ \E u \in Users, d \in {0} \cup Durations : CreateNamespace(o, u, d)
               \/ CreateOrganization(o) \/ OwnNamespace(o) \/ CreateMember(o)
               \/ \E d \in {0} \cup Durations : UpdateGlobalOrganization(o, d)
               \/ DeleteGlobalOrganization(o) \/ CreateCluster(o) \/ DeleteCluster(o)
               \/ \E u \in Users, role \in {"none", "User", "SuperUser"} : ChangeMember(o, u, role)
               \/ Tick(o) \/ TimerFires(o) \/ Resync(o)
               \/ CollectOrganization(o) \/ CollectNamespace(o) \/ CollectRbac(o)
        PROVE  CtlStep
    <3>1. UNCHANGED ctl
      BY <2>3 DEF CreateNamespace, CreateOrganization, OwnNamespace, CreateMember, CreateCluster,
                  UpdateGlobalOrganization, DeleteGlobalOrganization, DeleteCluster, ChangeMember,
                  Tick, TimerFires, Resync, CollectOrganization, CollectNamespace, CollectRbac,
                  controllerVars
    <3> QED BY <3>1, <1>1
  <2> QED BY <1>2, <1>6, <1>7, <2>1, <2>2, <2>3 DEF Next
<1> QED BY <1>1, <1>7 DEF vars, controllerVars

LEMMA CtlTypes == ASSUME TypeOK, CtlStep PROVE ctl' \in Ctl
<1>a. ctl \in Ctl /\ ctl.part \in Parts /\ \A o \in Orgs : orgCache[o] \in Organization
  BY DEF TypeOK, Ctl, OrgStore
<1>1. ASSUME NEW o \in Orgs PROVE Started(o) \in Ctl
  BY <1>1, <1>a, Defaults DEF Started, FirstStep, Ctl, ControllerStep
<1>2. CASE Bound
  <2>1. ctl.part < 3 => ctl.part + 1 \in Parts
    BY <1>a DEF Parts
  <2>2. CASE ctl.part < 3
    BY <1>2, <1>a, <2>1, <2>2 DEF Bound, Ctl
  <2>3. CASE ~(ctl.part < 3)
    BY <1>2, <1>a, <2>3 DEF Bound, Ctl, ControllerStep
  <2> QED BY <2>2, <2>3
<1> QED BY <1>a, <1>1, <1>2, Defaults DEF CtlStep, Ctl, ControllerStep

LEMMA LocalSteps == ASSUME TypeOK, [Next]_vars PROVE
  /\ namespaces' \in [Orgs -> {"free", "unowned", "owned", "gone"}]
  /\ creation' \in [Orgs -> Creation]
  /\ elapsed' \in [Orgs -> Age] /\ autoAssign' \in BOOLEAN
  /\ events' \in 0 .. MaxEvents
  /\ queue' \subseteq Orgs /\ timers' \in [Orgs -> {0} \cup Durations]
<1> DEFINE Handled == /\ namespaces' \in [Orgs -> {"free", "unowned", "owned", "gone"}]
                      /\ creation' \in [Orgs -> Creation]
                      /\ elapsed' \in [Orgs -> Age] /\ autoAssign' \in BOOLEAN
           Queued == queue' \subseteq Orgs /\ timers' \in [Orgs -> {0} \cup Durations]
<1>a. /\ namespaces \in [Orgs -> {"free", "unowned", "owned", "gone"}]
      /\ creation \in [Orgs -> Creation] /\ elapsed \in [Orgs -> Age] /\ autoAssign \in BOOLEAN
      /\ events \in 0 .. MaxEvents
      /\ queue \subseteq Orgs /\ timers \in [Orgs -> {0} \cup Durations]
      /\ ctl.org \in Orgs /\ ctl.due \in {0} \cup Durations
  BY DEF TypeOK, Creation
<1>b. UNCHANGED handlerVars => Handled
  BY <1>a DEF handlerVars
<1>c. UNCHANGED <<queue, timers>> => Queued
  BY <1>a
<1>d. (\E kind : Event(kind)) \/ UNCHANGED events => events' \in 0 .. MaxEvents
  BY <1>a, OrganizationsAssumption DEF Event
<1>e. \A o \in Orgs, due \in {0} \cup Durations : Delayed(o, due) \in [Orgs -> {0} \cup Durations]
  BY <1>a DEF Delayed
<1>f. Retry \/ End \/ (\E step : Goto(step)) => Queued
  BY <1>a DEF Retry, End, Goto
<1>1. CASE UNCHANGED vars
  BY <1>1, <1>b, <1>c, <1>d DEF vars, controllerVars
<1>2. ASSUME NEW o \in Orgs, NEW u \in Users, NEW d \in {0} \cup Durations,
             CreateNamespace(o, u, d)
      PROVE  Handled /\ Queued /\ UNCHANGED events
  <2>1. [step |-> "organization", user |-> u, duration |-> d] \in Creation
    BY DEF Creation
  <2> QED BY <1>2, <1>a, <1>c, <2>1 DEF CreateNamespace, controllerVars
<1>3. ASSUME NEW o \in Orgs, CreateOrganization(o) \/ OwnNamespace(o) \/ CreateMember(o)
      PROVE  Handled /\ Queued /\ UNCHANGED events
  <2>1. \A to \in {"owner", "member", "done", "failed"} :
          [creation EXCEPT ![o].step = to] \in [Orgs -> Creation]
    BY <1>a DEF Creation
  <2>2. creation' \in [Orgs -> Creation]
    BY <1>3, <2>1 DEF CreateOrganization, OwnNamespace, CreateMember, Step
  <2>3. /\ namespaces' \in [Orgs -> {"free", "unowned", "owned", "gone"}]
        /\ UNCHANGED <<elapsed, autoAssign, controllerVars, events>>
    BY <1>3, <1>a DEF CreateOrganization, OwnNamespace, CreateMember
  <2> QED BY <1>a, <1>c, <2>2, <2>3 DEF controllerVars
<1>4. ASSUME NEW o \in Orgs, Tick(o) \/ CollectNamespace(o)
      PROVE  Handled /\ Queued /\ UNCHANGED events
  BY <1>4, <1>a, <1>c DEF Tick, CollectNamespace, controllerVars
<1>5. ASSUME NEW o \in Orgs, StartReconcile(o) \/ TimerFires(o) \/ Resync(o)
      PROVE  Handled /\ Queued /\ UNCHANGED events
  BY <1>5, <1>a, <1>b DEF StartReconcile, TimerFires, Resync, externalVars
<1>6. ASSUME Controller PROVE Handled /\ Queued /\ UNCHANGED events
  <2>1. UNCHANGED handlerVars /\ UNCHANGED events
    BY <1>6 DEF Controller, DeleteExpired, AddFinalizer, Bind, PatchConditions, PatchStatus,
                ListClusters, RemoveFinalizer, externalVars
  <2>2. Queued
    BY <1>6, <1>a, <1>c, <1>e, <1>f
    DEF Controller, DeleteExpired, AddFinalizer, Bind, PatchConditions, PatchStatus,
        ListClusters, RemoveFinalizer
  <2> QED BY <1>b, <2>1, <2>2
<1>7. ASSUME DeliverOrg \/ DeliverCluster \/ DeliverMember \/ DeliverRbac
      PROVE Handled /\ Queued /\ UNCHANGED events
  BY <1>7, <1>a, <1>b, <1>c DEF DeliverOrg, DeliverCluster, DeliverMember, DeliverRbac, Changed,
                                externalVars, controllerVars
<1>8. ASSUME ControllerError PROVE Handled /\ Queued /\ Event("error")
  BY <1>8, <1>b, <1>c, <1>f DEF ControllerError
<1>9. ASSUME ToggleFeature PROVE Handled /\ Queued /\ Event("feature")
  BY <1>9, <1>a, <1>c DEF ToggleFeature, controllerVars
<1>10. ASSUME Restart PROVE Handled /\ Queued /\ Event("restart")
  BY <1>10, <1>a DEF Restart, Creation
<1>11. ASSUME NEW o \in Orgs,
              \/ \E d \in {0} \cup Durations : UpdateGlobalOrganization(o, d)
              \/ DeleteGlobalOrganization(o) \/ CreateCluster(o) \/ DeleteCluster(o)
              \/ \E u \in Users, role \in {"none", "User", "SuperUser"} : ChangeMember(o, u, role)
              \/ CollectOrganization(o) \/ CollectRbac(o)
       PROVE  Handled /\ Queued /\ ((\E kind : Event(kind)) \/ UNCHANGED events)
  <2>1. UNCHANGED <<handlerVars, controllerVars>> /\ ((\E kind : Event(kind)) \/ UNCHANGED events)
    BY <1>11 DEF UpdateGlobalOrganization, DeleteGlobalOrganization, CreateCluster, DeleteCluster,
                 ChangeMember, CollectOrganization, CollectRbac, externalVars
  <2> QED BY <1>b, <1>c, <2>1 DEF controllerVars
<1> HIDE DEF Handled, Queued
<1>12. ASSUME Next PROVE Handled /\ Queued /\ ((\E kind : Event(kind)) \/ UNCHANGED events)
  BY <1>12, <1>2, <1>3, <1>4, <1>5, <1>6, <1>7, <1>8, <1>9, <1>10, <1>11 DEF Next
<1> QED BY <1>1, <1>12, <1>d DEF Handled, Queued

(***************************************************************************)
(* Every variable keeps its type: the steps of the creation, the phases of  *)
(* an organization and the copies of the controller are what they are in    *)
(* the code.                                                                *)
(***************************************************************************)
THEOREM OrganizationsTyped == Spec => []TypeOK
<1>1. TypeOK /\ [Next]_vars => TypeOK'
  <2> SUFFICES ASSUME TypeOK, [Next]_vars PROVE TypeOK'
    OBVIOUS
  <2>1. OrgStep /\ RbacStep /\ MemberStep /\ ClusterStep /\ ctl' \in Ctl
    BY OrgSteps, RbacSteps, MemberSteps, ClusterSteps, CtlSteps, CtlTypes
  <2>2. OrgsIn(OrgStore) /\ RbacIn(RbacStore) /\ MembersIn(MemberStore) /\ ClustersIn(ClusterStore)
    BY TypeOKParts
  <2>3. orgCache' \in OrgStore /\ orgWatch' \in Seq(OrgStore)
    BY <2>1, <2>2, OrgMove DEF OrgStep, OrgVersions
  <2>4. rbacCache' \in RbacStore /\ rbacWatch' \in Seq(RbacStore)
    BY <2>1, <2>2, RbacMove DEF RbacStep, RbacVersions
  <2>5. memberCache' \in MemberStore /\ memberWatch' \in Seq(MemberStore)
    BY <2>1, <2>2, MemberMove DEF MemberStep
  <2>6. clusterCache' \in ClusterStore /\ clusterWatch' \in Seq(ClusterStore)
    BY <2>1, <2>2, ClusterMove DEF ClusterStep
  <2> QED BY <2>1, <2>3, <2>4, <2>5, <2>6, LocalSteps
      DEF TypeOK, OrgStep, RbacStep, MemberStep, ClusterStep, Ctl, Creation
<1> QED BY <1>1, InitTypes, PTL DEF Spec

-----------------------------------------------------------------------------
(* The inductive invariants *)

\* The phase never goes back, and the finalizer stays till the deletion.
InDeletion(x) == x.phase \in {"deleting", "gone"}

Later(x, y) ==
    /\ InDeletion(x) => InDeletion(y)
    /\ x.finalizer => y.finalizer \/ InDeletion(y)

(***************************************************************************)
(* What a version of an organization shows, however old it is, is still     *)
(* true: its deletion, its finalizer, and that no cluster from before the   *)
(* deletion is left once nothing keeps the organization.                    *)
(***************************************************************************)
Past(x, o) == Later(x, orgs[o]) /\ (Freed(x) /\ o \in older => o \in undone)
PastOrgs == {v \in OrgStore : \A o \in Orgs : Past(v[o], o)}

CopyInv ==
    ~At("idle") =>
       /\ Past(ctl.copy, ctl.org)
       /\ ctl.step \in {"bind", "conditions", "status"} => ctl.copy.finalizer
       /\ ctl.step \in {"list", "remove"} => ctl.copy.phase = "deleting"

\* A name gets its organization once.
Unmade == \A o \in Orgs : creation[o].step \in {"none", "organization"} => orgs[o] = NoOrganization

ForegroundInDeletion == \A o \in Orgs : orgs[o].foreground => InDeletion(orgs[o])

OrgInv == Unmade /\ ForegroundInDeletion /\ OrgsIn(PastOrgs) /\ CopyInv

\* Roles are made for an organization with a finalizer, which has it till its deletion.
RoleInv == \A o \in Orgs : rbac[o].made # {} => orgs[o].finalizer \/ InDeletion(orgs[o])

\* No role of an organization is taken away before its deletion.
MadeRbac == {v \in RbacStore :
               \A o \in Orgs : ~InDeletion(orgs[o]) => v[o].made \subseteq rbac[o].made}

ReportInv ==
    /\ RbacIn(MadeRbac)
    /\ \A o \in Orgs : ~InDeletion(orgs[o]) /\ orgs[o].bound = "True" => rbac[o].made = Parts
    /\ ~InDeletion(orgs[ctl.org]) =>
          /\ At("bind") => \A p \in Parts : p < ctl.part => p \in rbac[ctl.org].made
          /\ ctl.bound = "True" => rbac[ctl.org].made = Parts

\* Who is a super user in a version of the members is known to have been one.
PromotedMembers == {m \in MemberStore :
                      \A o \in Orgs, u \in Users : m[o][u] = "SuperUser" => u \in promoted[o]}

SuperInv == MembersIn(PromotedMembers) /\ SubjectsWereSuperUsers

LEMMA InitInvs == Init => OrgInv /\ RoleInv /\ ReportInv /\ SuperInv
<1> SUFFICES ASSUME Init PROVE OrgInv /\ RoleInv /\ ReportInv /\ SuperInv
  OBVIOUS
<1>a. TypeOK /\ \A o \in Orgs : orgs[o] = NoOrganization /\ rbac[o] = NoRbac
  BY InitTypes DEF Init
<1>b. orgs \in OrgStore /\ members \in MemberStore /\ rbac \in RbacStore
  BY <1>a DEF TypeOK
<1>1. Unmade /\ ForegroundInDeletion /\ CopyInv
  BY <1>a, Defaults DEF Init, Unmade, ForegroundInDeletion, NoOrganization, CopyInv, At
<1>2. orgs \in PastOrgs
  BY <1>a, <1>b DEF PastOrgs, Past, Later, Freed, InDeletion, NoOrganization
<1>3. OrgsIn(PastOrgs)
  BY <1>2, EmptySeq DEF Init, OrgsIn
<1>4. RoleInv /\ \A o \in Orgs : rbac[o].supers = {} /\ orgs[o].bound = "none"
  BY <1>a DEF RoleInv, NoRbac, NoOrganization
<1>5. rbac \in MadeRbac /\ members \in PromotedMembers
  BY <1>a, <1>b DEF Init, MadeRbac, PromotedMembers
<1>6. RbacIn(MadeRbac) /\ MembersIn(PromotedMembers)
  BY <1>5, EmptySeq DEF Init, RbacIn, MembersIn
<1>7. ctl.bound = "none" /\ ~At("bind")
  BY Defaults DEF Init, At
<1> QED BY <1>1, <1>3, <1>4, <1>6, <1>7 DEF OrgInv, ReportInv, SuperInv, SubjectsWereSuperUsers

\* The same, field by field.
OrgFields(x, y, o) ==
    \/ y = x
    \/ /\ creation[o].step = "organization" /\ creation'[o].step = "owner"
       /\ y.phase = "live" /\ ~y.finalizer /\ ~y.foreground /\ y.bound = "none"
    \/ /\ Exists(x)
       /\ y.phase = x.phase /\ y.finalizer = x.finalizer /\ y.foreground = x.foreground
       /\ y.bound = x.bound \/ (At("conditions") /\ o = ctl.org /\ y.bound = ctl.bound)
    \/ /\ Exists(x)
       /\ y.phase = "deleting" /\ y.finalizer = x.finalizer /\ y.foreground /\ y.bound = x.bound
    \/ /\ Exists(x)
       /\ y.phase = x.phase /\ y.finalizer /\ ~y.foreground /\ y.bound = x.bound
       /\ x.foreground => o \in undone'
    \/ /\ At("remove") /\ o = ctl.org /\ Exists(x)
       /\ ~y.finalizer /\ y.foreground = ctl.copy.foreground /\ y.bound = x.bound
       /\ y.phase = IF x.phase = "deleting" /\ ~y.foreground THEN "gone" ELSE x.phase
    \/ /\ x.foreground /\ o \notin clusters
       /\ ~y.foreground /\ y.finalizer = x.finalizer /\ y.bound = x.bound
       /\ y.phase = x.phase \/ (x.phase = "deleting" /\ y.phase = "gone")

LEMMA WriteFields ==
  ASSUME NEW o \in Orgs, NEW x \in Organization, NEW y, OrgWrite(x, y, o),
         ctl.copy.foreground \in BOOLEAN
  PROVE  OrgFields(x, y, o)
<1>1. CASE y = [NoOrganization EXCEPT !.phase = "live", !.duration = y.duration]
  <2>1. y.phase = "live" /\ ~y.finalizer /\ ~y.foreground /\ y.bound = "none"
    BY <1>1 DEF NoOrganization
  <2> QED BY <2>1 DEF OrgWrite, OrgFields, Organization, Settled
<1>2. CASE At("remove") /\ o = ctl.org /\ Exists(x)
           /\ y = Settled([x EXCEPT !.finalizer = FALSE, !.foreground = ctl.copy.foreground])
  BY <1>2 DEF OrgFields, Settled, Organization
<1>3. CASE x.foreground /\ o \notin clusters /\ y = Settled([x EXCEPT !.foreground = FALSE])
  BY <1>3 DEF OrgFields, Settled, Organization
<1>4. ASSUME NEW d, y = [NoOrganization EXCEPT !.phase = "live", !.duration = d]
      PROVE  y = [NoOrganization EXCEPT !.phase = "live", !.duration = y.duration]
  BY <1>4 DEF NoOrganization
<1>5. CASE Exists(x) /\ \E d \in {0} \cup Durations :
              y = [x EXCEPT !.duration = d] \/ y = [x EXCEPT !.stamp = d]
  BY <1>5 DEF OrgFields, Organization
<1>6. CASE Exists(x) /\ \/ y = [x EXCEPT !.phase = "deleting", !.foreground = TRUE]
                        \/ At("conditions") /\ o = ctl.org /\ y = [x EXCEPT !.bound = ctl.bound]
  BY <1>6 DEF OrgFields, Organization
<1>7. CASE /\ x.phase = "live" \/ (Exists(x) /\ x.finalizer)
           /\ y = [x EXCEPT !.finalizer = TRUE, !.foreground = FALSE]
           /\ x.foreground => o \in undone'
  BY <1>7 DEF OrgFields, Organization, Exists
<1>8. CASE y = x
  BY <1>8 DEF OrgFields
<1> HIDE DEF Exists
<1> QED BY <1>1, <1>2, <1>3, <1>4, <1>5, <1>6, <1>7, <1>8 DEF OrgWrite

LEMMA Fields ==
  ASSUME TypeOK, OrgStep
  PROVE  \A o \in Orgs : /\ orgs[o] \in Organization /\ orgs'[o] \in Organization
                         /\ OrgFields(orgs[o], orgs'[o], o)
<1>1. ctl.copy.foreground \in BOOLEAN /\ \A o \in Orgs : orgs[o] \in Organization
  BY DEF TypeOK, OrgStore, Organization
<1>2. \A o \in Orgs : orgs'[o] \in Organization /\ OrgWrite(orgs[o], orgs'[o], o)
  BY DEF OrgStep, OrgStore
<1> QED BY <1>1, <1>2, WriteFields

LEMMA OrgsLater ==
  ASSUME TypeOK, OrgInv, OrgStep
  PROVE  \A o \in Orgs : Later(orgs[o], orgs'[o])
<1> SUFFICES ASSUME NEW o \in Orgs, NEW x \in Organization, NEW y \in Organization,
                    x = orgs[o], y = orgs'[o], OrgFields(x, y, o)
             PROVE  Later(x, y)
  BY Fields
<1>1. creation[o].step = "organization" => ~x.finalizer /\ ~InDeletion(x)
  BY DEF OrgInv, Unmade, NoOrganization, InDeletion
<1>2. At("remove") /\ o = ctl.org => InDeletion(x)
  BY DEF OrgInv, CopyInv, Past, Later, At, InDeletion
<1> QED BY <1>1, <1>2 DEF OrgFields, Later, InDeletion

\* What was true of an old version stays true.
LEMMA PastStays ==
  ASSUME TypeOK, OrgInv, OrgStep, ClusterStep
  PROVE  \A o \in Orgs, x \in Organization : Past(x, o) => Past(x, o)'
<1> SUFFICES ASSUME NEW o \in Orgs, NEW x \in Organization, Past(x, o) PROVE Past(x, o)'
  OBVIOUS
<1>1. Later(x, orgs[o]) /\ Later(orgs[o], orgs'[o])
  BY OrgsLater DEF Past
<1>2. Later(x, orgs'[o])
  BY <1>1 DEF Later, InDeletion
<1>3. Freed(x) /\ o \in older' => o \in undone'
  <2>1. Freed(x) => orgs[o].phase # "live"
    BY <1>1 DEF Freed, Later, InDeletion
  <2> QED BY <2>1 DEF Past, ClusterStep
<1> QED BY <1>2, <1>3 DEF Past, Freed, Later, InDeletion

\* A new version of an organization tells the truth.
LEMMA NewPast ==
  ASSUME TypeOK, OrgInv, OrgStep, ClusterStep
  PROVE  orgs' \in PastOrgs'
<1> SUFFICES ASSUME NEW o \in Orgs, NEW y \in Organization, y = orgs'[o], Freed(y), o \in older'
             PROVE  o \in undone'
  BY DEF OrgStep, PastOrgs, Past, Later, Freed, InDeletion, OrgStore
<1>a. ASSUME NEW x \in Organization, Past(x, o), Freed(x) PROVE o \in undone'
  BY <1>a, PastStays DEF Past, Freed
<1>b. orgs[o] \in Organization /\ Past(orgs[o], o) /\ orgs \in OrgStore
  BY DEF OrgInv, OrgsIn, PastOrgs, OrgStore
<1>1. o \in older /\ o \in clusters
  BY DEF ClusterStep, TypeOK
<1>2. PICK x \in Organization : x = orgs[o] /\ Past(x, o) /\ OrgFields(x, y, o)
  BY <1>b, Fields
<1>3. CASE Freed(x)
  BY <1>a, <1>2, <1>3
<1>4. CASE At("remove") /\ o = ctl.org
  <2>1. ctl.copy \in Organization /\ Past(ctl.copy, o) /\ ctl.copy.phase = "deleting"
        /\ InDeletion(x)
    BY <1>2, <1>4 DEF OrgInv, CopyInv, At, TypeOK, Past, Later, InDeletion
  <2>2. CASE ctl.copy.foreground
    BY <1>1, <1>2, <1>3, <1>4, <2>1, <2>2 DEF OrgFields, Freed, InDeletion
  <2>3. CASE ~ctl.copy.foreground
    BY <1>a, <2>1, <2>3 DEF Freed
  <2> QED BY <2>2, <2>3
<1>5. CASE ~Freed(x) /\ ~(At("remove") /\ o = ctl.org)
  BY <1>1, <1>2, <1>5 DEF OrgFields, Freed
<1> QED BY <1>3, <1>4, <1>5

LEMMA CreationSteps ==
  ASSUME TypeOK, [Next]_vars
  PROVE  \A o \in Orgs : creation'[o].step \in {"none", "organization"}
            => creation[o].step \in {"none", "organization"}
<1>a. creation \in [Orgs -> Creation]
  BY DEF TypeOK, Creation
<1>1. CASE UNCHANGED creation
  BY <1>1
<1>2. ASSUME NEW o \in Orgs, NEW u \in Users, NEW d \in {0} \cup Durations,
             CreateNamespace(o, u, d), NEW q \in Orgs
      PROVE  creation'[q].step \in {"none", "organization"}
               => creation[q].step \in {"none", "organization"}
  BY <1>2, <1>a DEF CreateNamespace
<1>3. ASSUME NEW o \in Orgs, NEW q \in Orgs,
             CreateOrganization(o) \/ OwnNamespace(o) \/ CreateMember(o)
      PROVE  creation'[q].step \in {"none", "organization"}
               => creation[q].step \in {"none", "organization"}
  BY <1>3, <1>a DEF CreateOrganization, OwnNamespace, CreateMember, Step, Creation
<1>4. CASE Restart
  BY <1>4, <1>a DEF Restart, Creation
<1>5. ASSUME NEW o \in Orgs,
             \/ \E d \in {0} \cup Durations : UpdateGlobalOrganization(o, d)
             \/ DeleteGlobalOrganization(o) \/ CreateCluster(o) \/ DeleteCluster(o)
             \/ \E u \in Users, role \in {"none", "User", "SuperUser"} : ChangeMember(o, u, role)
             \/ Tick(o) \/ StartReconcile(o) \/ TimerFires(o) \/ Resync(o)
             \/ CollectOrganization(o) \/ CollectNamespace(o) \/ CollectRbac(o)
      PROVE  UNCHANGED creation
  BY <1>5 DEF UpdateGlobalOrganization, DeleteGlobalOrganization, CreateCluster, DeleteCluster,
              ChangeMember, Tick, StartReconcile, TimerFires, Resync, CollectOrganization,
              CollectNamespace, CollectRbac, externalVars, handlerVars
<1>6. Controller \/ DeliverOrg \/ DeliverCluster \/ DeliverMember \/ DeliverRbac
      \/ ControllerError \/ ToggleFeature => UNCHANGED creation
  BY DEF Controller, DeleteExpired, AddFinalizer, Bind, PatchConditions, PatchStatus, ListClusters,
         RemoveFinalizer, DeliverOrg, DeliverCluster, DeliverMember, DeliverRbac, ControllerError,
         ToggleFeature, externalVars, handlerVars
<1> QED BY <1>1, <1>2, <1>3, <1>4, <1>5, <1>6 DEF Next, vars, handlerVars

LEMMA OrgInvStep ==
  ASSUME TypeOK, OrgInv, [Next]_vars
  PROVE  OrgInv'
<1>a. OrgStep /\ ClusterStep /\ CtlStep
  BY OrgSteps, ClusterSteps, CtlSteps
<1>b. \A o \in Orgs : orgs[o] \in Organization /\ orgCache[o] \in Organization
                      /\ OrgWrite(orgs[o], orgs'[o], o)
  BY <1>a DEF TypeOK, OrgStore, OrgStep
<1>1. Unmade'
  <2> SUFFICES ASSUME NEW o \in Orgs, creation'[o].step \in {"none", "organization"}
               PROVE  orgs'[o] = NoOrganization
    BY DEF Unmade
  <2>1. orgs[o] = NoOrganization
    BY CreationSteps DEF OrgInv, Unmade
  <2>2. ~Exists(orgs[o]) /\ ~orgs[o].foreground
    BY <2>1 DEF NoOrganization, Exists
  <2>3. OrgFields(orgs[o], orgs'[o], o) /\ creation'[o].step # "owner"
    BY <1>a, Fields
  <2> QED BY <2>1, <2>2, <2>3 DEF OrgFields
<1>2. ForegroundInDeletion'
  <2> SUFFICES ASSUME NEW o \in Orgs, NEW x \in Organization, NEW y,
                      x = orgs[o], y = orgs'[o], y.foreground
               PROVE  InDeletion(y)
    BY <1>b DEF ForegroundInDeletion
  <2>1. (x.foreground => InDeletion(x)) /\ OrgFields(x, y, o) /\ Later(x, y)
    BY <1>a, Fields, OrgsLater DEF OrgInv, ForegroundInDeletion
  <2>2. CASE At("remove") /\ o = ctl.org
    BY <2>1, <2>2 DEF OrgInv, CopyInv, Past, Later, At, InDeletion
  <2>3. CASE x.foreground
    BY <2>1, <2>3 DEF Later
  <2>4. CASE ~x.foreground /\ ~(At("remove") /\ o = ctl.org)
    BY <2>1, <2>4 DEF OrgFields, InDeletion
  <2> QED BY <2>2, <2>3, <2>4
<1>3. OrgsIn(PastOrgs)'
  <2> DEFINE T == PastOrgs'
  <2>1. \A v \in PastOrgs : v \in T
    BY <1>a, PastStays DEF PastOrgs, OrgStore
  <2>2. orgs' \in T
    BY <1>a, NewPast
  <2>3. OrgsIn(PastOrgs)
    BY DEF OrgInv
  <2> HIDE DEF T
  <2>4. OrgsIn(T)
    BY <2>1, <2>3, SeqMonotonic DEF OrgsIn
  <2>5. orgCache' \in T /\ orgWatch' \in Seq(T)
    BY <1>a, <2>2, <2>4, OrgMove DEF OrgStep, OrgVersions
  <2>6. orgCache' \in PastOrgs' /\ orgWatch' \in Seq(PastOrgs') /\ orgs' \in PastOrgs'
    BY <2>2, <2>5 DEF T
  <2> QED BY <2>6 DEF OrgsIn
<1>4. CopyInv'
  <2>1. \A o \in Orgs, x \in Organization : Past(x, o) => Past(x, o)'
    BY <1>a, PastStays
  <2>2. ctl \in Ctl /\ ctl.org \in Orgs /\ ctl.copy \in Organization
    BY DEF TypeOK, Ctl
  <2>3. CASE ctl' = Idle
    BY <2>3, Defaults DEF CopyInv, At
  <2>4. ASSUME NEW o \in Orgs, Exists(orgCache[o]), ctl' = Started(o) PROVE CopyInv'
    <3>1. ctl'.org = o /\ ctl'.copy = orgCache[o] /\ ctl'.step = FirstStep(orgCache[o], o)
      BY <2>4, Defaults DEF Started, Ctl
    <3>2. PICK x \in Organization : x = orgCache[o] /\ Past(x, o)
      BY <1>b DEF OrgInv, OrgsIn, PastOrgs
    <3>3. Past(ctl.copy, ctl.org)'
      BY <2>1, <3>1, <3>2 DEF Past
    <3>4. /\ ctl'.step \in {"bind", "conditions", "status"} => ctl'.copy.finalizer
          /\ ctl'.step \in {"list", "remove"} => ctl'.copy.phase = "deleting"
      BY <3>1 DEF FirstStep
    <3> QED BY <3>3, <3>4 DEF CopyInv
  <2>5. ASSUME ctl'.org = ctl.org, ctl'.copy = ctl.copy, ~At("idle"),
               ctl'.step \in {"bind", "conditions", "status"}
                 => ctl.step \in {"bind", "conditions", "status"},
               ctl'.step \in {"list", "remove"} => ctl.step \in {"list", "remove"}
        PROVE  CopyInv'
    BY <2>1, <2>2, <2>5 DEF OrgInv, CopyInv
  <2>6. CASE ctl' = ctl
    BY <2>1, <2>2, <2>6 DEF OrgInv, CopyInv, At
  <2>7. CASE Bound
    BY <2>2, <2>5, <2>7 DEF Bound, At, Ctl
  <2> QED BY <1>a, <2>2, <2>3, <2>4, <2>5, <2>6, <2>7 DEF CtlStep, At, Ctl
<1> QED BY <1>1, <1>2, <1>3, <1>4 DEF OrgInv

LEMMA OrgInvHolds == Spec => [](TypeOK /\ OrgInv)
<1>1. TypeOK /\ OrgInv /\ [Next]_vars => OrgInv'
  BY OrgInvStep
<1> QED BY <1>1, InitInvs, OrganizationsTyped, PTL DEF Spec

(***************************************************************************)
(* The server's finalizer for deletion in the foreground is the one that    *)
(* keeps an organization for the clusters it had when its deletion began,   *)
(* whichever copies the controller read: what takes it away is the garbage  *)
(* collector, which sees none of them, or a patch that is on record.        *)
(***************************************************************************)
THEOREM ClustersKeepTheirs == Spec => []ClustersKeepOrganization
<1>1. OrgInv => ClustersKeepOrganization
  BY DEF OrgInv, OrgsIn, PastOrgs, Past, Freed, ClustersKeepOrganization
<1> QED BY <1>1, OrgInvHolds, PTL

LEMMA RoleInvStep ==
  ASSUME TypeOK, OrgInv, RoleInv, [Next]_vars
  PROVE  RoleInv'
<1> SUFFICES ASSUME NEW o \in Orgs, rbac'[o].made # {}
             PROVE  orgs'[o].finalizer \/ InDeletion(orgs'[o])
  BY DEF RoleInv
<1>1. RbacWrite(rbac[o], rbac'[o], o) /\ Later(orgs[o], orgs'[o])
  BY OrgSteps, OrgsLater, RbacSteps DEF RbacStep
<1>2. CASE rbac'[o] = rbac[o]
  BY <1>1, <1>2 DEF RoleInv, Later
<1>3. CASE At("bind") /\ o = ctl.org
  <2>1. Past(ctl.copy, o) /\ ctl.copy.finalizer
    BY <1>3 DEF OrgInv, CopyInv, At
  <2> QED BY <1>1, <2>1 DEF Past, Later
<1> QED BY <1>1, <1>2, <1>3 DEF RbacWrite, NoRbac

(***************************************************************************)
(* CreateOrPatch runs only for a copy that shows the finalizer, and no step *)
(* takes the finalizer from an organization that is not in deletion.        *)
(***************************************************************************)
THEOREM FinalizerComesFirst == Spec => []FinalizerBeforeBindings
<1>1. RoleInv => FinalizerBeforeBindings
  BY DEF RoleInv, FinalizerBeforeBindings, InDeletion
<1>2. TypeOK /\ OrgInv /\ RoleInv /\ [Next]_vars => RoleInv'
  BY RoleInvStep
<1> QED BY <1>1, <1>2, InitInvs, OrgInvHolds, PTL DEF Spec

LEMMA ReportInvStep ==
  ASSUME TypeOK, OrgInv, ReportInv, [Next]_vars
  PROVE  ReportInv'
<1>a. OrgStep /\ RbacStep /\ CtlStep
  BY OrgSteps, RbacSteps, CtlSteps
<1>b. \A o \in Orgs : OrgFields(orgs[o], orgs'[o], o) /\ Later(orgs[o], orgs'[o])
                      /\ rbac[o] \in Rbac /\ rbac'[o] \in Rbac
  BY <1>a, Fields, OrgsLater DEF TypeOK, RbacStep, RbacStore
<1>c. ctl.org \in Orgs /\ ctl.part \in Parts /\ ctl \in Ctl
  BY DEF TypeOK, Ctl
<1>1. ASSUME NEW o \in Orgs, ~InDeletion(orgs'[o])
      PROVE  ~InDeletion(orgs[o]) /\ rbac[o].made \subseteq rbac'[o].made
  <2>1. ~InDeletion(orgs[o]) /\ RbacWrite(rbac[o], rbac'[o], o)
    BY <1>1, <1>a, <1>b DEF Later, RbacStep
  <2>2. ~Orphaned(o)
    BY <2>1 DEF OrgInv, ForegroundInDeletion, Orphaned, InDeletion
  <2> QED BY <2>1, <2>2 DEF RbacWrite, WithPart
<1>2. RbacIn(MadeRbac)'
  <2> DEFINE T == MadeRbac'
  <2>1. \A v \in MadeRbac : v \in T
    BY <1>1 DEF MadeRbac
  <2>2. rbac' \in T
    BY <1>a DEF MadeRbac, RbacStep
  <2>3. RbacIn(MadeRbac)
    BY DEF ReportInv
  <2> HIDE DEF T
  <2>4. RbacIn(T)
    BY <2>1, <2>3, SeqMonotonic DEF RbacIn
  <2>5. rbacCache' \in T /\ rbacWatch' \in Seq(T)
    BY <1>a, <2>2, <2>4, RbacMove DEF RbacStep, RbacVersions
  <2>6. rbacCache' \in MadeRbac' /\ rbacWatch' \in Seq(MadeRbac') /\ rbac' \in MadeRbac'
    BY <2>2, <2>5 DEF T
  <2> QED BY <2>6 DEF RbacIn
<1>3. ASSUME NEW o \in Orgs, ~InDeletion(orgs'[o]), orgs'[o].bound = "True"
      PROVE  rbac'[o].made = Parts
  <2>1. ~InDeletion(orgs[o]) /\ rbac[o].made \subseteq rbac'[o].made /\ rbac'[o].made \subseteq Parts
    BY <1>1, <1>3, <1>b DEF Rbac
  <2>2. orgs[o].bound = "True" \/ (o = ctl.org /\ ctl.bound = "True")
    BY <1>3, <1>b DEF OrgFields
  <2>3. rbac[o].made = Parts
    BY <2>1, <2>2 DEF ReportInv
  <2> QED BY <2>1, <2>3
<1>4. ASSUME ~InDeletion(orgs'[ctl'.org])
      PROVE  /\ At("bind")' => \A p \in Parts : p < ctl'.part => p \in rbac'[ctl'.org].made
             /\ ctl'.bound = "True" => rbac'[ctl'.org].made = Parts
  <2>1. CASE ctl' = Idle
    BY <2>1, Defaults DEF At
  <2>2. ASSUME NEW o \in Orgs, ctl' = Started(o)
        PROVE  ctl'.bound = "none" /\ ctl'.part = 1
    BY <2>2, Defaults DEF Started
  <2>3. ASSUME ctl'.org = ctl.org
        PROVE  /\ ~InDeletion(orgs[ctl.org])
               /\ rbac[ctl.org].made \subseteq rbac'[ctl.org].made
               /\ rbac'[ctl.org].made \subseteq Parts
               /\ rbacCache[ctl.org].made \subseteq rbac[ctl.org].made
    BY <1>1, <1>4, <1>b, <1>c, <2>3 DEF Rbac, ReportInv, RbacIn, MadeRbac
  <2>4. ASSUME ctl'.org = ctl.org, ctl'.part = ctl.part, ctl'.bound = ctl.bound,
               At("bind")' => At("bind")
        PROVE  /\ At("bind")' => \A p \in Parts : p < ctl'.part => p \in rbac'[ctl'.org].made
               /\ ctl'.bound = "True" => rbac'[ctl'.org].made = Parts
    <3>1. At("bind") => \A p \in Parts : p < ctl.part => p \in rbac'[ctl.org].made
      BY <2>3, <2>4 DEF ReportInv
    <3>2. ctl.bound = "True" => rbac'[ctl.org].made = Parts
      BY <2>3, <2>4 DEF ReportInv
    <3> QED BY <2>4, <3>1, <3>2
  <2>5. CASE Bound
    <3>1. ctl'.org = ctl.org /\ At("bind")
      BY <1>c, <2>5 DEF Bound, Ctl
    <3>2. \A p \in Parts : p < ctl.part + 1 => p \in rbac'[ctl.org].made
      <4>1. \A p \in Parts : p < ctl.part => p \in rbac[ctl.org].made
        BY <2>3, <3>1 DEF ReportInv
      <4>2. ctl.part \in rbac'[ctl.org].made
        BY <2>3, <2>5, <3>1 DEF Bound
      <4>3. \A p \in Parts : p < ctl.part + 1 => p < ctl.part \/ p = ctl.part
        BY <1>c DEF Parts
      <4> QED BY <2>3, <3>1, <4>1, <4>2, <4>3
    <3>3. CASE ctl.part < 3
      <4>1. ctl'.part = ctl.part + 1 /\ ctl'.bound = ctl.bound
        BY <1>c, <2>5, <3>3 DEF Bound, Ctl
      <4>2. ctl.bound = "True" => rbac'[ctl.org].made = Parts
        BY <2>3, <3>1 DEF ReportInv
      <4> QED BY <3>1, <3>2, <4>1, <4>2
    <3>4. CASE ~(ctl.part < 3)
      <4>1. ctl'.step = "conditions"
        BY <1>c, <2>5, <3>4 DEF Bound, Ctl
      <4>2. \A p \in Parts : p < ctl.part + 1
        BY <1>c, <3>4 DEF Parts
      <4>3. rbac'[ctl.org].made = Parts
        BY <2>3, <3>1, <3>2, <4>2
      <4> QED BY <3>1, <4>1, <4>3 DEF At
    <3> QED BY <3>3, <3>4
  <2>6. CASE At("bind") /\ ctl' = [ctl EXCEPT !.step = "conditions", !.bound = "False",
                                              !.failed = TRUE]
    <3>1. ctl'.step = "conditions" /\ ctl'.bound = "False"
      BY <1>c, <2>6 DEF Ctl
    <3> QED BY <3>1 DEF At
  <2>7. CASE \/ ctl' = ctl
             \/ At("conditions") /\ \E failed \in BOOLEAN :
                   ctl' = [ctl EXCEPT !.step = "status", !.failed = failed]
             \/ At("list") /\ ctl' = [ctl EXCEPT !.step = "remove"]
    <3>1. /\ ctl'.org = ctl.org /\ ctl'.part = ctl.part /\ ctl'.bound = ctl.bound
          /\ At("bind")' => At("bind")
      BY <1>c, <2>7 DEF Ctl, At
    <3> QED BY <2>4, <3>1
  <2>8. ASSUME NEW o \in Orgs, ctl' = Started(o)
        PROVE  /\ At("bind")' => \A p \in Parts : p < ctl'.part => p \in rbac'[ctl'.org].made
               /\ ctl'.bound = "True" => rbac'[ctl'.org].made = Parts
    BY <2>2, <2>8 DEF Parts
  <2> QED BY <1>a, <2>1, <2>5, <2>6, <2>7, <2>8 DEF CtlStep
<1> QED BY <1>2, <1>3, <1>4 DEF ReportInv

(***************************************************************************)
(* The condition of the bindings is patched only after all three parts were *)
(* written, and none of them is collected before the organization is in     *)
(* deletion: what the status reports is there.                              *)
(***************************************************************************)
THEOREM ReportedIsThere == Spec => []ReportedBindingsExist
<1>1. ReportInv => ReportedBindingsExist
  BY DEF ReportInv, ReportedBindingsExist, InDeletion
<1>2. TypeOK /\ OrgInv /\ ReportInv /\ [Next]_vars => ReportInv'
  BY ReportInvStep
<1> QED BY <1>1, <1>2, InitInvs, OrgInvHolds, PTL DEF Spec

LEMMA SuperInvStep ==
  ASSUME TypeOK, SuperInv, [Next]_vars
  PROVE  SuperInv'
<1>a. MemberStep /\ RbacStep
  BY MemberSteps, RbacSteps
<1>1. MembersIn(PromotedMembers)'
  <2> DEFINE T == PromotedMembers'
  <2>1. \A m \in PromotedMembers : m \in T
    BY <1>a DEF PromotedMembers, MemberStep
  <2>2. MembersIn(PromotedMembers)
    BY DEF SuperInv
  <2>3. members' \in T
    BY <1>a, <2>2 DEF PromotedMembers, MemberStep, MembersIn
  <2> HIDE DEF T
  <2>4. MembersIn(T)
    BY <2>1, <2>2, SeqMonotonic DEF MembersIn
  <2>5. memberCache' \in T /\ memberWatch' \in Seq(T)
    BY <1>a, <2>3, <2>4, MemberMove DEF MemberStep
  <2>6. memberCache' \in PromotedMembers' /\ memberWatch' \in Seq(PromotedMembers')
        /\ members' \in PromotedMembers'
    BY <2>3, <2>5 DEF T
  <2> QED BY <2>6 DEF MembersIn
<1>2. SubjectsWereSuperUsers'
  <2> SUFFICES ASSUME NEW o \in Orgs PROVE rbac'[o].supers \subseteq promoted'[o]
    BY DEF SubjectsWereSuperUsers
  <2>1. /\ rbac[o].supers \subseteq promoted[o] /\ promoted[o] \subseteq promoted'[o]
        /\ RbacWrite(rbac[o], rbac'[o], o)
    BY <1>a DEF SuperInv, SubjectsWereSuperUsers, MemberStep, RbacStep
  <2>2. Subjects(o, 1) \subseteq promoted[o]
    BY DEF SuperInv, MembersIn, PromotedMembers, Subjects
  <2> QED BY <2>1, <2>2 DEF RbacWrite, WithPart, NoRbac
<1> QED BY <1>1, <1>2 DEF SuperInv

(***************************************************************************)
(* However stale the copy of the members is that the reconciler reads, it   *)
(* makes nobody a super user of the organization who never was one.         *)
(***************************************************************************)
THEOREM SubjectsWereSupers == Spec => []SubjectsWereSuperUsers
<1>1. TypeOK /\ SuperInv /\ [Next]_vars => SuperInv'
  BY SuperInvStep
<1>2. SuperInv => SubjectsWereSuperUsers
  BY DEF SuperInv
<1> QED BY <1>1, <1>2, InitInvs, OrganizationsTyped, PTL DEF Spec

=============================================================================
