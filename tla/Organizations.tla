---------------------------- MODULE Organizations ----------------------------
(***************************************************************************)
(* Organizations: the calls that create, extend and delete them, and the    *)
(* controller that keeps a finalizer on them, writes the cluster roles and  *)
(* bindings of their members and deletes them when their duration is over.  *)
(*                                                                         *)
(* An organization has the name of its namespace, which the server makes    *)
(* up, so a name is never used twice.  Clusters and members are seen from   *)
(* here only as far as the controller looks at them; the deletion of a      *)
(* cluster takes one step.  A cluster role and its binding are written in   *)
(* one step: the role does not depend on anything and gives no right alone. *)
(***************************************************************************)
EXTENDS Naturals, Sequences

CONSTANTS
    Orgs,       \* names the server makes up
    Users,
    Durations,  \* durations a request may ask for, in steps of a coarse clock
    Webhooks,   \* --enable-webhooks
    MaxLag,     \* bound: undelivered versions per kind
    Kinds,      \* kinds of calls after the creation, failures and switches there are
    MaxEvents   \* bound: how many of them

ASSUME OrganizationsAssumption ==
    /\ Orgs # {} /\ Users # {}
    /\ Durations \subseteq Nat \ {0}
    /\ Webhooks \in BOOLEAN
    /\ Kinds \subseteq {"update", "delete", "cluster", "member", "error", "feature", "restart"}
    /\ MaxLag \in Nat \ {0} /\ MaxEvents \in Nat

VARIABLES
    orgs, orgCache, orgWatch,              \* Organization objects
    clusters, clusterCache, clusterWatch,  \* organizations that own a cluster
    members, memberCache, memberWatch,     \* the role of each user in each organization
    rbac, rbacCache, rbacWatch,            \* cluster roles and cluster role bindings
    namespaces,
    creation,    \* calls of CreateGlobalOrganization
    elapsed,     \* age of each organization on the coarse clock
    autoAssign,  \* whether the feature organization-auto-assign is enabled
    queue, timers, ctl,
    promoted,    \* users that have been super users of each organization
    older,       \* organizations with a cluster that was there when their deletion began
    undone,      \* organizations whose deletion in the foreground was taken back
    events

O == INSTANCE Informer WITH store <- orgs, cache <- orgCache, watch <- orgWatch
C == INSTANCE Informer WITH store <- clusters, cache <- clusterCache, watch <- clusterWatch
M == INSTANCE Informer WITH store <- members, cache <- memberCache, watch <- memberWatch
R == INSTANCE Informer WITH store <- rbac, cache <- rbacCache, watch <- rbacWatch

orgVars == <<orgs, orgCache, orgWatch>>
clusterVars == <<clusters, clusterCache, clusterWatch>>
memberVars == <<members, memberCache, memberWatch>>
rbacVars == <<rbac, rbacCache, rbacWatch>>
handlerVars == <<namespaces, creation, elapsed, autoAssign>>
controllerVars == <<queue, timers, ctl>>
historyVars == <<promoted, older, undone>>
vars == <<orgVars, clusterVars, memberVars, rbacVars, handlerVars, controllerVars,
          historyVars, events>>

Age == {0} \cup UNION {0 .. d : d \in Durations}

(***************************************************************************)
(* An organization.  duration and stamp (the expiration in the status) are  *)
(* 0 if not given; foreground is the finalizer of the server for deletion   *)
(* in the foreground, finalizer that of the controller.                     *)
(***************************************************************************)
Organization == [phase: {"free", "live", "deleting", "gone"},
                 duration: {0} \cup Durations, stamp: {0} \cup Durations,
                 finalizer: BOOLEAN, foreground: BOOLEAN,
                 bound: {"none", "False", "True"}]
NoOrganization == [phase |-> "free", duration |-> 0, stamp |-> 0, finalizer |-> FALSE,
                   foreground |-> FALSE, bound |-> "none"]

(***************************************************************************)
(* Cluster roles and bindings are made in the order 1 super users, 2        *)
(* readers, 3 others; made is the set of those there are.                   *)
(***************************************************************************)
Parts == 1 .. 3
Rbac == [made: SUBSET Parts, supers: SUBSET Users, readers: SUBSET Users]
NoRbac == [made |-> {}, supers |-> {}, readers |-> {}]

OrgStore == [Orgs -> Organization]
ClusterStore == SUBSET Orgs
MemberStore == [Orgs -> [Users -> {"none", "User", "SuperUser"}]]
RbacStore == [Orgs -> Rbac]

ControllerStep == {"idle", "expire", "finalizer", "bind", "conditions", "status", "list",
                   "remove"}

TypeOK ==
    /\ orgs \in OrgStore /\ orgCache \in OrgStore /\ orgWatch \in Seq(OrgStore)
    /\ clusters \in ClusterStore /\ clusterCache \in ClusterStore
    /\ clusterWatch \in Seq(ClusterStore)
    /\ members \in MemberStore /\ memberCache \in MemberStore
    /\ memberWatch \in Seq(MemberStore)
    /\ rbac \in RbacStore /\ rbacCache \in RbacStore /\ rbacWatch \in Seq(RbacStore)
    /\ namespaces \in [Orgs -> {"free", "unowned", "owned", "gone"}]
    /\ creation \in [Orgs -> [step: {"none", "organization", "owner", "member", "done",
                                     "failed"},
                              user: Users, duration: {0} \cup Durations]]
    /\ elapsed \in [Orgs -> Age] /\ autoAssign \in BOOLEAN
    /\ queue \subseteq Orgs /\ timers \in [Orgs -> {0} \cup Durations]
    /\ ctl \in [step: ControllerStep, org: Orgs, copy: Organization, part: Parts,
                bound: {"none", "False", "True"}, failed: BOOLEAN, due: {0} \cup Durations]
    /\ promoted \in [Orgs -> SUBSET Users] /\ older \subseteq clusters
    /\ undone \subseteq Orgs
    /\ events \in 0 .. MaxEvents

Idle == [step |-> "idle", org |-> CHOOSE o \in Orgs : TRUE, copy |-> NoOrganization,
         part |-> 1, bound |-> "none", failed |-> FALSE, due |-> 0]

Init ==
    /\ orgs = [o \in Orgs |-> NoOrganization] /\ orgCache = orgs /\ orgWatch = << >>
    /\ clusters = {} /\ clusterCache = {} /\ clusterWatch = << >>
    /\ members = [o \in Orgs |-> [u \in Users |-> "none"]]
    /\ memberCache = members /\ memberWatch = << >>
    /\ rbac = [o \in Orgs |-> NoRbac] /\ rbacCache = rbac /\ rbacWatch = << >>
    /\ namespaces = [o \in Orgs |-> "free"]
    /\ creation = [o \in Orgs |-> [step |-> "none", user |-> CHOOSE u \in Users : TRUE,
                                   duration |-> 0]]
    /\ elapsed = [o \in Orgs |-> 0] /\ autoAssign = TRUE
    /\ queue = {} /\ timers = [o \in Orgs |-> 0] /\ ctl = Idle
    /\ promoted = [o \in Orgs |-> {}] /\ older = {} /\ undone = {}
    /\ events = 0

-----------------------------------------------------------------------------
(* Helpers *)

\* One more call, failure or switch, of the bounded number.
Event(kind) == kind \in Kinds /\ events < MaxEvents /\ events' = events + 1

HasExpired(organization, o) ==
    organization.duration # 0 /\ elapsed[o] >= organization.duration

\* The webhook validates creations and updates, of the status not.
Admits == Webhooks => autoAssign

\* An object in deletion goes with its last finalizer.
Settled(organization) ==
    IF organization.phase = "deleting" /\ ~organization.finalizer /\ ~organization.foreground
    THEN [organization EXCEPT !.phase = "gone"]
    ELSE organization

\* Mutant: deletion in the background.
Delete_Background(o) ==
    O!Write([orgs EXCEPT ![o] = Settled([orgs[o] EXCEPT !.phase = "deleting"])])

\* Deletion in the foreground, of an object that exists.
Delete(o) == O!Write([orgs EXCEPT ![o].phase = "deleting", ![o].foreground = TRUE])

\* Notes whether there is a cluster when the deletion begins.
NoteCluster(o) ==
    older' = IF orgs[o].phase = "live" /\ o \in clusters THEN older \cup {o} ELSE older

Exists(organization) == organization.phase \in {"live", "deleting"}

-----------------------------------------------------------------------------
(* CreateGlobalOrganization: four writes.  No write is certain to follow the one before: *)
(* it may fail, and the voucher or the duration may be refused after the first.          *)

Step(o, from, to) ==
    /\ creation[o].step = from
    /\ creation' = [creation EXCEPT ![o].step = to]

CreateNamespace(o, u, d) ==
    /\ creation[o].step = "none"
    /\ creation' = [creation EXCEPT ![o] = [step |-> "organization", user |-> u, duration |-> d]]
    /\ namespaces' = [namespaces EXCEPT ![o] = "unowned"]
    /\ UNCHANGED <<orgVars, clusterVars, memberVars, rbacVars, elapsed, autoAssign,
                   controllerVars, historyVars, events>>

CreateOrganization(o) ==
    /\ \/ /\ Admits
          /\ Step(o, "organization", "owner")
          /\ O!Write([orgs EXCEPT ![o] = [NoOrganization EXCEPT !.phase = "live",
                                               !.duration = creation[o].duration]])
       \/ ~Admits /\ Step(o, "organization", "failed") /\ UNCHANGED orgVars
    /\ UNCHANGED <<clusterVars, memberVars, rbacVars, namespaces, elapsed, autoAssign,
                   controllerVars, historyVars, events>>

\* The namespace gets its owner, which may be gone by now.
OwnNamespace(o) ==
    /\ Step(o, "owner", "member")
    /\ namespaces' = [namespaces EXCEPT ![o] = "owned"]
    /\ UNCHANGED <<orgVars, clusterVars, memberVars, rbacVars, elapsed, autoAssign,
                   controllerVars, historyVars, events>>

\* The creator becomes a super user, unless the namespace is being deleted.
CreateMember(o) ==
    LET u == creation[o].user IN
    /\ \/ /\ namespaces[o] = "owned" /\ members[o][u] = "none"
          /\ Step(o, "member", "done")
          /\ M!Write([members EXCEPT ![o][u] = "SuperUser"])
          /\ promoted' = [promoted EXCEPT ![o] = @ \cup {u}]
       \/ /\ namespaces[o] # "owned" \/ members[o][u] # "none"
          /\ Step(o, "member", "failed")
          /\ UNCHANGED <<memberVars, promoted>>
    /\ UNCHANGED <<orgVars, clusterVars, rbacVars, namespaces, elapsed, autoAssign,
                   controllerVars, older, undone, events>>

-----------------------------------------------------------------------------
(* Other calls *)

\* A patch of the duration, if one is given and the copy has another.
UpdateGlobalOrganization(o, d) ==
    /\ Exists(orgCache[o]) /\ Exists(orgs[o]) /\ Admits
    /\ Event("update") /\ O!Write(IF d \in {0, orgCache[o].duration} THEN orgs
                                  ELSE [orgs EXCEPT ![o].duration = d])
    /\ UNCHANGED <<clusterVars, memberVars, rbacVars, handlerVars, controllerVars, historyVars>>

DeleteGlobalOrganization(o) ==
    /\ Exists(orgCache[o]) /\ Exists(orgs[o])
    /\ Event("delete") /\ Delete(o) /\ NoteCluster(o)
    /\ UNCHANGED <<clusterVars, memberVars, rbacVars, handlerVars, controllerVars, promoted,
                   undone>>

\* CreateOrganizationCluster asks the copy for the organization, deleted or not.
CreateCluster(o) ==
    /\ Exists(orgCache[o]) /\ o \notin clusters
    /\ namespaces[o] \in {"unowned", "owned"}
    /\ Event("cluster") /\ C!Write(clusters \cup {o})
    /\ UNCHANGED <<orgVars, memberVars, rbacVars, handlerVars, controllerVars, historyVars>>

\* Members join by invitation, get other roles and leave.
ChangeMember(o, u, role) ==
    /\ members[o][u] # role
    /\ namespaces[o] = "owned" \/ role = "none"
    /\ Event("member") /\ M!Write([members EXCEPT ![o][u] = role])
    /\ promoted' = IF role = "SuperUser" THEN [promoted EXCEPT ![o] = @ \cup {u}] ELSE promoted
    /\ UNCHANGED <<orgVars, clusterVars, rbacVars, handlerVars, controllerVars, older,
                   undone>>

Tick(o) ==
    /\ Exists(orgs[o]) /\ elapsed[o] + 1 \in Age
    /\ elapsed' = [elapsed EXCEPT ![o] = @ + 1]
    /\ UNCHANGED <<orgVars, clusterVars, memberVars, rbacVars, namespaces, creation, autoAssign,
                   controllerVars, historyVars, events>>

-----------------------------------------------------------------------------
(* OrganizationReconciler: one worker, which reads copies *)

externalVars == <<clusterVars, memberVars, handlerVars, historyVars, events>>

At(step) == ctl.step = step

\* The worker goes to the given step, or ends without an error.
Goto(step) == ctl' = [ctl EXCEPT !.step = step] /\ UNCHANGED <<queue, timers>>
End == ctl' = Idle /\ UNCHANGED <<queue, timers>>

\* An error puts the organization back in the queue.
Retry == ctl' = Idle /\ queue' = queue \cup {ctl.org} /\ UNCHANGED timers

\* Mutant: bindings are made for an organization that has no finalizer yet.
FirstStep_NoFinalizer(copy, o) ==
    IF copy.phase = "deleting" THEN "list" ELSE IF HasExpired(copy, o) THEN "expire" ELSE "bind"

\* Mutant: expiry is looked at before deletion.
FirstStep_ExpiryFirst(copy, o) ==
    IF HasExpired(copy, o) THEN "expire"
    ELSE IF copy.phase = "deleting" THEN "list"
    ELSE IF ~copy.finalizer THEN "finalizer"
    ELSE "bind"

FirstStep(copy, o) ==
    IF copy.phase = "deleting" THEN "list"
    ELSE IF HasExpired(copy, o) THEN "expire"
    ELSE IF ~copy.finalizer THEN "finalizer"
    ELSE "bind"

StartReconcile(o) ==
    /\ At("idle") /\ o \in queue
    /\ queue' = queue \ {o}
    /\ ctl' = IF Exists(orgCache[o])
              THEN [Idle EXCEPT !.step = FirstStep(orgCache[o], o), !.org = o,
                                !.copy = orgCache[o]]
              ELSE Idle
    /\ UNCHANGED <<orgVars, rbacVars, externalVars, timers>>

DeleteExpired ==
    /\ At("expire")
    /\ \/ Exists(orgs[ctl.org]) /\ Delete(ctl.org) /\ NoteCluster(ctl.org) /\ End
       \/ ~Exists(orgs[ctl.org]) /\ Retry /\ UNCHANGED <<orgVars, older>>
    /\ UNCHANGED <<clusterVars, memberVars, rbacVars, handlerVars, promoted, undone, events>>

(***************************************************************************)
(* The deferred patch replaces the list of finalizers by that of the copy,  *)
(* which was not in deletion, and ours: deletion in the foreground may get  *)
(* lost.  An organization in deletion takes no new finalizer.               *)
(***************************************************************************)
AddFinalizer ==
    LET o == ctl.org
        accepted == Admits /\ (orgs[o].phase = "live" \/ (Exists(orgs[o]) /\ orgs[o].finalizer))
    IN
    /\ At("finalizer")
    /\ \/ /\ accepted
          /\ O!Write([orgs EXCEPT ![o].finalizer = TRUE, ![o].foreground = FALSE])
          /\ undone' = IF orgs[o].foreground THEN undone \cup {o} ELSE undone
          /\ End
       \/ ~accepted /\ Retry /\ UNCHANGED <<orgVars, undone>>
    /\ UNCHANGED <<clusterVars, memberVars, rbacVars, handlerVars, promoted, older, events>>

\* Mutant: every member is a subject of the binding of the super users.
Subjects_AllMembers(o, p) == {u \in Users : memberCache[o][u] # "none" /\ p < 3}

\* The subjects of part p, from the copy of the members.
Subjects(o, p) ==
    CASE p = 1 -> {u \in Users : memberCache[o][u] = "SuperUser"}
      [] p = 2 -> {u \in Users : memberCache[o][u] # "none"}
      [] OTHER -> {}

\* Mutant: the parts are counted from one too many.
WithPart_OffByOne(r, p, subjects) ==
    [made |-> r.made \cup {p + 1}, supers |-> r.supers, readers |-> r.readers]

WithPart(r, p, subjects) ==
    [made |-> r.made \cup {p},
     supers |-> IF p = 1 THEN subjects ELSE r.supers,
     readers |-> IF p = 2 THEN subjects ELSE r.readers]

\* Mutant: the role and the binding of the others are left out.
BindPart_TwoParts(o, p) ==
    /\ R!Write(IF p \in rbac[o].made THEN rbac
               ELSE [rbac EXCEPT ![o] = WithPart(rbac[o], p, Subjects(o, p))])
    /\ ctl' = IF p < 2 THEN [ctl EXCEPT !.part = p + 1]
              ELSE [ctl EXCEPT !.step = "conditions", !.bound = "True"]

\* Mutant: a binding that is there is not patched.
BindPart_CreateOnly(o, p) ==
    /\ R!Write(IF p \in rbac[o].made THEN rbac
               ELSE [rbac EXCEPT ![o] = WithPart(rbac[o], p, Subjects(o, p))])
    /\ ctl' = IF p < 3 THEN [ctl EXCEPT !.part = p + 1]
              ELSE [ctl EXCEPT !.step = "conditions", !.bound = "True"]

(***************************************************************************)
(* CreateOrPatch of one role and its binding.  What the copy does not show  *)
(* is created, which fails if it exists; else the patch is what differs     *)
(* from the copy, and fails if the object is gone.                          *)
(***************************************************************************)
BindPart(o, p) ==
    LET desired == WithPart(rbacCache[o], p, Subjects(o, p))
        create  == p \notin rbacCache[o].made
    IN \/ /\ IF create THEN p \notin rbac[o].made
             ELSE desired = rbacCache[o] \/ p \in rbac[o].made
          /\ R!Write(IF ~create /\ desired = rbacCache[o] THEN rbac
                     ELSE [rbac EXCEPT ![o] = WithPart(rbac[o], p, Subjects(o, p))])
          /\ ctl' = IF p < 3 THEN [ctl EXCEPT !.part = p + 1]
                    ELSE [ctl EXCEPT !.step = "conditions", !.bound = "True",
                                     !.due = IF HasExpired(ctl.copy, o) THEN 0
                                             ELSE ctl.copy.duration]
       \/ /\ IF create THEN p \in rbac[o].made
             ELSE desired # rbacCache[o] /\ p \notin rbac[o].made
          /\ ctl' = [ctl EXCEPT !.step = "conditions", !.bound = "False", !.failed = TRUE]
          /\ UNCHANGED rbacVars

Bind ==
    /\ At("bind")
    /\ BindPart(ctl.org, ctl.part)
    /\ UNCHANGED <<orgVars, externalVars, queue, timers>>

\* The condition is patched on the latest copy, which has to be current.
PatchConditions ==
    LET o == ctl.org
        changed == ctl.bound # ctl.copy.bound
        current == Exists(orgs[o]) /\ orgCache[o] = orgs[o]
    IN
    /\ At("conditions")
    /\ O!Write(IF changed /\ current THEN [orgs EXCEPT ![o].bound = ctl.bound] ELSE orgs)
    /\ ctl' = [ctl EXCEPT !.step = "status", !.failed = @ \/ (changed /\ ~current)]
    /\ UNCHANGED <<rbacVars, externalVars, queue, timers>>

\* Mutant: nothing asks for another reconciliation.
Delayed_Never(o, due) == timers

\* A delay that is shorter than the one there is replaces it.
Delayed(o, due) ==
    [timers EXCEPT ![o] = IF due # 0 /\ (@ = 0 \/ due < @) THEN due ELSE @]

\* The rest of the status, whatever became of the condition, and the end.
PatchStatus ==
    LET o == ctl.org
        changed == ctl.bound = "True" /\ ctl.copy.stamp # ctl.copy.duration
    IN
    /\ At("status")
    /\ \/ /\ changed => Exists(orgs[o])
          /\ O!Write(IF changed THEN [orgs EXCEPT ![o].stamp = ctl.copy.duration] ELSE orgs)
          /\ IF ctl.failed THEN Retry
             ELSE /\ ctl' = Idle /\ timers' = Delayed(o, ctl.due)
                  /\ UNCHANGED queue
       \/ changed /\ ~Exists(orgs[o]) /\ Retry /\ UNCHANGED orgVars
    /\ UNCHANGED <<rbacVars, externalVars>>

\* An organization in deletion that has clusters is left alone.
ListClusters ==
    /\ At("list")
    /\ IF ctl.org \in clusterCache THEN End ELSE Goto("remove")
    /\ UNCHANGED <<orgVars, rbacVars, externalVars>>

\* The patch replaces the finalizers by those of the copy without ours.
RemoveFinalizer ==
    LET o == ctl.org
        accepted == /\ Exists(orgs[o])
                    /\ ctl.copy.finalizer => Admits
                    /\ ctl.copy.finalizer /\ ctl.copy.foreground => orgs[o].foreground
    IN
    /\ At("remove")
    /\ \/ /\ accepted
          /\ O!Write(IF ctl.copy.finalizer
                     THEN [orgs EXCEPT ![o] = Settled([orgs[o] EXCEPT
                              !.finalizer = FALSE, !.foreground = ctl.copy.foreground])]
                     ELSE orgs)
          /\ End
       \/ ~accepted /\ Retry /\ UNCHANGED orgVars
    /\ UNCHANGED <<rbacVars, externalVars>>

Controller ==
    \/ DeleteExpired \/ AddFinalizer \/ Bind \/ PatchConditions \/ PatchStatus
    \/ ListClusters \/ RemoveFinalizer

TimerFires(o) ==
    /\ timers[o] # 0 /\ elapsed[o] >= timers[o]
    /\ timers' = [timers EXCEPT ![o] = 0]
    /\ queue' = queue \cup {o}
    /\ UNCHANGED <<orgVars, rbacVars, externalVars, ctl>>

-----------------------------------------------------------------------------
(* Watches: only organizations have no controlling owner to ask for *)

Changed(old, new) == {o \in Orgs : old[o] # new[o]}

DeliverOrg ==
    /\ O!Deliver
    /\ queue' = queue \cup Changed(orgCache, orgCache')
    /\ UNCHANGED <<rbacVars, externalVars, timers, ctl>>

DeliverCluster ==
    /\ C!Deliver
    /\ UNCHANGED <<orgVars, memberVars, rbacVars, handlerVars, controllerVars, historyVars,
                   events>>

DeliverMember ==
    /\ M!Deliver
    /\ UNCHANGED <<orgVars, clusterVars, rbacVars, handlerVars, controllerVars, historyVars,
                   events>>

DeliverRbac ==
    /\ R!Deliver
    /\ UNCHANGED <<orgVars, externalVars, controllerVars>>

Resync(o) ==
    /\ Exists(orgCache[o])
    /\ queue' = queue \cup {o}
    /\ UNCHANGED <<orgVars, rbacVars, externalVars, timers, ctl>>

-----------------------------------------------------------------------------
(* The garbage collector, and clusters that are deleted *)

\* The server's own finalizer goes when nothing is left that blocks the deletion.
CollectOrganization(o) ==
    /\ orgs[o].foreground /\ o \notin clusters /\ Admits
    /\ O!Write([orgs EXCEPT ![o] = Settled([orgs[o] EXCEPT !.foreground = FALSE])])
    /\ UNCHANGED <<rbacVars, externalVars, controllerVars>>

Orphaned(o) == orgs[o].foreground \/ orgs[o].phase = "gone"

DeleteCluster(o) ==
    /\ o \in clusters
    /\ C!Write(clusters \ {o}) /\ older' = older \ {o}
    /\ UNCHANGED <<orgVars, memberVars, rbacVars, handlerVars, controllerVars, promoted, undone,
                   events>>

CollectNamespace(o) ==
    /\ Orphaned(o) /\ namespaces[o] = "owned"
    /\ namespaces' = [namespaces EXCEPT ![o] = "gone"]
    /\ UNCHANGED <<orgVars, clusterVars, memberVars, rbacVars, creation, elapsed, autoAssign,
                   controllerVars, historyVars, events>>

CollectRbac(o) ==
    /\ Orphaned(o) /\ rbac[o] # NoRbac
    /\ R!Write([rbac EXCEPT ![o] = NoRbac])
    /\ UNCHANGED <<orgVars, externalVars, controllerVars>>

-----------------------------------------------------------------------------
(* Failures *)

\* A call of the controller fails; its internal error on a deletion is retried as well.
ControllerError ==
    /\ ~At("idle") /\ Event("error")
    /\ IF At("bind") THEN /\ ctl' = [ctl EXCEPT !.step = "conditions", !.bound = "False",
                                                !.failed = TRUE]
                          /\ UNCHANGED <<queue, timers>>
       ELSE Retry
    /\ UNCHANGED <<orgVars, clusterVars, memberVars, rbacVars, handlerVars, historyVars>>

\* An administrator switches the feature, which only the webhook asks for.
ToggleFeature ==
    /\ Webhooks /\ Event("feature") /\ autoAssign' = ~autoAssign
    /\ UNCHANGED <<orgVars, clusterVars, memberVars, rbacVars, namespaces, creation, elapsed,
                   controllerVars, historyVars>>

\* The process ends and starts again.
Restart ==
    /\ Event("restart")
    /\ O!Relist /\ C!Relist /\ M!Relist /\ R!Relist
    /\ creation' = [o \in Orgs |->
                      IF creation[o].step \in {"organization", "owner", "member"}
                      THEN [creation[o] EXCEPT !.step = "failed"] ELSE creation[o]]
    /\ ctl' = Idle /\ timers' = [o \in Orgs |-> 0]
    /\ queue' = {o \in Orgs : Exists(orgs[o])}
    /\ UNCHANGED <<namespaces, elapsed, autoAssign, historyVars>>

Next ==
    \/ \E o \in Orgs :
          \/ \E u \in Users, d \in {0} \cup Durations : CreateNamespace(o, u, d)
          \/ CreateOrganization(o) \/ OwnNamespace(o) \/ CreateMember(o)
          \/ \E d \in {0} \cup Durations : UpdateGlobalOrganization(o, d)
          \/ DeleteGlobalOrganization(o) \/ CreateCluster(o) \/ DeleteCluster(o)
          \/ \E u \in Users, role \in {"none", "User", "SuperUser"} : ChangeMember(o, u, role)
          \/ Tick(o) \/ StartReconcile(o) \/ TimerFires(o) \/ Resync(o)
          \/ CollectOrganization(o) \/ CollectNamespace(o) \/ CollectRbac(o)
    \/ Controller \/ DeliverOrg \/ DeliverCluster \/ DeliverMember \/ DeliverRbac
    \/ ControllerError \/ ToggleFeature \/ Restart

Spec == Init /\ [][Next]_vars

(***************************************************************************)
(* The controller goes on, its queue is first in first out, delays end,     *)
(* watches deliver and garbage is collected.                                *)
(***************************************************************************)
Fairness ==
    /\ WF_vars(Controller)
    /\ WF_vars(DeliverOrg) /\ WF_vars(DeliverCluster)
    /\ WF_vars(DeliverMember) /\ WF_vars(DeliverRbac)
    /\ \A o \in Orgs :
          /\ SF_vars(StartReconcile(o)) /\ WF_vars(TimerFires(o))
          /\ SF_vars(CollectOrganization(o))

FairSpec == Spec /\ Fairness

\* An informer shows every object again from time to time.
Resynced == \A o \in Orgs : WF_vars(Resync(o))

-----------------------------------------------------------------------------
(* Properties *)

(***************************************************************************)
(* Cluster roles are written only for an organization that the finalizer    *)
(* keeps from going behind the controller's back.                           *)
(***************************************************************************)
FinalizerBeforeBindings ==
    \A o \in Orgs : rbac[o].made # {} => orgs[o].finalizer \/ orgs[o].phase # "live"

\* Reported bindings of an organization that is not in deletion are there.
ReportedBindingsExist ==
    \A o \in Orgs : orgs[o].bound = "True" /\ orgs[o].phase = "live" => rbac[o].made = Parts

(***************************************************************************)
(* The right to change and delete an organization is never given to a user  *)
(* that has not been a super user of it, whatever copies are read.          *)
(***************************************************************************)
SubjectsWereSuperUsers == \A o \in Orgs : rbac[o].supers \subseteq promoted[o]

(***************************************************************************)
(* An organization does not go before a cluster that was there when its     *)
(* deletion began, whatever the controller's copy of the clusters shows.    *)
(* The exception is a finalizer added from a copy older than the deletion:  *)
(* that patch takes the deletion in the foreground back.  Clusters that are *)
(* created during the deletion, which CreateOrganizationCluster does not    *)
(* refuse, are not protected and not claimed to be.                         *)
(***************************************************************************)
ClustersKeepOrganization ==
    \A o \in Orgs : orgs[o].phase = "gone" /\ o \in older => o \in undone

(***************************************************************************)
(* An organization in deletion whose clusters are gone goes, unless the     *)
(* webhook refuses the removal of its finalizers: a resync gets over a list *)
(* of clusters that was stale.                                              *)
(***************************************************************************)
DeletedGo ==
    Resynced => \A o \in Orgs : ~<>[](orgs[o].phase = "deleting" /\ o \notin clusters /\ Admits)

(***************************************************************************)
(* An organization does not stay past its duration.  If nobody changes it   *)
(* and its controller neither fails nor restarts, the timer is enough: if   *)
(* it expires while it is reconciled and the delay is lost, the new status  *)
(* has it reconciled once more.  After a failure, or a restart that loses   *)
(* the timer, the resync is enough.                                         *)
(***************************************************************************)
ExpiredDeleted ==
    \A o \in Orgs :
        /\ ~<>[](orgs[o].phase = "live" /\ HasExpired(orgs[o], o) /\ events = 0)
        /\ Resynced => ~<>[](orgs[o].phase = "live" /\ HasExpired(orgs[o], o))

(***************************************************************************)
(* The right to change an organization follows the role of a member that    *)
(* does not change any more, although members are not watched: by a resync. *)
(***************************************************************************)
RightsFollowMembers ==
    Resynced => \A o \in Orgs, u \in Users, super \in BOOLEAN :
        <>[](orgs[o].phase = "live" /\ (members[o][u] = "SuperUser") = super /\ Admits)
        => <>[]((u \in rbac[o].supers) = super \/ HasExpired(orgs[o], o))

=============================================================================
