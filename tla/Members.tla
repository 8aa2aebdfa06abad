------------------------------- MODULE Members -------------------------------
(***************************************************************************)
(* Members of one organization and what the member controller makes of      *)
(* them: a role and role bindings in the organization's namespace, the      *)
(* MemberAuthorizationReady condition, and the e-mail copied from the user. *)
(*                                                                         *)
(* A member is named after its user; one that leaves and joins again has    *)
(* the same name and another UID.  A binding is owned by the UID of a       *)
(* member, and the server collects it when that member is gone.             *)
(***************************************************************************)
EXTENDS Naturals, Sequences

CONSTANTS
    Users,
    LateUsers,  \* users whose User object may be created after the member
    Roles,
    MaxUid,     \* bound: members ever created
    MaxLag,     \* bound: undelivered versions per kind
    MaxFaults   \* bound: failed API calls and restarts

ASSUME MembersAssumption ==
    /\ Users # {} /\ LateUsers \subseteq Users
    /\ Roles # {} /\ Roles \subseteq {"Reader", "User", "SuperUser"}
    /\ MaxUid \in Nat \ {0} /\ MaxLag \in Nat \ {0}
    /\ MaxFaults \in Nat

VARIABLES
    members, memberCache, memberWatch,     \* Member objects
    bindings, bindingCache, bindingWatch,  \* Roles and RoleBindings: their owner's UID
    registered,  \* users whose User object exists
    queue,       \* work queue of the member controller
    ctl,         \* the reconciliation in progress
    held,        \* roles each member has had
    faults

M == INSTANCE Informer WITH store <- members, cache <- memberCache, watch <- memberWatch
B == INSTANCE Informer WITH store <- bindings, cache <- bindingCache, watch <- bindingWatch

memberVars == <<members, memberCache, memberWatch>>
bindingVars == <<bindings, bindingCache, bindingWatch>>
vars == <<members, memberCache, memberWatch, bindings, bindingCache, bindingWatch,
          registered, queue, ctl, held, faults>>

Uids == 1 .. MaxUid

(***************************************************************************)
(* What is made for a member, in order: the role ":self", its binding, and  *)
(* the bindings ":reader", ":user" and ":super-user".  A role stops at its  *)
(* depth.                                                                   *)
(***************************************************************************)
Levels == 1 .. 5
Depth(role) == CASE role = "Reader" -> 3 [] role = "User" -> 4 [] role = "SuperUser" -> 5

\* A condition; the message of a False one names the error and where it occurred.
Report == [status: {"none", "False", "True"},
           error: {"", "exists", "missing", "failed"}, level: 0 .. 5]
NoReport == [status |-> "none", error |-> "", level |-> 0]
Ready == [status |-> "True", error |-> "", level |-> 0]
NotReady(error, level) == [status |-> "False", error |-> error, level |-> level]

\* uid 0: the object does not exist.
Member == [uid: 0 .. MaxUid, role: Roles, authz: Report, info: BOOLEAN]
NoMember == [uid |-> 0, role |-> CHOOSE r \in Roles : TRUE, authz |-> NoReport, info |-> FALSE]
MemberStore == [Users -> Member]
BindingStore == [Users -> [Levels -> 0 .. MaxUid]]

ControllerStep == {"idle", "bind", "conditions", "status"}

TypeOK ==
    /\ members \in MemberStore /\ memberCache \in MemberStore /\ memberWatch \in Seq(MemberStore)
    /\ bindings \in BindingStore /\ bindingCache \in BindingStore
    /\ bindingWatch \in Seq(BindingStore)
    /\ registered \subseteq Users /\ queue \subseteq Users
    /\ ctl \in [step: ControllerStep, user: Users, copy: Member, level: Levels,
                authz: Report, failed: BOOLEAN]
    /\ held \in [Uids -> SUBSET Roles]
    /\ faults \in 0 .. MaxFaults

Idle == [step |-> "idle", user |-> CHOOSE u \in Users : TRUE, copy |-> NoMember, level |-> 1,
         authz |-> NoReport, failed |-> FALSE]

Init ==
    /\ members = [u \in Users |-> NoMember]
    /\ memberCache = members /\ memberWatch = << >>
    /\ bindings = [u \in Users |-> [l \in Levels |-> 0]]
    /\ bindingCache = bindings /\ bindingWatch = << >>
    /\ registered = Users \ LateUsers /\ queue = {}
    /\ ctl = Idle
    /\ held = [n \in Uids |-> {}]
    /\ faults = 0

-----------------------------------------------------------------------------
(* Members come, change and go *)

\* An accepted invitation, a new organization or a directory creates a member.
CreateMember(u, role) ==
    /\ members[u].uid = 0
    /\ \E n \in Uids :
         /\ held[n] = {} /\ \A m \in Uids : m < n => held[m] # {}
         /\ M!Write([members EXCEPT ![u] = [NoMember EXCEPT !.uid = n, !.role = role]])
         /\ held' = [held EXCEPT ![n] = {role}]
    /\ UNCHANGED <<bindingVars, registered, queue, ctl, faults>>

(***************************************************************************)
(* The webhook keeps userRef as it is and lets the role change.  Bound: a   *)
(* member has each role once.                                               *)
(***************************************************************************)
ChangeRole(u, role) ==
    LET n == members[u].uid IN
    /\ n # 0
    /\ role \notin held[n]
    /\ M!Write([members EXCEPT ![u].role = role])
    /\ held' = [held EXCEPT ![n] = @ \cup {role}]
    /\ UNCHANGED <<bindingVars, registered, queue, ctl, faults>>

DeleteOrganizationMember(u) ==
    /\ memberCache[u].uid # 0 /\ members[u].uid # 0
    /\ M!Write([members EXCEPT ![u] = NoMember])
    /\ UNCHANGED <<bindingVars, registered, queue, ctl, held, faults>>

\* A member may be created before its user.
RegisterUser(u) ==
    /\ u \notin registered
    /\ registered' = registered \cup {u}
    /\ UNCHANGED <<memberVars, bindingVars, queue, ctl, held, faults>>

-----------------------------------------------------------------------------
(* The member controller: one worker, one key at a time *)

StartReconcile(u) ==
    /\ ctl.step = "idle"
    /\ u \in queue
    /\ queue' = queue \ {u}
    /\ ctl' = IF memberCache[u].uid = 0 THEN Idle
              ELSE [Idle EXCEPT !.step = "bind", !.user = u, !.copy = memberCache[u]]
    /\ UNCHANGED <<memberVars, bindingVars, registered, held, faults>>

\* Mutant: the error is dropped before it is reported.
Conclude_DropError(report) == ctl' = [ctl EXCEPT !.step = "conditions", !.authz = Ready]

\* reconcileAuthorization ends: its error is reported and not returned.
Conclude(report) == ctl' = [ctl EXCEPT !.step = "conditions", !.authz = report]

\* Mutant: the role is read again at every level, from the informer's copy.
NextLevel_RereadRole ==
    IF ctl.level >= Depth(memberCache[ctl.user].role)
    THEN Conclude(Ready)
    ELSE ctl' = [ctl EXCEPT !.level = @ + 1]

\* Mutant: no role stops before the end.
NextLevel_NoEnd == ctl' = [ctl EXCEPT !.level = @ + 1]

\* Mutant: the last binding is left out.
NextLevel_OneShort ==
    IF ctl.level + 1 = Depth(ctl.copy.role) THEN Conclude(Ready)
                                            ELSE ctl' = [ctl EXCEPT !.level = @ + 1]

NextLevel ==
    IF ctl.level = Depth(ctl.copy.role) THEN Conclude(Ready)
                                        ELSE ctl' = [ctl EXCEPT !.level = @ + 1]

(***************************************************************************)
(* CreateOrPatch at one level.  The informer's copy decides: no object is   *)
(* created, one of another owner is patched, one of this owner is left.     *)
(***************************************************************************)
Bind ==
    LET u == ctl.user
        l == ctl.level
        n == ctl.copy.uid
        known == bindingCache[u][l]
    IN
    /\ ctl.step = "bind"
    /\ \/ known = n /\ NextLevel /\ UNCHANGED bindingVars
       \/ /\ known # n
          /\ (known = 0) <=> (bindings[u][l] = 0)
          /\ B!Write([bindings EXCEPT ![u][l] = n])
          /\ NextLevel
       \/ /\ known = 0 /\ bindings[u][l] # 0
          /\ Conclude(NotReady("exists", l)) /\ UNCHANGED bindingVars
       \/ /\ known \notin {0, n} /\ bindings[u][l] = 0
          /\ Conclude(NotReady("missing", l)) /\ UNCHANGED bindingVars
    /\ UNCHANGED <<memberVars, registered, queue, held, faults>>

(***************************************************************************)
(* The patch helper, called when Reconcile returns.  A condition that       *)
(* changed is applied to the latest copy and written if the server has no   *)
(* other version; tries are limited.  Whether it works or not, the rest of  *)
(* the status follows.                                                      *)
(***************************************************************************)
PatchConditions ==
    LET u == ctl.user
        latest == memberCache[u]
        applies == latest.uid # 0 /\ latest.authz \in {ctl.copy.authz, ctl.authz}
        current == latest = members[u]
        changed == ctl.authz # ctl.copy.authz
    IN
    /\ ctl.step = "conditions"
    /\ \/ /\ changed => applies /\ current
          /\ IF changed THEN M!Write([members EXCEPT ![u].authz = ctl.authz])
                        ELSE UNCHANGED memberVars
          /\ ctl' = [ctl EXCEPT !.step = "status"]
       \/ /\ changed /\ ~(applies /\ current)
          /\ ctl' = [ctl EXCEPT !.step = "status", !.failed = TRUE]
          /\ UNCHANGED memberVars
    /\ UNCHANGED <<bindingVars, registered, queue, held, faults>>

Finish(failed) ==
    /\ ctl' = Idle
    /\ queue' = IF failed THEN queue \cup {ctl.user} ELSE queue

(***************************************************************************)
(* The e-mail is written if the user exists.  If not, the result asks for   *)
(* another call in a minute, and Reconcile returns an empty one instead.    *)
(***************************************************************************)
PatchStatus ==
    LET u == ctl.user
        changed == u \in registered /\ ~ctl.copy.info
    IN
    /\ ctl.step = "status"
    /\ \/ ~changed /\ Finish(ctl.failed) /\ UNCHANGED memberVars
       \/ /\ changed /\ members[u].uid # 0
          /\ M!Write([members EXCEPT ![u].info = TRUE])
          /\ Finish(ctl.failed)
       \/ changed /\ members[u].uid = 0 /\ Finish(TRUE) /\ UNCHANGED memberVars
    /\ UNCHANGED <<bindingVars, registered, held, faults>>

-----------------------------------------------------------------------------
(* Informers and failures *)

\* An event of a member puts it in the queue; bindings are not watched.
DeliverMember ==
    /\ M!Deliver
    /\ queue' = queue \cup {u \in Users : memberCache[u] # memberCache'[u]}
    /\ UNCHANGED <<bindingVars, registered, ctl, held, faults>>

DeliverBinding ==
    /\ B!Deliver
    /\ UNCHANGED <<memberVars, registered, queue, ctl, held, faults>>

Resync ==
    /\ queue' = queue \cup {u \in Users : memberCache[u].uid # 0}
    /\ UNCHANGED <<memberVars, bindingVars, registered, ctl, held, faults>>

\* The server's garbage collector follows the owner reference.
CollectBinding(u, l) ==
    /\ bindings[u][l] \notin {0, members[u].uid}
    /\ B!Write([bindings EXCEPT ![u][l] = 0])
    /\ UNCHANGED <<memberVars, registered, queue, ctl, held, faults>>

Fault == faults < MaxFaults /\ faults' = faults + 1

ControllerError ==
    /\ Fault
    /\ \/ ctl.step = "bind" /\ Conclude(NotReady("failed", ctl.level)) /\ UNCHANGED queue
       \/ /\ ctl.step = "conditions"
          /\ ctl' = [ctl EXCEPT !.step = "status", !.failed = TRUE]
          /\ UNCHANGED queue
       \/ ctl.step = "status" /\ Finish(TRUE)
    /\ UNCHANGED <<memberVars, bindingVars, registered, held>>

\* The process stops between two steps and starts again: it lists everything.
Restart ==
    /\ Fault
    /\ M!Relist /\ B!Relist
    /\ ctl' = Idle
    /\ queue' = {u \in Users : members[u].uid # 0}
    /\ UNCHANGED <<registered, held>>

-----------------------------------------------------------------------------

Controller == Bind \/ PatchConditions \/ PatchStatus

Next ==
    \/ \E u \in Users, role \in Roles : CreateMember(u, role) \/ ChangeRole(u, role)
    \/ \E u \in Users : DeleteOrganizationMember(u) \/ RegisterUser(u) \/ StartReconcile(u)
    \/ Controller
    \/ DeliverMember \/ DeliverBinding
    \/ \E u \in Users, l \in Levels : CollectBinding(u, l)
    \/ Resync \/ ControllerError \/ Restart

Spec == Init /\ [][Next]_vars

(***************************************************************************)
(* The controller goes on, its queue is first in first out, watches deliver *)
(* and garbage is collected.                                                *)
(***************************************************************************)
Fairness ==
    /\ WF_vars(Controller)
    /\ \A u \in Users : SF_vars(StartReconcile(u))
    /\ SF_vars(\E u \in Users, l \in Levels : CollectBinding(u, l))
    /\ WF_vars(DeliverMember) /\ WF_vars(DeliverBinding)

FairSpec == Spec /\ Fairness
ResyncSpec == FairSpec /\ WF_vars(Resync)

-----------------------------------------------------------------------------
(* Properties *)

\* Member n has everything that some role it has had asks for.
Bound(u, n) == \E role \in held[n] : \A l \in 1 .. Depth(role) : bindings[u][l] = n

(***************************************************************************)
(* A binding owned by a member is one that some role of that very member    *)
(* asked for: a user that joins again with a lower role inherits nothing    *)
(* from its earlier membership, whatever copies the controller reads.       *)
(***************************************************************************)
BindingsWithinRoles ==
    \A u \in Users, l \in Levels :
        bindings[u][l] # 0 => \E role \in held[bindings[u][l]] : l <= Depth(role)

\* A reconciliation of u is in progress or certain to follow.
Pending(u) ==
    \/ u \in queue
    \/ ctl.step # "idle" /\ ctl.user = u
    \/ \E i \in 1 .. Len(memberWatch) : memberWatch[i][u] # memberCache[u]

(***************************************************************************)
(* A member is reported as authorized and is not only while it is about to  *)
(* be reconciled: the report of an earlier member of the same name may      *)
(* land on it, and does not stay.                                           *)
(***************************************************************************)
WrongReportPending ==
    \A u \in Users :
        members[u].uid # 0 /\ members[u].authz = Ready
        => Bound(u, members[u].uid) \/ Pending(u)

(***************************************************************************)
(* A member gets its bindings, or leaves: also one that joins again while   *)
(* the bindings of its earlier membership are still being collected, and    *)
(* one whose reconciliation failed, which nothing but a resync repeats.     *)
(***************************************************************************)
MemberAuthorized ==
    \A u \in Users, n \in Uids : []<>(members[u].uid = n => Bound(u, n))

(***************************************************************************)
(* "User has not been created yet": the member of a user that is created    *)
(* later gets its e-mail by the call that reconcileInfo asks for a minute   *)
(* later, without waiting ten hours for a resync.                           *)
(***************************************************************************)
InfoFollowsUser ==
    \A u \in Users, n \in Uids :
        (members[u].uid = n /\ u \in registered) ~> members[u].uid # n \/ members[u].info

(***************************************************************************)
(* A member that is a User has not the rights of a super user once its      *)
(* reconciliation is over and reported.                                     *)
(***************************************************************************)
RightsFollowRole ==
    \A u \in Users :
        members[u].role = "User" /\ members[u].authz = Ready /\ ~Pending(u)
        => bindings[u][5] = 0

=============================================================================
