---------------------------- MODULE MembersProofs ----------------------------
(***************************************************************************)
(* Theorems about Members for any number of users and members, any delay of *)
(* the informers and any number of failures.                                *)
(***************************************************************************)
EXTENDS Members, SequenceTheorems, TLAPS

\* Every version of the members, and of the bindings, is in S.
MembersIn(S) == members \in S /\ memberCache \in S /\ memberWatch \in Seq(S)
BindingsIn(S) == bindings \in S /\ bindingCache \in S /\ bindingWatch \in Seq(S)

LEMMA MemberMove ==
  ASSUME NEW S, MembersIn(S), NEW s \in S, M!Write(s) \/ UNCHANGED memberVars
  PROVE  members' \in S /\ memberCache' \in S /\ memberWatch' \in Seq(S)
BY AppendProperties DEF MembersIn, M!Write, memberVars

LEMMA BindingMove ==
  ASSUME NEW S, BindingsIn(S), NEW s \in S, B!Write(s) \/ UNCHANGED bindingVars
  PROVE  bindings' \in S /\ bindingCache' \in S /\ bindingWatch' \in Seq(S)
BY AppendProperties DEF BindingsIn, B!Write, bindingVars

LEMMA MemberRead ==
  ASSUME NEW S, MembersIn(S), M!Deliver \/ M!Relist
  PROVE  members' \in S /\ memberCache' \in S /\ memberWatch' \in Seq(S)
BY HeadTailProperties, EmptySeq DEF MembersIn, M!Deliver, M!Relist

LEMMA BindingRead ==
  ASSUME NEW S, BindingsIn(S), B!Deliver \/ B!Relist
  PROVE  bindings' \in S /\ bindingCache' \in S /\ bindingWatch' \in Seq(S)
BY HeadTailProperties, EmptySeq DEF BindingsIn, B!Deliver, B!Relist

-----------------------------------------------------------------------------
(* Types *)

Ctl == [step: ControllerStep, user: Users, copy: Member, level: Levels,
        authz: Report, failed: BOOLEAN]

LocalTypes ==
    /\ registered \subseteq Users /\ queue \subseteq Users
    /\ ctl \in Ctl
    /\ held \in [Uids -> SUBSET Roles]
    /\ faults \in 0 .. MaxFaults

\* The controller never goes deeper than the role it read asks for.
WithinDepth == ctl.step = "bind" => ctl.level <= Depth(ctl.copy.role)

TypeInv == TypeOK /\ WithinDepth

LEMMA TypeOKParts ==
  TypeOK <=> MembersIn(MemberStore) /\ BindingsIn(BindingStore) /\ LocalTypes
BY DEF TypeOK, MembersIn, BindingsIn, LocalTypes, Ctl

LEMMA DepthType == \A role \in Roles : Depth(role) \in 3 .. 5
BY MembersAssumption DEF Depth

LEMMA Defaults == /\ NoMember \in Member /\ NoReport \in Report /\ Ready \in Report
                  /\ \A error \in {"exists", "missing", "failed"}, l \in Levels :
                       NotReady(error, l) \in Report
                  /\ Idle \in Ctl /\ Idle.step = "idle"
<1>1. NoReport \in Report /\ Ready \in Report
      /\ \A error \in {"exists", "missing", "failed"}, l \in Levels : NotReady(error, l) \in Report
  BY DEF NoReport, Report, Ready, NotReady, Levels
<1>2. NoMember \in Member
  BY <1>1, MembersAssumption DEF NoMember, Member
<1>3. (CHOOSE u \in Users : TRUE) \in Users
  BY MembersAssumption
<1>4. Idle \in Ctl /\ Idle.step = "idle"
  BY <1>1, <1>2, <1>3 DEF Idle, Ctl, ControllerStep, Levels
<1> QED BY <1>1, <1>2, <1>4

LEMMA InitTypes == Init => TypeInv
<1> SUFFICES ASSUME Init PROVE TypeInv
  OBVIOUS
<1>1. MembersIn(MemberStore)
  BY Defaults, EmptySeq DEF Init, MembersIn, MemberStore
<1>2. BindingsIn(BindingStore)
  BY MembersAssumption, EmptySeq DEF Init, BindingsIn, BindingStore, Levels
<1>3. LocalTypes /\ WithinDepth
  BY Defaults, MembersAssumption DEF Init, LocalTypes, WithinDepth
<1> QED BY <1>1, <1>2, <1>3, TypeOKParts DEF TypeInv

LEMMA BindTypes ==
  ASSUME TypeInv, ctl.step = "bind"
  PROVE  /\ NextLevel => ctl' \in Ctl /\ WithinDepth'
         /\ \A report \in Report : Conclude(report) => ctl' \in Ctl /\ WithinDepth'
<1>1. ctl \in Ctl /\ ctl.copy \in Member /\ ctl.copy.role \in Roles /\ ctl.level \in Levels
  BY DEF TypeInv, TypeOK, Ctl, Member
<1>2. ctl.level <= Depth(ctl.copy.role) /\ Depth(ctl.copy.role) \in 3 .. 5
  BY <1>1, DepthType DEF TypeInv, WithinDepth
<1>3. ASSUME NEW report \in Report, Conclude(report)
      PROVE  ctl' \in Ctl /\ WithinDepth'
  BY <1>1, <1>3 DEF Conclude, Ctl, WithinDepth, ControllerStep
<1>4. ASSUME ctl.level # Depth(ctl.copy.role), ctl' = [ctl EXCEPT !.level = @ + 1]
      PROVE  ctl' \in Ctl /\ WithinDepth'
  <2>1. ctl.level + 1 \in Levels /\ ctl.level + 1 <= Depth(ctl.copy.role)
    BY <1>1, <1>2, <1>4 DEF Levels
  <2>2. ctl'.copy = ctl.copy /\ ctl'.level = ctl.level + 1 /\ ctl' \in Ctl
    BY <1>1, <1>4, <2>1 DEF Ctl
  <2> QED BY <2>1, <2>2 DEF WithinDepth
<1> QED BY <1>3, <1>4, Defaults DEF NextLevel

LEMMA NextTypes == ASSUME TypeInv, Next PROVE TypeInv'
<1> USE Defaults
<1> DEFINE MembersInPrime == /\ members' \in MemberStore /\ memberCache' \in MemberStore
                             /\ memberWatch' \in Seq(MemberStore)
           BindingsInPrime == /\ bindings' \in BindingStore /\ bindingCache' \in BindingStore
                              /\ bindingWatch' \in Seq(BindingStore)
<1>a. MembersIn(MemberStore) /\ BindingsIn(BindingStore) /\ LocalTypes /\ WithinDepth
  BY TypeOKParts DEF TypeInv
<1>b. MembersInPrime /\ BindingsInPrime /\ LocalTypes' /\ WithinDepth' => TypeInv'
  BY DEF TypeInv, TypeOK, LocalTypes, Ctl
<1>c. UNCHANGED memberVars => MembersInPrime
  BY <1>a DEF memberVars, MembersIn
<1>d. UNCHANGED bindingVars => BindingsInPrime
  BY <1>a DEF bindingVars, BindingsIn
<1>e. UNCHANGED ctl => WithinDepth'
  BY <1>a DEF WithinDepth
<1>f. members \in MemberStore /\ bindings \in BindingStore
  BY <1>a DEF MembersIn, BindingsIn
<1>g. ctl.user \in Users /\ ctl.copy \in Member /\ ctl.level \in Levels /\ ctl.authz \in Report
  BY <1>a DEF LocalTypes, Ctl
<1>h. \A failed : Finish(failed) => ctl' \in Ctl /\ WithinDepth' /\ queue' \subseteq Users
  BY <1>a, <1>g DEF Finish, LocalTypes, WithinDepth
<1>i. \A u \in Users, x \in Member : M!Write([members EXCEPT ![u] = x]) => MembersInPrime
  <2> SUFFICES ASSUME NEW u \in Users, NEW x \in Member, M!Write([members EXCEPT ![u] = x])
               PROVE  MembersInPrime
    OBVIOUS
  <2>1. [members EXCEPT ![u] = x] \in MemberStore
    BY <1>f DEF MemberStore
  <2> QED BY <1>a, <2>1, MemberMove
<1>j. \A u \in Users, l \in Levels, n \in 0 .. MaxUid :
        B!Write([bindings EXCEPT ![u][l] = n]) => BindingsInPrime
  <2> SUFFICES ASSUME NEW u \in Users, NEW l \in Levels, NEW n \in 0 .. MaxUid,
                      B!Write([bindings EXCEPT ![u][l] = n])
               PROVE  BindingsInPrime
    OBVIOUS
  <2>1. [bindings EXCEPT ![u][l] = n] \in BindingStore
    BY <1>f DEF BindingStore
  <2> QED BY <1>a, <2>1, BindingMove
<1>1. ASSUME NEW u \in Users, NEW role \in Roles, CreateMember(u, role)
      PROVE  TypeInv'
  <2>1. PICK n \in Uids :
          /\ M!Write([members EXCEPT ![u] = [NoMember EXCEPT !.uid = n, !.role = role]])
          /\ held' = [held EXCEPT ![n] = {role}]
    BY <1>1 DEF CreateMember
  <2>2. [NoMember EXCEPT !.uid = n, !.role = role] \in Member
    <3>1. n \in 0 .. MaxUid
      BY MembersAssumption DEF Uids
    <3> QED BY <3>1 DEF Member
  <2>3. MembersInPrime
    BY <1>i, <2>1, <2>2
  <2>4. held' \in [Uids -> SUBSET Roles]
    BY <1>a, <2>1 DEF LocalTypes
  <2> QED BY <1>1, <1>a, <1>b, <1>d, <1>e, <2>3, <2>4 DEF CreateMember, LocalTypes
<1>2. ASSUME NEW u \in Users, NEW role \in Roles, ChangeRole(u, role)
      PROVE  TypeInv'
  <2>1. [members EXCEPT ![u].role = role] \in MemberStore
    BY <1>f DEF MemberStore, Member
  <2>2. MembersInPrime
    BY <1>2, <1>a, <2>1, MemberMove DEF ChangeRole
  <2>3. members[u].uid \in Uids
    BY <1>2, <1>f, MembersAssumption DEF ChangeRole, MemberStore, Member, Uids
  <2>4. held' = [held EXCEPT ![members[u].uid] = @ \cup {role}]
    BY <1>2 DEF ChangeRole
  <2>5. held' \in [Uids -> SUBSET Roles]
    BY <1>a, <2>3, <2>4 DEF LocalTypes
  <2> QED BY <1>2, <1>a, <1>b, <1>d, <1>e, <2>2, <2>5 DEF ChangeRole, LocalTypes
<1>3. ASSUME NEW u \in Users, DeleteOrganizationMember(u)
      PROVE  TypeInv'
  <2>1. MembersInPrime
    BY <1>3, <1>i DEF DeleteOrganizationMember
  <2> QED BY <1>3, <1>a, <1>b, <1>d, <1>e, <2>1 DEF DeleteOrganizationMember, LocalTypes
<1>4. ASSUME NEW u \in Users, RegisterUser(u)
      PROVE  TypeInv'
  BY <1>4, <1>a, <1>b, <1>c, <1>d, <1>e DEF RegisterUser, LocalTypes
<1>5. ASSUME NEW u \in Users, StartReconcile(u)
      PROVE  TypeInv'
  <2>1. memberCache[u] \in Member
    BY <1>a DEF MembersIn, MemberStore
  <2>2. 1 <= Depth(memberCache[u].role) /\ 1 \in Levels
    BY <2>1, DepthType DEF Member, Levels
  <2>3. ctl' \in Ctl /\ WithinDepth'
    <3>1. CASE ctl' = Idle
      BY <3>1 DEF WithinDepth
    <3>2. CASE ctl' = [Idle EXCEPT !.step = "bind", !.user = u, !.copy = memberCache[u]]
      <4>1. ctl' \in Ctl /\ ctl'.copy = memberCache[u] /\ ctl'.level = 1
        BY <3>2, <2>1, <2>2 DEF Ctl, ControllerStep, Idle
      <4> QED BY <2>2, <4>1 DEF WithinDepth
    <3> QED BY <1>5, <3>1, <3>2 DEF StartReconcile
  <2> QED BY <1>5, <1>a, <1>b, <1>c, <1>d, <2>3 DEF StartReconcile, LocalTypes
<1>6. ASSUME Bind
      PROVE  TypeInv'
  <2>1. ctl.copy.uid \in 0 .. MaxUid
    BY <1>g DEF Member
  <2>2. BindingsInPrime
    BY <1>6, <1>d, <1>g, <1>j, <2>1 DEF Bind
  <2>3. ctl' \in Ctl /\ WithinDepth'
    BY <1>6, <1>g, BindTypes DEF Bind
  <2> QED BY <1>6, <1>a, <1>b, <1>c, <2>2, <2>3 DEF Bind, LocalTypes
<1>7. ASSUME PatchConditions
      PROVE  TypeInv'
  <2>1. [members EXCEPT ![ctl.user].authz = ctl.authz] \in MemberStore
    BY <1>f, <1>g DEF MemberStore, Member
  <2>2. M!Write([members EXCEPT ![ctl.user].authz = ctl.authz]) \/ UNCHANGED memberVars
    BY <1>7 DEF PatchConditions
  <2>3. MembersInPrime
    BY <1>a, <2>1, <2>2, MemberMove
  <2>4. ctl' \in Ctl /\ WithinDepth'
    BY <1>7, <1>a DEF PatchConditions, LocalTypes, Ctl, ControllerStep, WithinDepth
  <2> QED BY <1>7, <1>a, <1>b, <1>d, <2>3, <2>4 DEF PatchConditions, LocalTypes
<1>8. ASSUME PatchStatus
      PROVE  TypeInv'
  <2>1. [members EXCEPT ![ctl.user].info = TRUE] \in MemberStore
    BY <1>f DEF MemberStore, Member
  <2>2. M!Write([members EXCEPT ![ctl.user].info = TRUE]) \/ UNCHANGED memberVars
    BY <1>8 DEF PatchStatus
  <2>3. MembersInPrime
    BY <1>a, <2>1, <2>2, MemberMove
  <2>4. ctl' \in Ctl /\ WithinDepth' /\ queue' \subseteq Users
    BY <1>8, <1>h DEF PatchStatus
  <2> QED BY <1>8, <1>a, <1>b, <1>d, <2>3, <2>4 DEF PatchStatus, LocalTypes
<1>9. ASSUME DeliverMember
      PROVE  TypeInv'
  <2>1. MembersInPrime
    BY <1>9, <1>a, MemberRead DEF DeliverMember
  <2> QED BY <1>9, <1>a, <1>b, <1>d, <1>e, <2>1 DEF DeliverMember, LocalTypes
<1>10. ASSUME DeliverBinding
       PROVE  TypeInv'
  <2>1. BindingsInPrime
    BY <1>10, <1>a, BindingRead DEF DeliverBinding
  <2> QED BY <1>10, <1>a, <1>b, <1>c, <1>e, <2>1 DEF DeliverBinding, LocalTypes
<1>11. ASSUME NEW u \in Users, NEW l \in Levels, CollectBinding(u, l)
       PROVE  TypeInv'
  <2>1. BindingsInPrime
    BY <1>11, <1>j, MembersAssumption DEF CollectBinding
  <2> QED BY <1>11, <1>a, <1>b, <1>c, <1>e, <2>1 DEF CollectBinding, LocalTypes
<1>12. ASSUME Resync
       PROVE  TypeInv'
  BY <1>12, <1>a, <1>b, <1>c, <1>d, <1>e DEF Resync, LocalTypes
<1>13. Fault => faults' \in 0 .. MaxFaults
  BY <1>a, MembersAssumption DEF LocalTypes, Fault
<1>14. ASSUME ControllerError
       PROVE  TypeInv'
  <2>1. ctl' \in Ctl /\ WithinDepth' /\ queue' \subseteq Users
    <3>1. CASE ctl.step = "bind" /\ Conclude(NotReady("failed", ctl.level)) /\ UNCHANGED queue
      BY <3>1, <1>a, <1>g, BindTypes DEF LocalTypes
    <3>2. CASE ctl' = [ctl EXCEPT !.step = "status", !.failed = TRUE] /\ UNCHANGED queue
      BY <3>2, <1>a DEF LocalTypes, Ctl, ControllerStep, WithinDepth
    <3>3. CASE Finish(TRUE)
      BY <3>3, <1>h
    <3> QED BY <1>14, <3>1, <3>2, <3>3 DEF ControllerError
  <2> QED BY <1>14, <1>13, <1>a, <1>b, <1>c, <1>d, <2>1 DEF ControllerError, LocalTypes
<1>15. ASSUME Restart
       PROVE  TypeInv'
  <2>1. MembersInPrime /\ BindingsInPrime
    BY <1>15, <1>a, MemberRead, BindingRead DEF Restart
  <2>2. ctl' \in Ctl /\ WithinDepth'
    BY <1>15 DEF Restart, WithinDepth
  <2> QED BY <1>15, <1>13, <1>a, <1>b, <2>1, <2>2 DEF Restart, LocalTypes
<1> QED
  BY <1>1, <1>2, <1>3, <1>4, <1>5, <1>6, <1>7, <1>8, <1>9, <1>10, <1>11, <1>12, <1>14, <1>15
  DEF Next, Controller

(***************************************************************************)
(* Every variable keeps its type: in particular the controller, which goes  *)
(* one level deeper at a time, stops at the last.                           *)
(***************************************************************************)
THEOREM MembersTyped == Spec => []TypeOK
<1>1. TypeInv /\ UNCHANGED vars => TypeInv'
  BY DEF TypeInv, TypeOK, WithinDepth, vars
<1>2. TypeInv => TypeOK
  BY DEF TypeInv
<1> QED BY <1>1, <1>2, InitTypes, NextTypes, PTL DEF Spec

-----------------------------------------------------------------------------
(* Bindings stay within the roles of the member that owns them *)

\* In versions of the members in Granted(h), every member has a role of h.
Granted(h) == {s \in MemberStore : \A u \in Users : s[u].uid # 0 => s[u].role \in h[s[u].uid]}

\* In versions of the bindings in Within(h), a role of h explains every owner.
Within(h) == {s \in BindingStore : \A u \in Users, l \in Levels :
                 s[u][l] # 0 => \E role \in h[s[u][l]] : l <= Depth(role)}

\* What the controller read when it started is a role the member has had.
CopyGranted == ctl.step = "bind" => ctl.copy.uid # 0 /\ ctl.copy.role \in held[ctl.copy.uid]

RolesInv == TypeInv /\ MembersIn(Granted(held)) /\ BindingsIn(Within(held)) /\ CopyGranted

Grown == held' \in [Uids -> SUBSET Roles] /\ \A n \in Uids : held[n] \subseteq held'[n]

LEMMA SeqWiden == ASSUME NEW S, NEW T, S \subseteq T, NEW q \in Seq(S) PROVE q \in Seq(T)
OBVIOUS

LEMMA GrantedGrows ==
  ASSUME TypeOK, Grown
  PROVE  Granted(held) \subseteq Granted(held') /\ Within(held) \subseteq Within(held')
<1>1. ASSUME NEW s \in Granted(held) PROVE s \in Granted(held')
  <2>1. s \in MemberStore /\ \A u \in Users : s[u].uid # 0 => s[u].role \in held[s[u].uid]
    BY DEF Granted
  <2>2. \A u \in Users : s[u].uid # 0 => s[u].uid \in Uids
    BY <2>1, MembersAssumption DEF MemberStore, Member, Uids
  <2> QED BY <2>1, <2>2 DEF Grown, Granted
<1>2. ASSUME NEW s \in Within(held) PROVE s \in Within(held')
  <2>1. s \in BindingStore /\ \A u \in Users, l \in Levels :
           s[u][l] # 0 => \E role \in held[s[u][l]] : l <= Depth(role)
    BY DEF Within
  <2>2. \A u \in Users, l \in Levels : s[u][l] # 0 => s[u][l] \in Uids
    BY <2>1, MembersAssumption DEF BindingStore, Uids
  <2> QED BY <2>1, <2>2 DEF Grown, Within
<1> QED BY <1>1, <1>2

\* What the actions that leave the members, the bindings or the controller alone keep.
LEMMA Widened ==
  ASSUME RolesInv, Grown
  PROVE  /\ MembersIn(Granted(held')) /\ BindingsIn(Within(held'))
         /\ UNCHANGED ctl => CopyGranted'
<1>1. TypeOK /\ MembersIn(Granted(held)) /\ BindingsIn(Within(held)) /\ CopyGranted
  BY DEF RolesInv, TypeInv
<1>2. Granted(held) \subseteq Granted(held') /\ Within(held) \subseteq Within(held')
  BY <1>1, GrantedGrows
<1>3. MembersIn(Granted(held'))
  BY <1>1, <1>2, SeqWiden DEF MembersIn
<1>4. BindingsIn(Within(held'))
  BY <1>1, <1>2, SeqWiden DEF BindingsIn
<1>5. ctl.copy.uid # 0 => ctl.copy.uid \in Uids
  BY <1>1, MembersAssumption DEF TypeOK, Member, Uids
<1>6. UNCHANGED ctl => CopyGranted'
  BY <1>1, <1>5 DEF CopyGranted, Grown
<1> QED BY <1>3, <1>4, <1>6

\* Only CreateMember and ChangeRole touch the roles, and they add.
LEMMA HeldGrows == ASSUME TypeInv, TypeInv', Next PROVE Grown
<1>a. held \in [Uids -> SUBSET Roles] /\ held' \in [Uids -> SUBSET Roles]
  BY DEF TypeInv, TypeOK
<1>b. UNCHANGED held => Grown
  BY <1>a DEF Grown
<1>1. ASSUME NEW u \in Users, NEW role \in Roles, CreateMember(u, role) PROVE Grown
  BY <1>1, <1>a DEF CreateMember, Grown
<1>2. ASSUME NEW u \in Users, NEW role \in Roles, ChangeRole(u, role) PROVE Grown
  BY <1>2, <1>a DEF ChangeRole, Grown
<1>3. ASSUME NEW u \in Users, NEW l \in Levels,
             DeleteOrganizationMember(u) \/ RegisterUser(u) \/ StartReconcile(u) \/ CollectBinding(u, l)
      PROVE  Grown
  BY <1>3, <1>b DEF DeleteOrganizationMember, RegisterUser, StartReconcile, CollectBinding
<1>4. ASSUME Controller \/ DeliverMember \/ DeliverBinding \/ Resync \/ ControllerError \/ Restart
      PROVE  Grown
  BY <1>4, <1>b DEF Controller, Bind, PatchConditions, PatchStatus, DeliverMember, DeliverBinding,
                    Resync, ControllerError, Restart
<1> QED BY <1>1, <1>2, <1>3, <1>4 DEF Next, Levels

LEMMA NextRoles == ASSUME RolesInv, Next PROVE RolesInv'
<1> DEFINE MembersKept == /\ members' \in Granted(held') /\ memberCache' \in Granted(held')
                          /\ memberWatch' \in Seq(Granted(held'))
           BindingsKept == /\ bindings' \in Within(held') /\ bindingCache' \in Within(held')
                           /\ bindingWatch' \in Seq(Within(held'))
<1>a. TypeInv /\ TypeInv' /\ Grown
  BY NextTypes, HeldGrows DEF RolesInv
<1>b. TypeOK /\ WithinDepth /\ CopyGranted
  BY DEF RolesInv, TypeInv
<1>c. MembersIn(Granted(held')) /\ BindingsIn(Within(held')) /\ (UNCHANGED ctl => CopyGranted')
  BY <1>a, Widened
<1>d. MembersKept /\ BindingsKept /\ CopyGranted' => RolesInv'
  BY <1>a DEF RolesInv, MembersIn, BindingsIn
<1>e. UNCHANGED memberVars => MembersKept
  BY <1>c DEF memberVars, MembersIn
<1>f. UNCHANGED bindingVars => BindingsKept
  BY <1>c DEF bindingVars, BindingsIn
<1>g. ctl' = Idle => CopyGranted'
  BY Defaults DEF CopyGranted
<1>h. \A s \in Granted(held') : M!Write(s) => MembersKept
  BY <1>c, MemberMove
<1>i. \A s \in Within(held') : B!Write(s) => BindingsKept
  BY <1>c, BindingMove
<1>j. members \in Granted(held') /\ bindings \in Within(held')
  BY <1>c DEF MembersIn, BindingsIn
<1>k. \A report : Conclude(report) => CopyGranted'
  BY <1>b DEF Conclude, CopyGranted, TypeOK
<1>l. ctl.user \in Users /\ ctl.level \in Levels /\ ctl.copy \in Member
      /\ ctl.copy.role \in Roles /\ ctl.authz \in Report
  BY <1>b DEF TypeOK, Member
<1>1. ASSUME NEW u \in Users, NEW role \in Roles, CreateMember(u, role)
      PROVE  RolesInv'
  <2>1. PICK n \in Uids :
          /\ M!Write([members EXCEPT ![u] = [NoMember EXCEPT !.uid = n, !.role = role]])
          /\ held' = [held EXCEPT ![n] = {role}]
    BY <1>1 DEF CreateMember
  <2> DEFINE new == [NoMember EXCEPT !.uid = n, !.role = role]
             s == [members EXCEPT ![u] = new]
  <2>2. new \in Member /\ new.uid = n /\ new.role = role
    <3>1. n \in 0 .. MaxUid
      BY MembersAssumption DEF Uids
    <3> QED BY <3>1, Defaults DEF Member
  <2>3. held'[n] = {role}
    BY <2>1, <1>b DEF TypeOK
  <2>4. s \in Granted(held')
    BY <1>j, <2>2, <2>3 DEF Granted, MemberStore
  <2>5. MembersKept
    BY <1>h, <2>1, <2>4
  <2> QED BY <1>1, <1>c, <1>d, <1>f, <2>5 DEF CreateMember
<1>2. ASSUME NEW u \in Users, NEW role \in Roles, ChangeRole(u, role)
      PROVE  RolesInv'
  <2> DEFINE s == [members EXCEPT ![u].role = role]
  <2>1. members[u].uid \in Uids
    BY <1>2, <1>b, MembersAssumption DEF ChangeRole, TypeOK, MemberStore, Member, Uids
  <2>2. role \in held'[members[u].uid]
    BY <1>2, <1>b, <2>1 DEF ChangeRole, TypeOK
  <2>3. s \in MemberStore
    BY <1>b DEF TypeOK, MemberStore, Member
  <2>4. /\ s[u].uid = members[u].uid /\ s[u].role = role
        /\ \A v \in Users \ {u} : s[v] = members[v]
    BY <1>b DEF TypeOK, MemberStore, Member
  <2>5. s \in Granted(held')
    BY <1>j, <2>2, <2>3, <2>4 DEF Granted
  <2>6. MembersKept
    BY <1>2, <1>h, <2>5 DEF ChangeRole
  <2> QED BY <1>2, <1>c, <1>d, <1>f, <2>6 DEF ChangeRole
<1>3. ASSUME NEW u \in Users, DeleteOrganizationMember(u)
      PROVE  RolesInv'
  <2>1. NoMember.uid = 0 /\ NoMember \in Member
    BY Defaults DEF NoMember
  <2>2. [members EXCEPT ![u] = NoMember] \in Granted(held')
    BY <1>j, <2>1 DEF Granted, MemberStore
  <2>3. MembersKept
    BY <1>3, <1>h, <2>2 DEF DeleteOrganizationMember
  <2> QED BY <1>3, <1>c, <1>d, <1>f, <2>3 DEF DeleteOrganizationMember
<1>4. ASSUME NEW u \in Users, RegisterUser(u)
      PROVE  RolesInv'
  BY <1>4, <1>c, <1>d, <1>e, <1>f DEF RegisterUser
<1>5. ASSUME NEW u \in Users, StartReconcile(u)
      PROVE  RolesInv'
  <2>1. memberCache \in Granted(held') /\ memberCache[u] \in Member
    BY <1>c DEF MembersIn, Granted, MemberStore
  <2>2. ASSUME memberCache[u].uid # 0,
               ctl' = [Idle EXCEPT !.step = "bind", !.user = u, !.copy = memberCache[u]]
        PROVE  CopyGranted'
    <3>1. ctl'.copy = memberCache[u]
      BY <2>2 DEF Idle
    <3> QED BY <2>1, <2>2, <3>1 DEF CopyGranted, Granted
  <2>3. CopyGranted'
    BY <1>5, <1>g, <2>2 DEF StartReconcile
  <2> QED BY <1>5, <1>d, <1>e, <1>f, <2>3 DEF StartReconcile
<1>6. ASSUME Bind
      PROVE  RolesInv'
  <2> DEFINE u == ctl.user
             l == ctl.level
             n == ctl.copy.uid
             s == [bindings EXCEPT ![u][l] = n]
  <2>1. n # 0 /\ n \in 0 .. MaxUid /\ ctl.copy.role \in held[n] /\ l <= Depth(ctl.copy.role)
    BY <1>6, <1>b, <1>l DEF Bind, CopyGranted, WithinDepth, Member
  <2>2. held' = held
    BY <1>6 DEF Bind
  <2>3. s \in BindingStore
    BY <1>b, <1>l, <2>1 DEF TypeOK, BindingStore
  <2>4. /\ s[u][l] = n
        /\ \A v \in Users, k \in Levels : v # u \/ k # l => s[v][k] = bindings[v][k]
    BY <1>b, <1>l DEF TypeOK, BindingStore
  <2>5. s \in Within(held')
    <3>1. ASSUME NEW v \in Users, NEW k \in Levels, s[v][k] # 0
          PROVE  \E role \in held[s[v][k]] : k <= Depth(role)
      <4>1. CASE v = u /\ k = l
        BY <4>1, <2>1, <2>4
      <4>2. CASE v # u \/ k # l
        <5>1. s[v][k] = bindings[v][k]
          BY <4>2, <2>4
        <5> HIDE DEF s
        <5> QED BY <3>1, <5>1, <1>j, <2>2 DEF Within
      <4> QED BY <4>1, <4>2
    <3> HIDE DEF s
    <3> QED BY <2>2, <2>3, <3>1 DEF Within
  <2>6. BindingsKept
    BY <1>6, <1>f, <1>i, <2>5 DEF Bind
  <2>7. NextLevel => CopyGranted'
    <3>1. ctl' = [ctl EXCEPT !.level = @ + 1] => ctl'.copy = ctl.copy
      BY <1>b DEF TypeOK
    <3>2. ctl' = [ctl EXCEPT !.level = @ + 1] => CopyGranted'
      BY <2>1, <2>2, <3>1 DEF CopyGranted
    <3> QED BY <1>k, <3>2 DEF NextLevel
  <2>8. CopyGranted'
    BY <1>6, <1>k, <2>7 DEF Bind
  <2> QED BY <1>6, <1>d, <1>e, <2>6, <2>8 DEF Bind
<1>m. \A u \in Users, s \in MemberStore :
        (\A v \in Users : s[v].uid = members[v].uid /\ s[v].role = members[v].role)
        => s \in Granted(held')
  BY <1>j DEF Granted
<1>7. ASSUME PatchConditions
      PROVE  RolesInv'
  <2> DEFINE s == [members EXCEPT ![ctl.user].authz = ctl.authz]
  <2>1. s \in MemberStore /\ \A v \in Users : s[v].uid = members[v].uid /\ s[v].role = members[v].role
    BY <1>b, <1>l DEF TypeOK, MemberStore, Member
  <2>2. MembersKept
    BY <1>7, <1>e, <1>h, <1>l, <1>m, <2>1 DEF PatchConditions
  <2>3. CopyGranted'
    BY <1>7, <1>b DEF PatchConditions, CopyGranted, TypeOK
  <2> QED BY <1>7, <1>d, <1>f, <2>2, <2>3 DEF PatchConditions
<1>8. ASSUME PatchStatus
      PROVE  RolesInv'
  <2> DEFINE s == [members EXCEPT ![ctl.user].info = TRUE]
  <2>1. s \in MemberStore /\ \A v \in Users : s[v].uid = members[v].uid /\ s[v].role = members[v].role
    BY <1>b, <1>l DEF TypeOK, MemberStore, Member
  <2>2. MembersKept
    BY <1>8, <1>e, <1>h, <1>l, <1>m, <2>1 DEF PatchStatus
  <2>3. CopyGranted'
    BY <1>8, <1>g DEF PatchStatus, Finish
  <2> QED BY <1>8, <1>d, <1>f, <2>2, <2>3 DEF PatchStatus
<1>9. ASSUME DeliverMember
      PROVE  RolesInv'
  <2>1. MembersKept
    BY <1>9, <1>c, MemberRead DEF DeliverMember
  <2> QED BY <1>9, <1>c, <1>d, <1>f, <2>1 DEF DeliverMember
<1>10. ASSUME DeliverBinding
       PROVE  RolesInv'
  <2>1. BindingsKept
    BY <1>10, <1>c, BindingRead DEF DeliverBinding
  <2> QED BY <1>10, <1>c, <1>d, <1>e, <2>1 DEF DeliverBinding
<1>11. ASSUME NEW u \in Users, NEW l \in Levels, CollectBinding(u, l)
       PROVE  RolesInv'
  <2> DEFINE s == [bindings EXCEPT ![u][l] = 0]
  <2>a. s \in BindingStore
    BY <1>b, MembersAssumption DEF TypeOK, BindingStore
  <2>b. /\ s[u][l] = 0
        /\ \A v \in Users, k \in Levels : v # u \/ k # l => s[v][k] = bindings[v][k]
    BY <1>b DEF TypeOK, BindingStore
  <2>1. s \in Within(held')
    <3> HIDE DEF s
    <3> QED BY <1>j, <2>a, <2>b DEF Within
  <2>2. BindingsKept
    BY <1>11, <1>i, <2>1 DEF CollectBinding
  <2> QED BY <1>11, <1>c, <1>d, <1>e, <2>2 DEF CollectBinding
<1>12. ASSUME Resync
       PROVE  RolesInv'
  BY <1>12, <1>c, <1>d, <1>e, <1>f DEF Resync
<1>13. ASSUME ControllerError
       PROVE  RolesInv'
  <2>1. CopyGranted'
    BY <1>13, <1>b, <1>g, <1>k DEF ControllerError, Finish, CopyGranted, TypeOK
  <2> QED BY <1>13, <1>d, <1>e, <1>f, <2>1 DEF ControllerError
<1>14. ASSUME Restart
       PROVE  RolesInv'
  <2>1. MembersKept /\ BindingsKept
    BY <1>14, <1>c, MemberRead, BindingRead DEF Restart
  <2> QED BY <1>14, <1>d, <1>g, <2>1 DEF Restart
<1> QED
  BY <1>1, <1>2, <1>3, <1>4, <1>5, <1>6, <1>7, <1>8, <1>9, <1>10, <1>11, <1>12, <1>13, <1>14
  DEF Next, Controller

LEMMA InitRoles == Init => RolesInv
<1> SUFFICES ASSUME Init PROVE RolesInv
  OBVIOUS
<1>1. TypeInv
  BY InitTypes
<1>2. members \in Granted(held) /\ bindings \in Within(held)
  BY <1>1 DEF TypeInv, TypeOK, Init, Granted, Within, NoMember
<1>3. MembersIn(Granted(held)) /\ BindingsIn(Within(held))
  BY <1>2, EmptySeq DEF Init, MembersIn, BindingsIn
<1>4. CopyGranted
  BY Defaults DEF Init, CopyGranted
<1> QED BY <1>1, <1>3, <1>4 DEF RolesInv

(***************************************************************************)
(* Bindings never outrun the roles of the member that owns them, however    *)
(* late the copies are from which CreateOrPatch decides.  It needs that     *)
(* every copy of a member, old or new, carries a role that member has had.  *)
(***************************************************************************)
THEOREM RolesBoundRights == Spec => []BindingsWithinRoles
<1>1. RolesInv /\ UNCHANGED vars => RolesInv'
  BY DEF RolesInv, TypeInv, TypeOK, WithinDepth, MembersIn, BindingsIn, CopyGranted, vars
<1>2. RolesInv => BindingsWithinRoles
  BY DEF RolesInv, BindingsIn, Within, BindingsWithinRoles
<1> QED BY <1>1, <1>2, InitRoles, NextRoles, PTL DEF Spec

-----------------------------------------------------------------------------
(* A wrong report is pending *)

\* The watch ends with the store.
Latest == IF memberWatch = << >> THEN memberCache = members
                                 ELSE memberWatch[Len(memberWatch)] = members

\* Whatever the informer still has to show of u is the present member.
Everywhere(u) ==
    /\ memberCache[u].uid = members[u].uid
    /\ \A i \in 1 .. Len(memberWatch) : memberWatch[i][u].uid = members[u].uid

\* Once a version shows the present member, all later ones do.
UidOrder ==
    \A u \in Users : members[u].uid # 0 =>
        /\ memberCache[u].uid = members[u].uid => Everywhere(u)
        /\ \A i, j \in 1 .. Len(memberWatch) :
             i < j /\ memberWatch[i][u].uid = members[u].uid => memberWatch[j][u].uid = members[u].uid

Active(u) == ctl.step # "idle" /\ ctl.user = u

\* The controller works for a member there was, and if it is the present one, no copy shows another.
CopyKnown ==
    ctl.step # "idle" =>
        /\ ctl.copy.uid # 0 /\ ctl.copy.role \in held[ctl.copy.uid]
        /\ ctl.copy.uid = members[ctl.user].uid => Everywhere(ctl.user)

(***************************************************************************)
(* A binding of the present member was made from a copy that showed it, so  *)
(* neither a copy nor the controller is at an earlier member any more.      *)
(***************************************************************************)
BindingKnown ==
    \A u \in Users, l \in Levels :
        bindings[u][l] # 0 /\ bindings[u][l] = members[u].uid
        => Everywhere(u) /\ (Active(u) => ctl.copy.uid = members[u].uid)

\* Versions of the bindings in Kept show none of a present member that is not there.
Kept == {v \in BindingStore : \A u \in Users, l \in Levels :
            v[u][l] # 0 /\ v[u][l] = members[u].uid => bindings[u][l] = v[u][l]}

\* What the controller has done for the present member so far.
Progress ==
    ctl.step # "idle" /\ ctl.copy.uid = members[ctl.user].uid =>
        /\ ctl.step = "bind" =>
             \A l \in Levels : l < ctl.level => bindings[ctl.user][l] = ctl.copy.uid
        /\ ctl.step # "bind" /\ ctl.authz = Ready =>
             \A l \in 1 .. Depth(ctl.copy.role) : bindings[ctl.user][l] = ctl.copy.uid

\* u is in the queue, or a delivery will put it there.
Behind(u) == u \in queue \/ \E i \in 1 .. Len(memberWatch) : memberWatch[i][u] # memberCache[u]

\* Unless its key is to come again, the controller works from the present copy and has nothing to change.
CopySeen ==
    ctl.step # "idle" /\ ~Behind(ctl.user) =>
        /\ ctl.copy = memberCache[ctl.user]
        /\ ctl.step = "status" /\ ~ctl.failed => ctl.authz = ctl.copy.authz

OrderInv == RolesInv /\ Latest /\ UidOrder
OwnerInv == CopyKnown /\ BindingKnown /\ BindingsIn(Kept)
ReportInv == OrderInv /\ OwnerInv /\ Progress /\ CopySeen /\ WrongReportPending

LEMMA ReportParts ==
  ReportInv <=> /\ RolesInv /\ Latest /\ UidOrder /\ CopyKnown /\ BindingKnown /\ BindingsIn(Kept)
                /\ Progress /\ CopySeen /\ WrongReportPending
BY DEF ReportInv, OrderInv, OwnerInv

-----------------------------------------------------------------------------
(* How members, bindings and the controller move *)

\* What a write makes of the members: a UID stays, goes, or is one that was never given.
UidMove(u) ==
    \/ members'[u].uid = members[u].uid
    \/ members'[u].uid = 0
    \/ members'[u].uid \in Uids /\ held[members'[u].uid] = {}

MemberWrite == members' \in MemberStore /\ M!Write(members') /\ \A u \in Users : UidMove(u)
MemberStep == UNCHANGED memberVars \/ MemberWrite \/ DeliverMember \/ Restart

\* A binding stays, is one the controller makes, or is collected because its owner is gone.
BindingStep ==
    \/ UNCHANGED bindings
    \/ /\ Bind /\ bindings' = [bindings EXCEPT ![ctl.user][ctl.level] = ctl.copy.uid]
    \/ \E u \in Users, l \in Levels :
         /\ CollectBinding(u, l) /\ bindings' = [bindings EXCEPT ![u][l] = 0]

BindingVersions == UNCHANGED bindingVars \/ B!Write(bindings') \/ B!Deliver \/ B!Relist

\* The controller goes on with the copy it has, ends, or starts with another.
Goes == ctl.step # "idle" /\ ctl'.step # "idle" /\ ctl'.user = ctl.user /\ ctl'.copy = ctl.copy
Starts(u) == /\ StartReconcile(u) /\ memberCache[u].uid # 0
             /\ ctl'.step = "bind" /\ ctl'.user = u /\ ctl'.copy = memberCache[u] /\ ctl'.level = 1
ControllerMove == UNCHANGED ctl \/ ctl' = Idle \/ Goes \/ \E u \in Users : Starts(u)

QueueStep == queue \subseteq queue' \/ Restart \/ \E u \in Users : StartReconcile(u)

Move == MemberStep /\ BindingStep /\ BindingVersions /\ ControllerMove /\ QueueStep

LEMMA UidsStay ==
  ASSUME TypeOK, NEW u \in Users, NEW x \in Member, NEW n \in 0 .. MaxUid, x.uid = n,
         n \in {0, members[u].uid} \/ (n \in Uids /\ held[n] = {}),
         M!Write([members EXCEPT ![u] = x])
  PROVE  MemberWrite
<1>1. [members EXCEPT ![u] = x] \in MemberStore
  BY DEF TypeOK, MemberStore
<1>2. members' = [members EXCEPT ![u] = x] /\ M!Write(members')
  BY DEF M!Write
<1>3. ASSUME NEW v \in Users PROVE UidMove(v)
  <2>1. CASE v = u
    BY <1>2, <2>1 DEF UidMove, TypeOK, MemberStore
  <2>2. CASE v # u
    BY <1>2, <2>2 DEF UidMove, TypeOK, MemberStore
  <2> QED BY <2>1, <2>2
<1> QED BY <1>1, <1>2, <1>3 DEF MemberWrite

LEMMA Moves == ASSUME RolesInv, Next PROVE Move
<1> USE Defaults
<1>a. TypeOK /\ ctl \in Ctl /\ members \in MemberStore
      /\ ctl.user \in Users /\ ctl.authz \in Report
  BY DEF RolesInv, TypeInv, TypeOK, Ctl
<1>b. UNCHANGED bindingVars => BindingStep /\ BindingVersions
  BY DEF BindingStep, BindingVersions, bindingVars
<1>c. UNCHANGED queue => QueueStep
  BY DEF QueueStep
<1>d. \A s : B!Write(s) => B!Write(bindings') /\ bindings' = s
  BY DEF B!Write
<1>1. ASSUME NEW u \in Users, NEW role \in Roles, CreateMember(u, role) PROVE Move
  <2>1. PICK n \in Uids :
          /\ held[n] = {}
          /\ M!Write([members EXCEPT ![u] = [NoMember EXCEPT !.uid = n, !.role = role]])
    BY <1>1 DEF CreateMember
  <2>2. [NoMember EXCEPT !.uid = n, !.role = role] \in Member /\ n \in 0 .. MaxUid
    <3>1. n \in 0 .. MaxUid
      BY MembersAssumption DEF Uids
    <3> QED BY <3>1 DEF Member
  <2>3. [NoMember EXCEPT !.uid = n, !.role = role].uid = n
    BY DEF NoMember
  <2>4. MemberWrite
    BY <1>a, <2>1, <2>2, <2>3, UidsStay
  <2> QED BY <1>1, <1>b, <1>c, <2>4 DEF CreateMember, Move, MemberStep, ControllerMove
<1>2. ASSUME NEW u \in Users, NEW x \in Member, x.uid = members[u].uid,
             M!Write([members EXCEPT ![u] = x])
      PROVE  MemberWrite
  <2>1. members[u].uid \in 0 .. MaxUid
    BY <1>a DEF MemberStore, Member
  <2> QED BY <1>2, <1>a, <2>1, UidsStay
<1>3. ASSUME NEW u \in Users, NEW role \in Roles, ChangeRole(u, role) PROVE Move
  <2> DEFINE x == [members[u] EXCEPT !.role = role]
  <2>1. x \in Member /\ x.uid = members[u].uid
    BY <1>a DEF MemberStore, Member
  <2>2. [members EXCEPT ![u].role = role] = [members EXCEPT ![u] = x]
    BY <1>a DEF MemberStore
  <2>3. MemberWrite
    BY <1>2, <1>3, <2>1, <2>2 DEF ChangeRole
  <2> QED BY <1>3, <1>b, <1>c, <2>3 DEF ChangeRole, Move, MemberStep, ControllerMove
<1>4. ASSUME NEW u \in Users, DeleteOrganizationMember(u) PROVE Move
  <2>1. NoMember.uid = 0 /\ 0 \in 0 .. MaxUid
    BY MembersAssumption DEF NoMember
  <2>2. MemberWrite
    BY <1>4, <1>a, <2>1, UidsStay DEF DeleteOrganizationMember
  <2> QED BY <1>4, <1>b, <1>c, <2>2 DEF DeleteOrganizationMember, Move, MemberStep, ControllerMove
<1>5. ASSUME NEW u \in Users, RegisterUser(u) PROVE Move
  BY <1>5, <1>b, <1>c DEF RegisterUser, Move, MemberStep, ControllerMove
<1>6. ASSUME NEW u \in Users, StartReconcile(u) PROVE Move
  <2>1. ctl' = Idle \/ Starts(u)
    BY <1>6 DEF StartReconcile, Starts, Idle
  <2> QED BY <1>6, <1>b, <2>1 DEF StartReconcile, Move, MemberStep, ControllerMove, QueueStep
<1>7. ASSUME Bind PROVE Move
  <2>1. BindingStep /\ BindingVersions
    BY <1>7, <1>b, <1>d DEF Bind, BindingStep, BindingVersions
  <2>2. NextLevel \/ (\E report : Conclude(report)) => Goes
    BY <1>7, <1>a DEF NextLevel, Conclude, Goes, Ctl, Bind
  <2>3. Goes
    BY <1>7, <2>2 DEF Bind
  <2> QED BY <1>7, <1>c, <2>1, <2>3 DEF Bind, Move, MemberStep, ControllerMove
<1>8. ASSUME PatchConditions PROVE Move
  <2> DEFINE x == [members[ctl.user] EXCEPT !.authz = ctl.authz]
  <2>1. x \in Member /\ x.uid = members[ctl.user].uid
    BY <1>a DEF MemberStore, Member
  <2>2. [members EXCEPT ![ctl.user].authz = ctl.authz] = [members EXCEPT ![ctl.user] = x]
    BY <1>a DEF MemberStore
  <2>3. MemberStep
    BY <1>2, <1>8, <1>a, <2>1, <2>2 DEF PatchConditions, MemberStep
  <2>4. Goes
    BY <1>8, <1>a DEF PatchConditions, Goes, Ctl
  <2> QED BY <1>8, <1>b, <1>c, <2>3, <2>4 DEF PatchConditions, Move, ControllerMove
<1>9. ASSUME PatchStatus PROVE Move
  <2> DEFINE x == [members[ctl.user] EXCEPT !.info = TRUE]
  <2>1. x \in Member /\ x.uid = members[ctl.user].uid
    BY <1>a DEF MemberStore, Member
  <2>2. [members EXCEPT ![ctl.user].info = TRUE] = [members EXCEPT ![ctl.user] = x]
    BY <1>a DEF MemberStore
  <2>3. MemberStep
    BY <1>2, <1>9, <1>a, <2>1, <2>2 DEF PatchStatus, MemberStep
  <2>4. ctl' = Idle /\ queue \subseteq queue'
    BY <1>9 DEF PatchStatus, Finish
  <2> QED BY <1>9, <1>b, <2>3, <2>4 DEF PatchStatus, Move, ControllerMove, QueueStep
<1>10. ASSUME DeliverMember PROVE Move
  BY <1>10, <1>b DEF DeliverMember, Move, MemberStep, ControllerMove, QueueStep
<1>11. ASSUME DeliverBinding PROVE Move
  BY <1>11, <1>c DEF DeliverBinding, B!Deliver, Move, MemberStep, BindingStep, BindingVersions, ControllerMove
<1>12. ASSUME NEW u \in Users, NEW l \in Levels, CollectBinding(u, l) PROVE Move
  <2>1. BindingStep /\ BindingVersions
    BY <1>12, <1>d DEF CollectBinding, BindingStep, BindingVersions
  <2> QED BY <1>12, <1>c, <2>1 DEF CollectBinding, Move, MemberStep, ControllerMove
<1>13. ASSUME Resync PROVE Move
  BY <1>13, <1>b DEF Resync, Move, MemberStep, ControllerMove, QueueStep
<1>14. ASSUME ControllerError PROVE Move
  <2>1. ControllerMove /\ queue \subseteq queue'
    BY <1>14, <1>a DEF ControllerError, Conclude, Finish, Ctl, ControllerMove, Goes
  <2> QED BY <1>14, <1>b, <2>1 DEF ControllerError, Move, MemberStep, QueueStep
<1>15. ASSUME Restart PROVE Move
  BY <1>15 DEF Restart, B!Relist, Move, MemberStep, BindingStep, BindingVersions, ControllerMove, QueueStep
<1> QED
  BY <1>1, <1>3, <1>4, <1>5, <1>6, <1>7, <1>8, <1>9, <1>10, <1>11, <1>12, <1>13, <1>14, <1>15
  DEF Next, Controller

-----------------------------------------------------------------------------
(* What the informer of the members shows *)

LEMMA WatchWritten ==
  ASSUME TypeOK, members' \in MemberStore, M!Write(members')
  PROVE  /\ memberCache' = memberCache /\ Len(memberWatch) \in Nat
         /\ \/ members' = members /\ memberWatch' = memberWatch
            \/ /\ Len(memberWatch') = Len(memberWatch) + 1 /\ memberWatch' # << >>
               /\ \A i \in 1 .. Len(memberWatch) : memberWatch'[i] = memberWatch[i]
               /\ memberWatch'[Len(memberWatch) + 1] = members'
<1>1. memberWatch \in Seq(MemberStore) /\ Len(memberWatch) \in Nat
  BY LenProperties DEF TypeOK
<1> QED BY <1>1, AppendProperties DEF M!Write

LEMMA WatchDelivered ==
  ASSUME TypeOK, M!Deliver
  PROVE  /\ Len(memberWatch) \in Nat \ {0} /\ Len(memberWatch') = Len(memberWatch) - 1
         /\ memberCache' = memberWatch[1] /\ members' = members
         /\ memberWatch' = << >> <=> Len(memberWatch) = 1
         /\ \A i \in 1 .. Len(memberWatch') : memberWatch'[i] = memberWatch[i + 1]
<1>1. memberWatch \in Seq(MemberStore) /\ memberWatch # << >>
  BY DEF TypeOK, M!Deliver
<1>2. Len(memberWatch) \in Nat \ {0} /\ Head(memberWatch) = memberWatch[1]
  BY <1>1, LenProperties, EmptySeq
<1>3. Tail(memberWatch) \in Seq(MemberStore) /\ Len(Tail(memberWatch)) = Len(memberWatch) - 1
      /\ \A i \in 1 .. Len(Tail(memberWatch)) : Tail(memberWatch)[i] = memberWatch[i + 1]
  BY <1>1, HeadTailProperties
<1>4. Tail(memberWatch) = << >> <=> Len(Tail(memberWatch)) = 0
  BY <1>3, EmptySeq
<1> QED BY <1>2, <1>3, <1>4 DEF M!Deliver

LEMMA WatchListed ==
  ASSUME M!Relist
  PROVE  memberCache' = members /\ members' = members /\ memberWatch' = << >> /\ Len(memberWatch') = 0
BY EmptySeq DEF M!Relist

\* A UID that was not given yet is in no version of anything.
LEMMA Unknown ==
  ASSUME RolesInv, NEW n \in Uids, held[n] = {}, NEW u \in Users
  PROVE  /\ members[u].uid # n /\ memberCache[u].uid # n
         /\ \A i \in 1 .. Len(memberWatch) : memberWatch[i][u].uid # n
         /\ \A v \in Within(held), l \in Levels : v[u][l] # n
<1>1. n # 0
  BY MembersAssumption DEF Uids
<1>2. \A s \in Granted(held) : s[u].uid # n
  BY <1>1 DEF Granted
<1>3. \A v \in Within(held), l \in Levels : v[u][l] # n
  BY <1>1 DEF Within
<1>4. memberWatch \in Seq(Granted(held)) /\ members \in Granted(held) /\ memberCache \in Granted(held)
  BY DEF RolesInv, MembersIn
<1>5. \A i \in 1 .. Len(memberWatch) : memberWatch[i] \in Granted(held)
  BY <1>4, ElementOfSeq
<1> QED BY <1>2, <1>3, <1>4, <1>5

LEMMA LatestMoves == ASSUME TypeOK, Latest, MemberStep PROVE Latest'
<1>1. CASE UNCHANGED memberVars
  BY <1>1 DEF Latest, memberVars
<1>2. CASE MemberWrite
  BY <1>2, WatchWritten DEF MemberWrite, Latest
<1>3. CASE M!Deliver
  <2>1. CASE Len(memberWatch) = 1
    BY <1>3, <2>1, WatchDelivered, EmptySeq DEF Latest, M!Deliver
  <2>2. CASE Len(memberWatch) # 1
    <3>1. Len(memberWatch') \in 1 .. Len(memberWatch') /\ Len(memberWatch') + 1 = Len(memberWatch)
      BY <1>3, <2>2, WatchDelivered
    <3> QED BY <1>3, <2>2, <3>1, WatchDelivered DEF Latest, M!Deliver
  <2> QED BY <2>1, <2>2
<1>4. CASE M!Relist
  BY <1>4, WatchListed DEF Latest
<1> QED BY <1>1, <1>2, <1>3, <1>4 DEF MemberStep, DeliverMember, Restart

LEMMA EverywhereMoves ==
  ASSUME TypeOK, MemberStep, NEW u \in Users, members'[u].uid = members[u].uid, Everywhere(u)
  PROVE  Everywhere(u)'
<1>1. CASE UNCHANGED memberVars
  BY <1>1 DEF Everywhere, memberVars
<1>2. CASE MemberWrite
  BY <1>2, WatchWritten DEF MemberWrite, Everywhere
<1>3. CASE M!Deliver
  BY <1>3, WatchDelivered DEF Everywhere
<1>4. CASE M!Relist
  BY <1>4, WatchListed DEF Everywhere
<1> QED BY <1>1, <1>2, <1>3, <1>4 DEF MemberStep, DeliverMember, Restart

LEMMA UidOrderMoves == ASSUME RolesInv, UidOrder, MemberStep PROVE UidOrder'
<1>a. TypeOK
  BY DEF RolesInv, TypeInv
<1>1. CASE UNCHANGED memberVars
  BY <1>1 DEF UidOrder, Everywhere, memberVars
<1>2. CASE MemberWrite
  <2> SUFFICES ASSUME NEW u \in Users, members'[u].uid # 0
               PROVE  /\ memberCache'[u].uid = members'[u].uid => Everywhere(u)'
                      /\ \A i, j \in 1 .. Len(memberWatch') :
                           i < j /\ memberWatch'[i][u].uid = members'[u].uid
                           => memberWatch'[j][u].uid = members'[u].uid
    BY DEF UidOrder
  <2>a. MemberStep
    BY <1>2 DEF MemberStep
  <2>1. CASE members'[u].uid = members[u].uid
    <3>1. memberCache'[u].uid = members'[u].uid => Everywhere(u)
      BY <1>2, <1>a, <2>1, WatchWritten DEF MemberWrite, UidOrder
    <3>2. memberCache'[u].uid = members'[u].uid => Everywhere(u)'
      BY <1>a, <2>1, <2>a, <3>1, EverywhereMoves
    <3>3. \A i, j \in 1 .. Len(memberWatch') :
            i < j /\ memberWatch'[i][u].uid = members'[u].uid
            => memberWatch'[j][u].uid = members'[u].uid
      BY <1>2, <1>a, <2>1, WatchWritten DEF MemberWrite, UidOrder
    <3> QED BY <3>2, <3>3
  <2>2. CASE members'[u].uid # members[u].uid
    <3>1. members'[u].uid \in Uids /\ held[members'[u].uid] = {}
      BY <1>2, <2>2 DEF MemberWrite, UidMove
    <3>2. /\ memberCache[u].uid # members'[u].uid
          /\ \A i \in 1 .. Len(memberWatch) : memberWatch[i][u].uid # members'[u].uid
      BY <3>1, Unknown
    <3> QED BY <1>2, <1>a, <3>2, WatchWritten DEF MemberWrite, Everywhere
  <2> QED BY <2>1, <2>2
<1>3. CASE M!Deliver
  <2> SUFFICES ASSUME NEW u \in Users, members'[u].uid # 0
               PROVE  /\ memberCache'[u].uid = members'[u].uid => Everywhere(u)'
                      /\ \A i, j \in 1 .. Len(memberWatch') :
                           i < j /\ memberWatch'[i][u].uid = members'[u].uid
                           => memberWatch'[j][u].uid = members'[u].uid
    BY DEF UidOrder
  <2>1. \A i, j \in 1 .. Len(memberWatch) :
           i < j /\ memberWatch[i][u].uid = members[u].uid => memberWatch[j][u].uid = members[u].uid
    BY <1>3, <1>a, WatchDelivered DEF UidOrder
  <2>2. \A i \in 1 .. Len(memberWatch') : i + 1 \in 1 .. Len(memberWatch) /\ 1 < i + 1
    BY <1>3, <1>a, WatchDelivered
  <2>3. 1 \in 1 .. Len(memberWatch)
    BY <1>3, <1>a, WatchDelivered
  <2>4. memberCache'[u].uid = members'[u].uid => Everywhere(u)'
    BY <1>3, <1>a, <2>1, <2>2, <2>3, WatchDelivered DEF Everywhere
  <2>5. ASSUME NEW i \in 1 .. Len(memberWatch'), NEW j \in 1 .. Len(memberWatch'), i < j,
               memberWatch'[i][u].uid = members'[u].uid
        PROVE  memberWatch'[j][u].uid = members'[u].uid
    <3>1. i + 1 < j + 1
      BY <2>5
    <3> QED BY <1>3, <1>a, <2>1, <2>2, <2>5, <3>1, WatchDelivered
  <2> QED BY <2>4, <2>5
<1>4. CASE M!Relist
  BY <1>4, WatchListed DEF UidOrder, Everywhere
<1> QED BY <1>1, <1>2, <1>3, <1>4 DEF MemberStep, DeliverMember, Restart

-----------------------------------------------------------------------------
(* Who is not behind *)

LEMMA NotBehind ==
  ASSUME TypeOK, Latest, NEW u \in Users, ~Behind(u)
  PROVE  memberCache[u] = members[u]
<1>1. memberWatch # << >> => Len(memberWatch) \in 1 .. Len(memberWatch)
  BY LenProperties, EmptySeq DEF TypeOK
<1> QED BY <1>1 DEF Latest, Behind

(***************************************************************************)
(* Only the start of a reconciliation, which takes the key, and a restart,  *)
(* which lists everything, make a user that is behind one that is not.      *)
(***************************************************************************)
LEMMA Calm ==
  ASSUME TypeOK, Latest, MemberStep, queue \subseteq queue', ~Restart,
         NEW u \in Users, ~Behind(u)'
  PROVE  ~Behind(u) /\ memberCache'[u] = memberCache[u] /\ members'[u] = members[u]
<1>1. CASE UNCHANGED memberVars
  BY <1>1 DEF Behind, memberVars
<1>2. CASE MemberWrite
  <2>1. ~Behind(u)
    BY <1>2, WatchWritten DEF MemberWrite, Behind
  <2>2. memberCache[u] = members[u]
    BY <2>1, NotBehind
  <2>3. members' = members \/ members'[u] = memberCache'[u]
    BY <1>2, WatchWritten DEF MemberWrite, Behind
  <2> QED BY <1>2, <2>1, <2>2, <2>3, WatchWritten DEF MemberWrite
<1>3. CASE DeliverMember
  <2>a. M!Deliver /\ queue' = queue \cup {v \in Users : memberCache[v] # memberCache'[v]}
    BY <1>3 DEF DeliverMember
  <2>1. memberCache'[u] = memberCache[u] /\ u \notin queue
    BY <2>a DEF Behind
  <2>2. ASSUME NEW i \in 1 .. Len(memberWatch) PROVE memberWatch[i][u] = memberCache[u]
    <3>1. CASE i = 1
      BY <2>a, <2>1, <3>1, WatchDelivered
    <3>2. CASE i # 1
      <4>1. i - 1 \in 1 .. Len(memberWatch') /\ (i - 1) + 1 = i
        BY <2>a, <3>2, WatchDelivered
      <4>2. memberWatch'[i - 1][u] = memberCache'[u]
        BY <4>1 DEF Behind
      <4>3. memberWatch'[i - 1] = memberWatch[(i - 1) + 1]
        BY <2>a, <4>1, WatchDelivered
      <4> QED BY <2>1, <4>1, <4>2, <4>3
    <3> QED BY <3>1, <3>2
  <2> QED BY <2>a, <2>1, <2>2, WatchDelivered DEF Behind
<1> QED BY <1>1, <1>2, <1>3 DEF MemberStep

-----------------------------------------------------------------------------
(* Who the controller and the bindings belong to *)

\* A member that the controller works for, or that owns a binding, was there before.
LEMMA PresentBefore ==
  ASSUME RolesInv, MemberStep, NEW u \in Users, members'[u].uid # 0,
         members'[u].uid \in Uids => held[members'[u].uid] # {}
  PROVE  members'[u].uid = members[u].uid
<1>a. TypeOK
  BY DEF RolesInv, TypeInv
<1>1. CASE MemberWrite
  BY <1>1 DEF MemberWrite, UidMove
<1>2. CASE UNCHANGED memberVars \/ DeliverMember \/ Restart
  BY <1>2 DEF memberVars, DeliverMember, Restart, M!Deliver, M!Relist
<1> QED BY <1>1, <1>2 DEF MemberStep

\* The controller's copy, when the controller goes on.
LEMMA CopyPresentBefore ==
  ASSUME RolesInv, CopyKnown, MemberStep, ctl.step # "idle",
         ctl.copy.uid = members'[ctl.user].uid
  PROVE  ctl.copy.uid = members[ctl.user].uid
<1>1. ctl.user \in Users /\ members'[ctl.user].uid # 0 /\ held[members'[ctl.user].uid] # {}
  BY DEF RolesInv, TypeInv, TypeOK, CopyKnown
<1> QED BY <1>1, PresentBefore

LEMMA CopyKnownMoves ==
  ASSUME RolesInv, RolesInv', Grown, UidOrder, CopyKnown, Move
  PROVE  CopyKnown'
<1>a. TypeOK /\ TypeOK' /\ MemberStep /\ ctl.user \in Users /\ ctl.copy \in Member
  BY DEF RolesInv, TypeInv, TypeOK, Move
<1>1. CASE ctl' = Idle
  BY <1>1, Defaults DEF CopyKnown
<1>2. CASE ctl.step # "idle" /\ ctl'.user = ctl.user /\ ctl'.copy = ctl.copy
  <2>1. ctl.copy.uid # 0 /\ ctl.copy.role \in held[ctl.copy.uid] /\ ctl.copy.uid \in Uids
    BY <1>2, <1>a, MembersAssumption DEF CopyKnown, Member, Uids
  <2>2. ctl.copy.role \in held'[ctl.copy.uid]
    BY <2>1 DEF Grown
  <2>3. ASSUME ctl.copy.uid = members'[ctl.user].uid PROVE Everywhere(ctl.user)'
    <3>1. ctl.copy.uid = members[ctl.user].uid
      BY <1>2, <1>a, <2>3, CopyPresentBefore
    <3>2. PICK u \in Users : u = ctl.user
      BY <1>a
    <3>3. Everywhere(u)
      BY <1>2, <3>1, <3>2 DEF CopyKnown
    <3>4. Everywhere(u)'
      BY <1>a, <2>3, <3>1, <3>2, <3>3, EverywhereMoves
    <3>5. ctl'.user = u
      BY <1>2, <3>2
    <3> QED BY <1>2, <3>4, <3>5 DEF Everywhere
  <2> QED BY <1>2, <2>1, <2>2, <2>3 DEF CopyKnown, Everywhere
<1>3. ASSUME NEW u \in Users, Starts(u) PROVE CopyKnown'
  <2>1. UNCHANGED memberVars /\ UNCHANGED held
    BY <1>3 DEF Starts, StartReconcile
  <2>2. memberCache[u].role \in held[memberCache[u].uid]
    BY <1>3 DEF Starts, RolesInv, MembersIn, Granted
  <2>3. memberCache[u].uid = members[u].uid => Everywhere(u)
    BY <1>3 DEF Starts, UidOrder
  <2> QED BY <1>3, <2>1, <2>2, <2>3 DEF Starts, CopyKnown, Everywhere, memberVars
<1>4. CASE UNCHANGED ctl /\ ctl.step = "idle"
  BY <1>4 DEF CopyKnown
<1> QED BY <1>1, <1>2, <1>3, <1>4 DEF Move, ControllerMove, Goes

\* What a step makes of one binding.
LEMMA BindingMoves ==
  ASSUME TypeOK, BindingStep, NEW u \in Users, NEW l \in Levels
  PROVE  \/ bindings'[u][l] = bindings[u][l]
         \/ Bind /\ u = ctl.user /\ l = ctl.level /\ bindings'[u][l] = ctl.copy.uid
         \/ /\ \E k \in Levels : CollectBinding(u, k)
            /\ bindings'[u][l] = 0 /\ bindings[u][l] # members[u].uid
<1>1. CASE UNCHANGED bindings
  BY <1>1
<1>2. CASE Bind /\ bindings' = [bindings EXCEPT ![ctl.user][ctl.level] = ctl.copy.uid]
  BY <1>2 DEF TypeOK, BindingStore
<1>3. ASSUME NEW v \in Users, NEW k \in Levels, CollectBinding(v, k),
             bindings' = [bindings EXCEPT ![v][k] = 0]
      PROVE  \/ bindings'[u][l] = bindings[u][l]
             \/ /\ CollectBinding(u, l)
                /\ bindings'[u][l] = 0 /\ bindings[u][l] # members[u].uid
  <2>1. CASE v = u /\ k = l
    BY <1>3, <2>1 DEF TypeOK, BindingStore, CollectBinding
  <2>2. CASE v # u \/ k # l
    BY <1>3, <2>2 DEF TypeOK, BindingStore
  <2> QED BY <2>1, <2>2
<1> QED BY <1>1, <1>2, <1>3 DEF BindingStep

\* A binding of the present member stays as long as the member does.
LEMMA BindingStays ==
  ASSUME RolesInv, BindingKnown, Move, NEW u \in Users, NEW l \in Levels,
         bindings[u][l] # 0, bindings[u][l] = members[u].uid
  PROVE  bindings'[u][l] = bindings[u][l]
<1>a. TypeOK /\ BindingStep
  BY DEF RolesInv, TypeInv, Move
<1>1. ASSUME Bind, u = ctl.user PROVE ctl.copy.uid = bindings[u][l]
  BY <1>1 DEF Bind, BindingKnown, Active
<1> QED BY <1>a, <1>1, BindingMoves

LEMMA BindingKnownMoves ==
  ASSUME RolesInv, RolesInv', BindingKnown, CopyKnown, Move
  PROVE  BindingKnown'
<1>a. TypeOK /\ TypeOK' /\ MemberStep /\ BindingStep /\ ControllerMove /\ bindings \in Within(held)
  BY DEF RolesInv, TypeInv, Move, BindingsIn
<1> SUFFICES ASSUME NEW u \in Users, NEW l \in Levels,
                    bindings'[u][l] # 0, bindings'[u][l] = members'[u].uid
             PROVE  Everywhere(u)' /\ (Active(u)' => ctl'.copy.uid = members'[u].uid)
  BY DEF BindingKnown
<1>1. CASE bindings'[u][l] = bindings[u][l]
  <2>a. bindings[u][l] \in 0 .. MaxUid
    BY <1>a DEF Within, BindingStore
  <2>1. bindings[u][l] \in Uids
    BY <1>1, <2>a, MembersAssumption DEF Uids
  <2>2. held[bindings[u][l]] # {}
    BY <1>1, <1>a, <2>1, Unknown
  <2>3. members'[u].uid = members[u].uid
    BY <1>1, <1>a, <2>2, PresentBefore
  <2>4. Everywhere(u) /\ (Active(u) => ctl.copy.uid = members[u].uid)
    BY <1>1, <2>3 DEF BindingKnown
  <2>5. Everywhere(u)'
    BY <1>a, <2>3, <2>4, EverywhereMoves
  <2>6. ASSUME Active(u)' PROVE ctl'.copy.uid = members'[u].uid
    <3>1. CASE UNCHANGED ctl \/ Goes
      BY <2>3, <2>4, <2>6, <3>1 DEF Active, Goes
    <3>2. CASE ctl' = Idle
      BY <2>6, <3>2, Defaults DEF Active
    <3>3. ASSUME NEW v \in Users, Starts(v) PROVE ctl'.copy.uid = members'[u].uid
      BY <2>3, <2>4, <2>6, <3>3 DEF Starts, Active, Everywhere
    <3> QED BY <1>a, <3>1, <3>2, <3>3 DEF ControllerMove
  <2> QED BY <2>5, <2>6
<1>2. CASE Bind /\ u = ctl.user /\ l = ctl.level /\ bindings'[u][l] = ctl.copy.uid
  <2>1. members' = members /\ ctl.step = "bind"
    BY <1>2 DEF Bind, memberVars
  <2>2. Everywhere(u)
    BY <1>2, <2>1 DEF CopyKnown
  <2>3. Everywhere(u)'
    BY <1>a, <2>1, <2>2, EverywhereMoves
  <2>4. Active(u)' => ctl'.copy = ctl.copy
    <3>1. ~Starts(ctl.user) /\ \A v \in Users : ~Starts(v)
      BY <2>1 DEF Starts, StartReconcile
    <3> QED BY <1>a, <3>1, Defaults DEF ControllerMove, Goes, Active
  <2> QED BY <1>2, <2>3, <2>4
<1> QED BY <1>a, <1>1, <1>2, BindingMoves

LEMMA KeptMoves ==
  ASSUME RolesInv, RolesInv', BindingKnown, BindingsIn(Kept), Move
  PROVE  BindingsIn(Kept)'
<1>a. TypeOK /\ MemberStep /\ BindingVersions /\ BindingsIn(Within(held)) /\ bindings' \in BindingStore
  BY DEF RolesInv, TypeInv, TypeOK, Move
<1> DEFINE Old == Kept \cap Within(held)
<1>1. ASSUME NEW v \in Old PROVE v \in Kept'
  <2> SUFFICES ASSUME NEW u \in Users, NEW l \in Levels, v[u][l] # 0, v[u][l] = members'[u].uid
               PROVE  bindings'[u][l] = v[u][l]
    BY DEF Kept
  <2>1. v[u][l] \in Uids => held[v[u][l]] # {}
    BY Unknown
  <2>2. members'[u].uid = members[u].uid
    BY <1>a, <2>1, PresentBefore
  <2>3. bindings[u][l] = v[u][l]
    BY <2>2 DEF Kept
  <2> QED BY <2>2, <2>3, BindingStays
<1>2. bindings \in Old /\ bindingCache \in Old /\ bindingWatch \in Seq(Old)
  <2>1. \A q : q \in Seq(Kept) /\ q \in Seq(Within(held)) => q \in Seq(Old)
    OBVIOUS
  <2> QED BY <1>a, <2>1 DEF BindingsIn
<1>3. bindings \in Kept' /\ bindingCache \in Kept' /\ bindingWatch \in Seq(Kept')
  <2>1. Old \subseteq Kept'
    BY <1>1
  <2> HIDE DEF Old
  <2> QED BY <1>2, <2>1, SeqWiden
<1>4. bindings' \in Kept'
  BY <1>a DEF Kept
<1>5. BindingsIn(Kept')
  BY <1>3 DEF BindingsIn
<1>6. bindings' \in Kept' /\ bindingCache' \in Kept' /\ bindingWatch' \in Seq(Kept')
  <2>1. CASE UNCHANGED bindingVars \/ B!Write(bindings')
    BY <1>4, <1>5, <2>1, BindingMove
  <2>2. CASE B!Deliver \/ B!Relist
    BY <1>5, <2>2, BindingRead
  <2> QED BY <1>a, <2>1, <2>2 DEF BindingVersions
<1> QED BY <1>6 DEF BindingsIn

-----------------------------------------------------------------------------
(* What the controller has done, and what it leaves *)

\* How a reconciliation that does not bind goes on.
Reports ==
    /\ ctl' = [ctl EXCEPT !.step = "conditions", !.authz = NotReady("failed", ctl.level)]
    /\ UNCHANGED memberVars
Fails == /\ ctl.step = "conditions" /\ ctl' = [ctl EXCEPT !.step = "status", !.failed = TRUE]
         /\ UNCHANGED memberVars

ControllerSteps ==
    \/ UNCHANGED ctl \/ ctl' = Idle \/ (\E u \in Users : Starts(u))
    \/ Bind \/ PatchConditions \/ Reports \/ Fails

LEMMA StepsOfController == ASSUME Next PROVE ControllerSteps
<1>1. ASSUME NEW u \in Users, StartReconcile(u) PROVE ControllerSteps
  BY <1>1 DEF StartReconcile, Starts, Idle, ControllerSteps
<1>2. ASSUME ControllerError PROVE ControllerSteps
  BY <1>2 DEF ControllerError, Conclude, Finish, Reports, Fails, ControllerSteps
<1>3. ASSUME Bind \/ PatchConditions \/ PatchStatus PROVE ControllerSteps
  BY <1>3 DEF PatchStatus, Finish, ControllerSteps
<1>4. ASSUME NEW u \in Users, NEW role \in Roles, NEW l \in Levels,
             \/ CreateMember(u, role) \/ ChangeRole(u, role) \/ DeleteOrganizationMember(u)
             \/ RegisterUser(u) \/ CollectBinding(u, l)
      PROVE  ControllerSteps
  BY <1>4 DEF CreateMember, ChangeRole, DeleteOrganizationMember, RegisterUser, CollectBinding,
              ControllerSteps
<1>5. ASSUME DeliverMember \/ DeliverBinding \/ Resync \/ Restart PROVE ControllerSteps
  BY <1>5 DEF DeliverMember, DeliverBinding, Resync, Restart, ControllerSteps
<1>6. Levels # {} /\ Roles # {}
  BY MembersAssumption DEF Levels
<1> QED BY <1>1, <1>2, <1>3, <1>4, <1>5, <1>6 DEF Next, Controller

LEMMA NotReadyIs == \A error, level : NotReady(error, level) # Ready
BY DEF NotReady, Ready

\* CreateOrPatch leaves the binding of its level to the present member, or reports an error.
LEMMA BindMakes ==
  ASSUME RolesInv, BindingsIn(Kept), CopyKnown, Bind, ctl.copy.uid = members[ctl.user].uid
  PROVE  \/ NextLevel /\ bindings'[ctl.user][ctl.level] = ctl.copy.uid
         \/ \E error \in {"exists", "missing"} : Conclude(NotReady(error, ctl.level))
<1>a. bindings \in BindingStore /\ ctl.user \in Users /\ ctl.level \in Levels
  BY DEF RolesInv, TypeInv, TypeOK
<1>b. ctl.copy.uid # 0
  BY DEF Bind, CopyKnown
<1>1. ASSUME bindingCache[ctl.user][ctl.level] = ctl.copy.uid, UNCHANGED bindingVars
      PROVE  bindings'[ctl.user][ctl.level] = ctl.copy.uid
  BY <1>1, <1>a, <1>b DEF BindingsIn, Kept, bindingVars
<1>2. ASSUME B!Write([bindings EXCEPT ![ctl.user][ctl.level] = ctl.copy.uid])
      PROVE  bindings'[ctl.user][ctl.level] = ctl.copy.uid
  BY <1>2, <1>a DEF B!Write, BindingStore
<1> QED BY <1>1, <1>2 DEF Bind

LEMMA ProgressMoves ==
  ASSUME RolesInv, OwnerInv, Progress, Move, ControllerSteps
  PROVE  Progress'
<1>a. /\ TypeOK /\ WithinDepth /\ MemberStep /\ CopyKnown /\ BindingKnown /\ BindingsIn(Kept)
      /\ ctl \in Ctl /\ ctl.user \in Users
  BY DEF RolesInv, TypeInv, TypeOK, OwnerInv, Move, Ctl
<1> DEFINE n == ctl.copy.uid
           d == Depth(ctl.copy.role)
<1>b. ctl.level \in Levels /\ d \in 3 .. 5 /\ 1 .. d \subseteq Levels
  BY <1>a, DepthType DEF Ctl, Member, Levels
<1>1. CASE ctl' = Idle \/ (UNCHANGED ctl /\ ctl.step = "idle")
  BY <1>1, Defaults DEF Progress
<1>2. ASSUME NEW u \in Users, Starts(u) PROVE Progress'
  BY <1>2 DEF Starts, Progress, Levels
<1>3. ASSUME ctl.step # "idle", ctl'.user = ctl.user, ctl'.copy = ctl.copy,
             UNCHANGED ctl \/ Bind \/ PatchConditions \/ Reports \/ Fails
      PROVE  Progress'
  <2> SUFFICES ASSUME n = members'[ctl.user].uid
               PROVE  /\ ctl'.step = "bind" =>
                           \A l \in Levels : l < ctl'.level => bindings'[ctl.user][l] = n
                      /\ ctl'.step # "bind" /\ ctl'.authz = Ready =>
                           \A l \in 1 .. d : bindings'[ctl.user][l] = n
    BY <1>3 DEF Progress
  <2>1. n = members[ctl.user].uid /\ n # 0
    BY <1>3, <1>a, CopyPresentBefore DEF CopyKnown
  <2>2. \A l \in Levels : bindings[ctl.user][l] = n => bindings'[ctl.user][l] = n
    BY <1>a, <2>1, BindingStays
  <2>3. /\ ctl.step = "bind" => \A l \in Levels : l < ctl.level => bindings'[ctl.user][l] = n
        /\ ctl.step # "bind" /\ ctl.authz = Ready => \A l \in 1 .. d : bindings'[ctl.user][l] = n
    BY <1>3, <1>b, <2>1, <2>2 DEF Progress
  <2>4. CASE UNCHANGED ctl
    BY <2>3, <2>4
  <2>5. CASE PatchConditions \/ Fails
    BY <1>a, <2>3, <2>5 DEF PatchConditions, Fails, Ctl
  <2>6. CASE Reports
    BY <1>a, <2>6, NotReadyIs DEF Reports, Ctl
  <2>7. CASE Bind
    <3>1. ctl.step = "bind" /\ ctl.level <= d
      BY <1>a, <2>7 DEF Bind, WithinDepth
    <3>2. ASSUME NextLevel, bindings'[ctl.user][ctl.level] = n
          PROVE  /\ ctl'.step = "bind" =>
                      \A l \in Levels : l < ctl'.level => bindings'[ctl.user][l] = n
                 /\ ctl'.step # "bind" /\ ctl'.authz = Ready =>
                      \A l \in 1 .. d : bindings'[ctl.user][l] = n
      <4>1. \A l \in Levels : l <= ctl.level => bindings'[ctl.user][l] = n
        <5>1. \A l \in Levels : l <= ctl.level => l < ctl.level \/ l = ctl.level
          BY <1>b DEF Levels
        <5> QED BY <2>3, <3>1, <3>2, <5>1
      <4>2. CASE ctl.level = d
        <5>1. ctl'.step = "conditions"
          BY <1>a, <3>2, <4>2 DEF NextLevel, Conclude, Ctl
        <5>2. \A l \in 1 .. d : l \in Levels /\ l <= ctl.level
          BY <1>b, <4>2
        <5> QED BY <4>1, <5>1, <5>2
      <4>3. CASE ctl.level # d
        <5>1. ctl'.step = "bind" /\ ctl'.level = ctl.level + 1
          BY <1>a, <3>1, <3>2, <4>3 DEF NextLevel, Ctl
        <5>2. \A l \in Levels : l < ctl.level + 1 => l <= ctl.level
          BY <1>b DEF Levels
        <5> QED BY <4>1, <5>1, <5>2
      <4> QED BY <4>2, <4>3
    <3>3. ASSUME NEW error \in {"exists", "missing"}, Conclude(NotReady(error, ctl.level))
          PROVE  ctl'.step = "conditions" /\ ctl'.authz # Ready
      BY <1>a, <3>3, NotReadyIs DEF Conclude, Ctl
    <3>4. \/ NextLevel /\ bindings'[ctl.user][ctl.level] = n
          \/ \E error \in {"exists", "missing"} : Conclude(NotReady(error, ctl.level))
      BY <1>a, <2>1, <2>7, BindMakes
    <3> QED BY <3>2, <3>3, <3>4
  <2> QED BY <1>3, <2>4, <2>5, <2>6, <2>7
<1> QED BY <1>1, <1>2, <1>3, <1>a DEF Move, ControllerMove, Goes, ControllerSteps

LEMMA CopySeenMoves ==
  ASSUME RolesInv, RolesInv', Latest, CopySeen, Move, ControllerSteps
  PROVE  CopySeen'
<1>a. TypeOK /\ MemberStep /\ ctl \in Ctl /\ ctl.user \in Users
  BY DEF RolesInv, TypeInv, TypeOK, Move, Ctl
<1>1. CASE ctl' = Idle \/ (UNCHANGED ctl /\ ctl.step = "idle")
  BY <1>1, Defaults DEF CopySeen
<1>2. ASSUME NEW u \in Users, Starts(u) PROVE CopySeen'
  BY <1>2 DEF Starts, StartReconcile, memberVars, CopySeen
<1>3. ASSUME ctl.step # "idle", ctl'.step # "idle", ctl'.user = ctl.user, ctl'.copy = ctl.copy,
             UNCHANGED ctl \/ Bind \/ PatchConditions \/ Reports \/ Fails
      PROVE  CopySeen'
  <2> SUFFICES ASSUME ~Behind(ctl.user)'
               PROVE  /\ ctl.copy = memberCache'[ctl.user]
                      /\ ctl'.step = "status" /\ ~ctl'.failed => ctl'.authz = ctl.copy.authz
    BY <1>3 DEF CopySeen
  <2>1. PICK u \in Users : u = ctl.user
    BY <1>a
  <2>2. ~Behind(u)'
    BY <1>3, <2>1 DEF Behind
  <2>3. ~Restart /\ queue \subseteq queue'
    BY <1>3, Defaults DEF Restart, StartReconcile, Move, QueueStep
  <2>4. ~Behind(u) /\ memberCache'[u] = memberCache[u] /\ members'[u] = members[u]
    BY <1>a, <2>2, <2>3, Calm
  <2>5. ctl.copy = memberCache'[ctl.user] /\ memberCache[u] = members[u]
    BY <1>3, <1>a, <2>1, <2>4, NotBehind DEF CopySeen
  <2>6. ctl.step = "status" /\ ~ctl.failed => ctl.authz = ctl.copy.authz
    BY <1>3, <2>1, <2>4 DEF CopySeen
  <2>7. CASE UNCHANGED ctl
    BY <2>5, <2>6, <2>7
  <2>8. CASE Bind \/ Reports \/ Fails
    BY <1>a, <2>5, <2>8 DEF Bind, NextLevel, Conclude, Reports, Fails, Ctl
  <2>9. CASE PatchConditions
    <3>1. ctl'.authz = ctl.authz
      BY <1>a, <2>9 DEF PatchConditions, Ctl
    <3>2. ASSUME ctl.authz # ctl.copy.authz, ~ctl'.failed PROVE FALSE
      <4>1. M!Write([members EXCEPT ![ctl.user].authz = ctl.authz])
        BY <1>a, <2>9, <3>2 DEF PatchConditions, Ctl
      <4>2. members'[u].authz = ctl.authz
        BY <1>a, <2>1, <4>1 DEF M!Write, TypeOK, MemberStore, Member
      <4> QED BY <2>1, <2>4, <2>5, <3>2, <4>2
    <3> QED BY <2>5, <3>1, <3>2
  <2> QED BY <1>3, <2>7, <2>8, <2>9
<1> QED BY <1>1, <1>2, <1>3, <1>a DEF Move, ControllerMove, Goes, ControllerSteps

\* A reconciliation that ends without leaving its key in the queue has done all it had to do.
LEMMA Ends ==
  ASSUME RolesInv, Next, ctl.step # "idle", ctl'.step = "idle", ~Restart, ctl.user \notin queue'
  PROVE  ctl.step = "status" /\ ~ctl.failed /\ UNCHANGED bindingVars /\ UNCHANGED held
<1>a. ctl \in Ctl
  BY DEF RolesInv, TypeInv, TypeOK, Ctl
<1>1. ASSUME PatchStatus
      PROVE  ctl.step = "status" /\ ~ctl.failed /\ UNCHANGED bindingVars /\ UNCHANGED held
  BY <1>1 DEF PatchStatus, Finish
<1>2. ~ControllerError
  BY <1>a DEF ControllerError, Conclude, Finish, Ctl
<1>3. ~Bind /\ ~PatchConditions
  BY <1>a DEF Bind, NextLevel, Conclude, PatchConditions, Ctl
<1>4. \A u \in Users, role \in Roles : ~CreateMember(u, role) /\ ~ChangeRole(u, role)
  BY DEF CreateMember, ChangeRole
<1>5. \A u \in Users, l \in Levels :
        ~DeleteOrganizationMember(u) /\ ~RegisterUser(u) /\ ~StartReconcile(u) /\ ~CollectBinding(u, l)
  BY DEF DeleteOrganizationMember, RegisterUser, StartReconcile, CollectBinding
<1>6. ~DeliverMember /\ ~DeliverBinding /\ ~Resync
  BY DEF DeliverMember, DeliverBinding, Resync
<1>7. Levels # {}
  BY DEF Levels
<1> QED BY <1>1, <1>2, <1>3, <1>4, <1>5, <1>6, <1>7 DEF Next, Controller

LEMMA ReportsMove ==
  ASSUME ReportInv, RolesInv', Latest', Grown, Move, Next
  PROVE  WrongReportPending'
<1>a. /\ RolesInv /\ TypeOK /\ TypeOK' /\ MemberStep /\ Latest /\ BindingKnown /\ CopyKnown
      /\ Progress /\ CopySeen /\ WrongReportPending /\ ctl.user \in Users /\ ctl.copy \in Member
  BY ReportParts DEF RolesInv, TypeInv, TypeOK, Move
<1> SUFFICES ASSUME NEW u \in Users, members'[u].uid # 0, members'[u].authz = Ready, ~Pending(u)'
             PROVE  Bound(u, members[u].uid)'
  BY DEF WrongReportPending
<1>b. ~Behind(u)' /\ ~Active(u)'
  BY DEF Pending, Behind, Active
<1>c. ~Restart
  BY <1>b DEF Restart, Behind, M!Relist
<1>d. ASSUME members'[u] = members[u], Bound(u, members[u].uid), members[u].uid \in Uids
      PROVE  Bound(u, members[u].uid)'
  <2>1. PICK role \in held[members[u].uid] :
          \A l \in 1 .. Depth(role) : bindings[u][l] = members[u].uid
    BY <1>d DEF Bound
  <2>2. role \in Roles /\ role \in held'[members[u].uid]
    BY <1>a, <1>d, <2>1 DEF Grown, TypeOK
  <2>3. 1 .. Depth(role) \subseteq Levels
    BY <2>2, DepthType DEF Levels
  <2>4. \A l \in 1 .. Depth(role) : bindings'[u][l] = members[u].uid
    BY <1>a, <1>d, <2>1, <2>3, BindingStays
  <2> QED BY <1>d, <2>2, <2>4 DEF Bound
<1>e. members[u].uid # 0 => members[u].uid \in Uids
  <2>1. members \in MemberStore
    BY <1>a DEF TypeOK
  <2>2. members[u].uid \in 0 .. MaxUid
    BY <2>1 DEF MemberStore, Member
  <2> QED BY <2>2, MembersAssumption DEF Uids
<1>1. ASSUME NEW v \in Users, StartReconcile(v) PROVE Bound(u, members[u].uid)'
  <2>1. UNCHANGED memberVars /\ ctl.step = "idle" /\ queue' = queue \ {v}
    BY <1>1 DEF StartReconcile
  <2>2. CASE u # v
    <3>1. ~Pending(u)
      BY <1>b, <2>1, <2>2 DEF Pending, Behind, memberVars
    <3> QED BY <1>a, <1>d, <1>e, <2>1, <3>1 DEF WrongReportPending, memberVars
  <2>3. CASE u = v
    <3>1. memberCache[u].uid = 0
      BY <1>1, <1>b, <2>3 DEF StartReconcile, Active, Idle
    <3>2. \A i \in 1 .. Len(memberWatch) : memberWatch[i][u] = memberCache[u]
      BY <1>b, <2>1 DEF Behind, memberVars
    <3>3. memberWatch # << >> => Len(memberWatch) \in 1 .. Len(memberWatch)
      BY <1>a, LenProperties, EmptySeq DEF TypeOK
    <3>4. memberCache[u] = members[u]
      BY <1>a, <3>2, <3>3 DEF Latest
    <3> QED BY <2>1, <3>1, <3>4 DEF memberVars
  <2> QED BY <2>2, <2>3
<1>2. ASSUME \A v \in Users : ~StartReconcile(v) PROVE Bound(u, members[u].uid)'
  <2>1. queue \subseteq queue'
    BY <1>2, <1>c DEF Move, QueueStep
  <2>2. ~Behind(u) /\ members'[u] = members[u] /\ memberCache[u] = members[u]
    BY <1>a, <1>b, <1>c, <2>1, Calm, NotBehind
  <2>3. CASE ~Active(u)
    <3>1. ~Pending(u)
      BY <2>2, <2>3 DEF Pending, Behind, Active
    <3> QED BY <1>a, <1>d, <1>e, <2>2, <3>1 DEF WrongReportPending
  <2>4. CASE Active(u)
    <3>1. u = ctl.user /\ ctl.step # "idle"
      BY <2>4 DEF Active
    <3>2. ctl'.step = "idle"
      BY <1>2, <1>b, <3>1, Defaults DEF Active, Move, ControllerMove, Goes, Starts
    <3>3. ctl.step = "status" /\ ~ctl.failed
      BY <1>a, <1>b, <1>c, <3>1, <3>2, Ends DEF Behind
    <3>4. ctl.copy = members[u] /\ ctl.authz = Ready
      BY <1>a, <2>2, <3>1, <3>3 DEF CopySeen
    <3>5. \A l \in 1 .. Depth(ctl.copy.role) : bindings[u][l] = members[u].uid
      BY <1>a, <3>1, <3>3, <3>4 DEF Progress
    <3>6. ctl.copy.role \in held[members[u].uid]
      BY <1>a, <3>1, <3>4 DEF CopyKnown
    <3>7. Bound(u, members[u].uid)
      BY <3>5, <3>6 DEF Bound
    <3> QED BY <1>d, <1>e, <2>2, <3>7
  <2> QED BY <2>3, <2>4
<1> QED BY <1>1, <1>2

LEMMA ReportInit == Init => ReportInv
<1> SUFFICES ASSUME Init PROVE ReportInv
  OBVIOUS
<1>1. RolesInv /\ TypeOK
  BY InitRoles DEF RolesInv, TypeInv
<1>2. ctl.step = "idle" /\ Len(memberWatch) = 0
  BY Defaults, EmptySeq DEF Init
<1>3. \A u \in Users : members[u].uid = 0
  BY DEF Init, NoMember
<1>4. bindings \in Kept
  BY <1>1, <1>3 DEF Kept, TypeOK
<1>5. BindingsIn(Kept)
  BY <1>4, EmptySeq DEF Init, BindingsIn
<1>6. \A u \in Users, l \in Levels : bindings[u][l] = 0
  BY DEF Init
<1> QED BY <1>1, <1>2, <1>3, <1>5, <1>6, ReportParts
     DEF Init, Latest, UidOrder, CopyKnown, BindingKnown, Progress, CopySeen, WrongReportPending

LEMMA ReportNext == ASSUME ReportInv, Next PROVE ReportInv'
<1>1. RolesInv /\ RolesInv' /\ Grown /\ Move /\ ControllerSteps
  BY ReportParts, NextRoles, HeldGrows, Moves, StepsOfController DEF RolesInv
<1>2. TypeOK /\ MemberStep
  BY <1>1 DEF RolesInv, TypeInv, Move
<1>3. Latest' /\ UidOrder'
  BY <1>1, <1>2, ReportParts, LatestMoves, UidOrderMoves
<1>4. CopyKnown' /\ BindingKnown' /\ BindingsIn(Kept)'
  BY <1>1, ReportParts, CopyKnownMoves, BindingKnownMoves, KeptMoves
<1>5. Progress' /\ CopySeen'
  BY <1>1, ReportParts, ProgressMoves, CopySeenMoves DEF OwnerInv
<1>6. WrongReportPending'
  BY <1>1, <1>3, ReportsMove
<1> QED BY <1>1, <1>3, <1>4, <1>5, <1>6 DEF ReportInv, OrderInv, OwnerInv

(***************************************************************************)
(* WrongReportPending: a member that is reported as authorized and lacks a  *)
(* binding is in the queue, or under way, or about to be delivered.  It     *)
(* needs that a copy of the member never goes back to an earlier member of  *)
(* the name, so that the controller takes no binding from the present one.  *)
(***************************************************************************)
THEOREM ReportsArePending == Spec => []WrongReportPending
<1>1. ReportInv /\ UNCHANGED vars => ReportInv'
  <2> SUFFICES ASSUME ReportInv, UNCHANGED vars PROVE ReportInv'
    OBVIOUS
  <2>1. RolesInv'
    BY ReportParts DEF RolesInv, TypeInv, TypeOK, WithinDepth, MembersIn, BindingsIn, CopyGranted, vars
  <2>2. Latest' /\ UidOrder' /\ CopyKnown' /\ BindingKnown'
    BY ReportParts DEF Latest, UidOrder, Everywhere, CopyKnown, BindingKnown, Active, vars
  <2>3. BindingsIn(Kept)' /\ Progress'
    BY ReportParts DEF BindingsIn, Kept, Progress, vars
  <2>4. CopySeen' /\ WrongReportPending'
    BY ReportParts DEF CopySeen, Behind, WrongReportPending, Bound, Pending, vars
  <2> QED BY <2>1, <2>2, <2>3, <2>4 DEF ReportInv, OrderInv, OwnerInv
<1>2. ReportInv => WrongReportPending
  BY DEF ReportInv
<1> QED BY <1>1, <1>2, ReportInit, ReportNext, PTL DEF Spec

=============================================================================
