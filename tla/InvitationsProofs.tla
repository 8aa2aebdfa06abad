-------------------------- MODULE InvitationsProofs --------------------------
(***************************************************************************)
(* Theorems about Invitations for any number of invitations, users and      *)
(* concurrent acceptances, any delay of the informer and any number of      *)
(* failures.                                                                *)
(***************************************************************************)
EXTENDS Invitations, SequenceTheorems, TLAPS

\* Every version of the invitations is in S.
InvitesIn(S) == invites \in S /\ inviteCache \in S /\ inviteWatch \in Seq(S)

LEMMA InviteWrite ==
  ASSUME NEW S, InvitesIn(S), NEW s \in S, I!Write(s)
  PROVE  invites' \in S /\ inviteCache' \in S /\ inviteWatch' \in Seq(S)
BY AppendProperties DEF InvitesIn, I!Write

LEMMA InviteRead ==
  ASSUME NEW S, InvitesIn(S), I!Deliver \/ I!Relist
  PROVE  invites' \in S /\ inviteCache' \in S /\ inviteWatch' \in Seq(S)
<1>1. CASE I!Deliver
  BY <1>1, HeadTailProperties DEF InvitesIn, I!Deliver
<1>2. CASE I!Relist
  BY <1>2, EmptySeq DEF InvitesIn, I!Relist
<1> QED BY <1>1, <1>2

LEMMA InviteMove ==
  ASSUME NEW S, InvitesIn(S), NEW s \in S, I!Write(s) \/ UNCHANGED inviteVars
  PROVE  invites' \in S /\ inviteCache' \in S /\ inviteWatch' \in Seq(S)
BY InviteWrite DEF inviteVars, InvitesIn

-----------------------------------------------------------------------------
(* Types *)

Ctl == [step: {"idle", "delete", "requeue"}, invite: Invites, stamped: BOOLEAN]
Call == [step: {"idle", "member", "delete"}, invite: Invites]

LocalTypes ==
    /\ members \subseteq Users
    /\ expired \subseteq Invites /\ queue \subseteq Invites /\ timers \subseteq Invites
    /\ ctl \in Ctl
    /\ call \in [Calls -> Call]
    /\ accepted \subseteq Invites /\ withdrawn \subseteq Invites
    /\ faults \in 0 .. MaxFaults

LEMMA TypeOKParts == TypeOK <=> InvitesIn(InviteStore) /\ LocalTypes
BY DEF TypeOK, InvitesIn, LocalTypes, Ctl, Call

LEMMA Defaults == AnyInvite \in Invites /\ (CHOOSE u \in Users : TRUE) \in Users
                  /\ IdleController \in Ctl /\ IdleCall \in Call
BY InvitationsAssumption DEF AnyInvite, IdleController, IdleCall, Ctl, Call

LEMMA InitTypes == Init => TypeOK
<1> SUFFICES ASSUME Init PROVE TypeOK
  OBVIOUS
<1>1. InvitesIn(InviteStore)
  BY Defaults, EmptySeq DEF Init, InvitesIn, InviteStore, Invitation, Phase
<1>2. LocalTypes
  BY Defaults, InvitationsAssumption DEF Init, LocalTypes
<1> QED BY <1>1, <1>2, TypeOKParts

LEMMA PhaseTypes ==
  ASSUME TypeOK, NEW i \in Invites, NEW phase \in Phase
  PROVE  [invites EXCEPT ![i].phase = phase] \in InviteStore
BY DEF TypeOK, InviteStore, Invitation

LEMMA NextTypes == ASSUME TypeOK, Next PROVE TypeOK'
<1> USE Defaults
<1> DEFINE InvitesInPrime == /\ invites' \in InviteStore /\ inviteCache' \in InviteStore
                             /\ inviteWatch' \in Seq(InviteStore)
<1>a. InvitesIn(InviteStore) /\ LocalTypes
  BY TypeOKParts
<1>b. InvitesInPrime /\ LocalTypes' => TypeOK'
  BY DEF TypeOK, LocalTypes, Ctl, Call
<1>c. UNCHANGED inviteVars => InvitesInPrime
  BY <1>a DEF inviteVars, InvitesIn
<1>d. \A i \in Invites, phase \in Phase :
        I!Write([invites EXCEPT ![i].phase = phase]) => InvitesInPrime
  BY <1>a, PhaseTypes, InviteWrite
<1>e. \A i \in Invites : Delete(i) => InvitesInPrime
  <2> SUFFICES ASSUME NEW i \in Invites, Delete(i) PROVE InvitesInPrime
    OBVIOUS
  <2> DEFINE x == IF invites[i].phase = "live" THEN "gone" ELSE invites[i].phase
  <2>1. x \in Phase
    BY DEF TypeOK, InviteStore, Invitation, Phase
  <2>2. I!Write([invites EXCEPT ![i].phase = x])
    BY DEF Delete
  <2> QED BY <1>d, <2>1, <2>2
<1>f. \A p \in Calls, step \in {"member", "delete"}, i \in Invites :
        Goto(p, step, i) \/ Return(p) => call' \in [Calls -> Call]
  BY <1>a DEF Goto, Return, LocalTypes, Call
<1>g. ctl.invite \in Invites /\ ctl.stamped \in BOOLEAN /\ ctl.step \in {"idle", "delete", "requeue"}
  BY <1>a DEF LocalTypes, Ctl
<1>h. Done \/ Retry => ctl' \in Ctl /\ queue' \subseteq Invites
  BY <1>a, <1>g DEF Done, Retry, LocalTypes
<1>1. ASSUME NEW i \in Invites, NEW u \in Users, NEW expires \in BOOLEAN,
             CreateOrganizationInvitation(i, u, expires)
      PROVE  TypeOK'
  <2> DEFINE x == [phase |-> "live", user |-> u, expires |-> expires, stamped |-> FALSE]
  <2>1. [invites EXCEPT ![i] = x] \in InviteStore
    BY DEF TypeOK, InviteStore, Invitation, Phase
  <2>2. InvitesInPrime
    BY <1>1, <1>a, <2>1, InviteWrite DEF CreateOrganizationInvitation
  <2> QED BY <1>1, <1>a, <1>b, <2>2 DEF CreateOrganizationInvitation, LocalTypes, history
<1>2. ASSUME NEW i \in Invites, Withdraw(i)
      PROVE  TypeOK'
  BY <1>2, <1>a, <1>b, <1>e DEF Withdraw, LocalTypes
<1>3. ASSUME NEW u \in Users, DeleteOrganizationMember(u)
      PROVE  TypeOK'
  BY <1>3, <1>a, <1>b, <1>c DEF DeleteOrganizationMember, LocalTypes, history
<1>4. ASSUME NEW p \in Calls, NEW u \in Users, AcceptList(p, u)
      PROVE  TypeOK'
  <2>1. call' \in [Calls -> Call]
    BY <1>4, <1>f DEF AcceptList
  <2> QED BY <1>4, <1>a, <1>b, <1>c, <2>1 DEF AcceptList, LocalTypes, history
<1>5. ASSUME NEW p \in Calls, AcceptMember(p)
      PROVE  TypeOK'
  <2>1. call[p].invite \in Invites /\ invites[call[p].invite].user \in Users
    BY DEF TypeOK, InviteStore, Invitation
  <2>2. call' \in [Calls -> Call]
    BY <1>5, <1>f, <2>1 DEF AcceptMember
  <2>3. members' \subseteq Users /\ accepted' \subseteq Invites
    BY <1>5, <1>a, <2>1 DEF AcceptMember, LocalTypes
  <2> QED BY <1>5, <1>a, <1>b, <1>c, <2>2, <2>3 DEF AcceptMember, LocalTypes
<1>6. ASSUME NEW p \in Calls, AcceptDelete(p)
      PROVE  TypeOK'
  <2>1. call[p].invite \in Invites
    BY DEF TypeOK
  <2>2. InvitesInPrime
    BY <1>6, <1>e, <2>1 DEF AcceptDelete
  <2>3. call' \in [Calls -> Call]
    BY <1>6, <1>f, <2>1 DEF AcceptDelete
  <2> QED BY <1>6, <1>a, <1>b, <2>2, <2>3 DEF AcceptDelete, LocalTypes, history
<1>7. ASSUME NEW i \in Invites, StartReconcile(i)
      PROVE  TypeOK'
  <2>1. inviteCache[i].stamped \in BOOLEAN
    BY DEF TypeOK, InviteStore, Invitation
  <2>2. ctl' \in Ctl
    BY <1>7, <2>1 DEF StartReconcile, Ctl
  <2> QED BY <1>7, <1>a, <1>b, <1>c, <2>2 DEF StartReconcile, LocalTypes, history
<1>8. ASSUME DeleteExpired
      PROVE  TypeOK'
  <2>1. InvitesInPrime
    BY <1>8, <1>c, <1>d, <1>g DEF DeleteExpired, Phase
  <2>2. ctl' \in Ctl /\ queue' \subseteq Invites
    BY <1>8, <1>a, <1>g, <1>h DEF DeleteExpired, LocalTypes, Ctl
  <2>3. withdrawn' \subseteq Invites
    BY <1>8, <1>a, <1>g DEF DeleteExpired, LocalTypes
  <2> QED BY <1>8, <1>a, <1>b, <2>1, <2>2, <2>3 DEF DeleteExpired, LocalTypes
<1>9. ASSUME Requeue
      PROVE  TypeOK'
  <2>1. [invites EXCEPT ![ctl.invite].stamped = TRUE] \in InviteStore
    BY DEF TypeOK, InviteStore, Invitation
  <2>2. I!Write([invites EXCEPT ![ctl.invite].stamped = TRUE]) \/ UNCHANGED inviteVars
    BY <1>9 DEF Requeue
  <2>3. InvitesInPrime
    BY <1>a, <2>1, <2>2, InviteMove
  <2>4. timers' \subseteq Invites
    BY <1>9, <1>a, <1>g DEF Requeue, LocalTypes
  <2>5. ctl' \in Ctl /\ queue' \subseteq Invites
    BY <1>9, <1>h DEF Requeue
  <2> QED BY <1>9, <1>a, <1>b, <2>3, <2>4, <2>5 DEF Requeue, LocalTypes, history
<1>10. ASSUME NEW i \in Invites, TimerFires(i) \/ Expire(i)
       PROVE  TypeOK'
  BY <1>10, <1>a, <1>b, <1>c DEF TimerFires, Expire, LocalTypes, history
<1>11. ASSUME DeliverInvite
       PROVE  TypeOK'
  <2>1. InvitesInPrime
    BY <1>11, <1>a, InviteRead DEF DeliverInvite
  <2> QED BY <1>11, <1>a, <1>b, <2>1 DEF DeliverInvite, LocalTypes, history
<1>12. ASSUME Resync
       PROVE  TypeOK'
  BY <1>12, <1>a, <1>b, <1>c DEF Resync, LocalTypes, history
<1>13. ASSUME NEW i \in Invites, Collect(i)
       PROVE  TypeOK'
  <2>1. InvitesInPrime
    BY <1>13, <1>d DEF Collect, Phase
  <2> QED BY <1>13, <1>a, <1>b, <2>1 DEF Collect, LocalTypes, history
<1>14. Fault => faults' \in 0 .. MaxFaults
  BY InvitationsAssumption DEF TypeOK, Fault
<1>15. ASSUME ControllerError
       PROVE  TypeOK'
  BY <1>15, <1>14, <1>a, <1>b, <1>c, <1>h DEF ControllerError, LocalTypes, history
<1>16. ASSUME NEW p \in Calls, CallError(p)
       PROVE  TypeOK'
  <2>1. call' \in [Calls -> Call]
    BY <1>16, <1>f DEF CallError
  <2> QED BY <1>16, <1>14, <1>a, <1>b, <1>c, <2>1 DEF CallError, LocalTypes, history
<1>17. ASSUME Restart
       PROVE  TypeOK'
  <2>1. InvitesInPrime
    BY <1>17, <1>a, InviteRead DEF Restart
  <2>2. call' \in [Calls -> Call]
    BY <1>17 DEF Restart
  <2> QED BY <1>17, <1>14, <1>a, <1>b, <2>1, <2>2 DEF Restart, LocalTypes, history
<1> QED
  BY <1>1, <1>2, <1>3, <1>4, <1>5, <1>6, <1>7, <1>8, <1>9, <1>10, <1>11, <1>12, <1>13,
     <1>15, <1>16, <1>17
  DEF Next, Handler, Controller, Environment, DeleteOrganizationInvitation,
      DeleteGlobalInvitation

(***************************************************************************)
(* Every variable keeps its type.                                           *)
(***************************************************************************)
THEOREM InvitationsTyped == Spec => []TypeOK
<1>1. TypeOK /\ UNCHANGED vars => TypeOK'
  BY DEF TypeOK, vars
<1> QED BY <1>1, InitTypes, NextTypes, PTL DEF Spec

-----------------------------------------------------------------------------
(* Invitations are neither lost nor left behind *)

(***************************************************************************)
(* What the informer knows to have been created has been: no version shows  *)
(* an invitation that the store does not have yet.                          *)
(***************************************************************************)
Created == {i \in Invites : invites[i].phase # "free"}
KnownBy(C) == {s \in InviteStore : \A i \in Invites : s[i].phase # "free" => i \in C}

(***************************************************************************)
(* The inductive invariant.  A call holds an invitation that was created;   *)
(* one that is about to delete it has made a member of it; one in deletion  *)
(* was withdrawn.                                                           *)
(***************************************************************************)
ConsumedInv ==
    /\ InvitesIn(KnownBy(Created))
    /\ \A p \in Calls : call[p].step # "idle" => call[p].invite \in Created
    /\ \A p \in Calls : call[p].step = "delete" => call[p].invite \in accepted
    /\ accepted \cup withdrawn \subseteq Created
    /\ \A i \in Invites : invites[i].phase = "deleting" => i \in withdrawn
    /\ InvitationNotLost
    /\ AcceptedConsumed

LEMMA InitConsumed == Init => ConsumedInv
<1> SUFFICES ASSUME Init PROVE ConsumedInv
  OBVIOUS
<1>1. invites \in InviteStore
  BY InitTypes DEF TypeOK
<1>2. InvitesIn(KnownBy(Created))
  BY <1>1, EmptySeq DEF Init, InvitesIn, KnownBy, Created
<1> QED BY <1>2, Defaults DEF Init, ConsumedInv, Created, IdleCall, InvitationNotLost, AcceptedConsumed

(***************************************************************************)
(* A step that moves one invitation forward, never back to not created,     *)
(* keeps the informer's knowledge.                                          *)
(***************************************************************************)
LEMMA KnownStep ==
  ASSUME TypeOK, TypeOK', InvitesIn(KnownBy(Created)), Created \subseteq Created',
         \/ I!Write(invites') \/ UNCHANGED inviteVars
         \/ I!Deliver \/ I!Relist
  PROVE  InvitesIn(KnownBy(Created))'
<1> DEFINE S == KnownBy(Created')
<1>1. KnownBy(Created) \subseteq S
  BY DEF KnownBy
<1>2. InvitesIn(S)
  BY <1>1, SeqMonotonic DEF InvitesIn
<1>3. invites' \in S
  BY DEF TypeOK, KnownBy, Created
<1>4. invites' \in S /\ inviteCache' \in S /\ inviteWatch' \in Seq(S)
  BY <1>2, <1>3, InviteMove, InviteRead
<1> QED BY <1>4 DEF InvitesIn

\* Nothing that was created is forgotten.
LEMMA CreatedStep ==
  ASSUME TypeOK, ConsumedInv, Next
  PROVE  /\ Created \subseteq Created'
         /\ \/ I!Write(invites') \/ UNCHANGED inviteVars
            \/ I!Deliver \/ I!Relist
<1> DEFINE Moved == /\ Created \subseteq Created'
                    /\ I!Write(invites') \/ UNCHANGED inviteVars \/ I!Deliver \/ I!Relist
<1>a. invites \in InviteStore
  BY DEF TypeOK
<1>b. UNCHANGED inviteVars => Moved
  BY DEF inviteVars, Created
<1>c. I!Deliver \/ I!Relist => Moved
  BY DEF I!Deliver, I!Relist, Created
<1>d. \A i \in Created : Delete(i) => Moved
  <2> SUFFICES ASSUME NEW i \in Created, Delete(i) PROVE Moved
    OBVIOUS
  <2>1. i \in Invites
    BY DEF Created
  <2>2. invites' = [invites EXCEPT ![i].phase = IF @ = "live" THEN "gone" ELSE @]
    BY DEF Delete, I!Write
  <2>3. I!Write(invites')
    BY <2>2 DEF Delete
  <2>4. Created \subseteq Created'
    BY <1>a, <2>1, <2>2 DEF Created, InviteStore, Invitation
  <2> QED BY <2>3, <2>4
<1>1. ASSUME NEW i \in Invites, NEW u \in Users, NEW expires \in BOOLEAN,
             CreateOrganizationInvitation(i, u, expires)
      PROVE  Moved
  BY <1>1, <1>a DEF CreateOrganizationInvitation, I!Write, InviteStore, Created
<1>2. ASSUME NEW i \in Invites, Withdraw(i)
      PROVE  Moved
  BY <1>2, <1>d DEF Withdraw, Created
<1>3. ASSUME NEW p \in Calls, AcceptDelete(p)
      PROVE  Moved
  BY <1>3, <1>d DEF AcceptDelete, ConsumedInv
<1>4. ASSUME DeleteExpired
      PROVE  Moved
  <2>1. ASSUME I!Write([invites EXCEPT ![ctl.invite].phase = "deleting"])
        PROVE  Moved
    BY <1>a, <2>1 DEF I!Write, InviteStore, Invitation, Created
  <2> QED BY <1>4, <1>b, <2>1 DEF DeleteExpired
<1>5. ASSUME Requeue
      PROVE  Moved
  <2>1. ASSUME I!Write([invites EXCEPT ![ctl.invite].stamped = TRUE])
        PROVE  Moved
    BY <1>a, <2>1 DEF I!Write, InviteStore, Invitation, Created
  <2> QED BY <1>5, <1>b, <2>1 DEF Requeue
<1>6. ASSUME NEW i \in Invites, Collect(i)
      PROVE  Moved
  BY <1>6, <1>a DEF Collect, I!Write, InviteStore, Invitation, Created
<1>7. CASE DeliverInvite \/ Restart
  BY <1>7, <1>c DEF DeliverInvite, Restart
<1>8. ASSUME NEW i \in Invites, StartReconcile(i) \/ TimerFires(i) \/ Expire(i)
      PROVE  Moved
  BY <1>8, <1>b DEF StartReconcile, TimerFires, Expire
<1>9. ASSUME NEW p \in Calls, NEW u \in Users, AcceptList(p, u)
      PROVE  Moved
  BY <1>9, <1>b DEF AcceptList
<1>10. CASE Resync \/ ControllerError
  BY <1>10, <1>b DEF Resync, ControllerError
<1>11. ASSUME NEW p \in Calls, AcceptMember(p) \/ CallError(p)
       PROVE  Moved
  BY <1>11, <1>b DEF AcceptMember, CallError
<1>12. ASSUME NEW u \in Users, DeleteOrganizationMember(u)
       PROVE  Moved
  BY <1>12, <1>b DEF DeleteOrganizationMember
<1> QED
  BY <1>1, <1>2, <1>3, <1>4, <1>5, <1>6, <1>7, <1>8, <1>9, <1>10, <1>11, <1>12
  DEF Next, Handler, Controller, Environment, DeleteOrganizationInvitation,
      DeleteGlobalInvitation

\* The rest of the invariant: calls, histories and the two properties.
Consumed ==
    /\ \A p \in Calls : call[p].step # "idle" => call[p].invite \in Created
    /\ \A p \in Calls : call[p].step = "delete" => call[p].invite \in accepted
    /\ accepted \cup withdrawn \subseteq Created
    /\ \A i \in Invites : invites[i].phase = "deleting" => i \in withdrawn
    /\ InvitationNotLost
    /\ AcceptedConsumed

LEMMA ConsumedStep ==
  ASSUME TypeOK, TypeOK', ConsumedInv, Next
  PROVE  Consumed'
<1> USE DEF Consumed, InvitationNotLost, AcceptedConsumed
<1>a. /\ invites \in InviteStore /\ inviteCache \in InviteStore
      /\ call \in [Calls -> Call] /\ accepted \subseteq Invites /\ withdrawn \subseteq Invites
  BY DEF TypeOK, Call
<1>b. /\ Consumed
      /\ \A i \in Invites : inviteCache[i].phase # "free" => i \in Created
  BY DEF ConsumedInv, InvitesIn, KnownBy
<1>c. Created \subseteq Created'
  BY CreatedStep
<1>d. faults \in Nat /\ faults' \in Nat
  BY InvitationsAssumption DEF TypeOK
<1>e. ASSUME UNCHANGED <<invites, call, accepted, withdrawn, faults>>
      PROVE  Consumed'
  BY <1>b, <1>e DEF Created
<1>f. \A u \in Users : \A i \in Addressed(u) : i \in Created
  BY <1>b DEF Addressed, Present
<1>g. ASSUME Fault, UNCHANGED <<invites, accepted, withdrawn>>,
             \A p \in Calls : call'[p] \in {call[p], IdleCall}
      PROVE  Consumed'
  <2>1. faults' > 0
    BY <1>d, <1>g DEF Fault
  <2> QED BY <1>b, <1>g, <2>1 DEF Created, IdleCall
<1>1. ASSUME NEW i \in Invites, NEW u \in Users, NEW expires \in BOOLEAN,
             CreateOrganizationInvitation(i, u, expires)
      PROVE  Consumed'
  <2>1. /\ invites' = [invites EXCEPT ![i] = [phase |-> "live", user |-> u,
                                             expires |-> expires, stamped |-> FALSE]]
        /\ invites[i].phase = "free"
        /\ UNCHANGED <<call, accepted, withdrawn, faults>>
    BY <1>1 DEF CreateOrganizationInvitation, I!Write, history
  <2> QED BY <1>a, <1>b, <1>c, <2>1 DEF InviteStore, Created
<1>2. ASSUME NEW i \in Invites, Withdraw(i)
      PROVE  Consumed'
  <2>1. /\ invites' = [invites EXCEPT ![i].phase = IF @ = "live" THEN "gone" ELSE @]
        /\ invites[i].phase = "live"
        /\ withdrawn' = withdrawn \cup {i}
        /\ UNCHANGED <<call, accepted, faults>>
    BY <1>2 DEF Withdraw, Delete, I!Write
  <2> QED BY <1>a, <1>b, <1>c, <2>1 DEF InviteStore, Invitation, Created
<1>3. ASSUME NEW p \in Calls, NEW u \in Users, AcceptList(p, u)
      PROVE  Consumed'
  <2>1. PICK i \in Invites : Addressed(u) = {i} /\ Goto(p, "member", i)
    BY <1>3 DEF AcceptList
  <2>2. i \in Created /\ call[p].step = "idle"
    BY <1>3, <1>f, <2>1 DEF AcceptList
  <2> QED BY <1>3, <1>a, <1>b, <2>1, <2>2 DEF AcceptList, Goto, Call, Created, inviteVars, history
<1>4. ASSUME NEW p \in Calls, AcceptMember(p)
      PROVE  Consumed'
  <2> DEFINE i == call[p].invite
  <2>1. /\ call[p].step = "member"
        /\ UNCHANGED <<invites, withdrawn, faults>>
        /\ \/ call' = [call EXCEPT ![p] = IdleCall] /\ UNCHANGED accepted
           \/ /\ accepted' = accepted \cup {i}
              /\ call' = [call EXCEPT ![p] = [step |-> "delete", invite |-> i]]
    BY <1>4 DEF AcceptMember, Goto, Return, inviteVars
  <2>2. i \in Created /\ i \in Invites
    BY <1>a, <1>b, <2>1 DEF Call
  <2> QED BY <1>a, <1>b, <2>1, <2>2 DEF Call, IdleCall, Created
<1>5. ASSUME NEW p \in Calls, AcceptDelete(p)
      PROVE  Consumed'
  <2> DEFINE i == call[p].invite
  <2>1. /\ call[p].step = "delete"
        /\ invites' = [invites EXCEPT ![i].phase = IF @ = "live" THEN "gone" ELSE @]
        /\ call' = [call EXCEPT ![p] = IdleCall]
        /\ UNCHANGED <<accepted, withdrawn, faults>>
    BY <1>5 DEF AcceptDelete, Delete, I!Write, Return, history
  <2>2. i \in accepted /\ i \in Invites
    BY <1>a, <1>b, <2>1
  <2> QED BY <1>a, <1>b, <1>c, <2>1, <2>2 DEF InviteStore, Invitation, Call, IdleCall, Created
<1>6. ASSUME DeleteExpired
      PROVE  Consumed'
  <2> DEFINE i == ctl.invite
  <2>1. UNCHANGED <<call, accepted, faults>> /\ i \in Invites
    BY <1>6 DEF DeleteExpired, TypeOK
  <2>2. CASE UNCHANGED <<inviteVars, withdrawn>>
    BY <1>e, <2>1, <2>2 DEF inviteVars
  <2>3. CASE /\ invites' = [invites EXCEPT ![i].phase = "deleting"]
             /\ withdrawn' = withdrawn \cup {i}
    BY <1>a, <1>b, <1>c, <2>1, <2>3 DEF InviteStore, Invitation, Created
  <2> QED BY <1>6, <2>2, <2>3 DEF DeleteExpired, I!Write
<1>7. ASSUME Requeue
      PROVE  Consumed'
  <2> DEFINE i == ctl.invite
  <2>1. UNCHANGED <<call, accepted, withdrawn, faults>> /\ i \in Invites
    BY <1>7 DEF Requeue, TypeOK, history
  <2>2. CASE UNCHANGED invites
    BY <1>e, <2>1, <2>2
  <2>3. CASE invites' = [invites EXCEPT ![i].stamped = TRUE]
    BY <1>a, <1>b, <1>c, <2>1, <2>3 DEF InviteStore, Invitation, Created
  <2> QED BY <1>7, <2>2, <2>3 DEF Requeue, I!Write, inviteVars
<1>8. ASSUME NEW i \in Invites, Collect(i)
      PROVE  Consumed'
  <2>1. /\ invites[i].phase = "deleting"
        /\ invites' = [invites EXCEPT ![i].phase = "gone"]
        /\ UNCHANGED <<call, accepted, withdrawn, faults>>
    BY <1>8 DEF Collect, I!Write, history
  <2> QED BY <1>a, <1>b, <1>c, <2>1 DEF InviteStore, Invitation, Created
<1>9. ASSUME NEW i \in Invites, StartReconcile(i) \/ TimerFires(i) \/ Expire(i)
      PROVE  Consumed'
  BY <1>9, <1>e DEF StartReconcile, TimerFires, Expire, inviteVars, history
<1>10. ASSUME NEW u \in Users, DeleteOrganizationMember(u)
       PROVE  Consumed'
  BY <1>10, <1>e DEF DeleteOrganizationMember, inviteVars, history
<1>11. CASE DeliverInvite \/ Resync
  BY <1>11, <1>e DEF DeliverInvite, I!Deliver, Resync, inviteVars, history
<1>12. CASE ControllerError
  BY <1>12, <1>g DEF ControllerError, inviteVars, history
<1>13. ASSUME NEW p \in Calls, CallError(p)
       PROVE  Consumed'
  <2>1. \A q \in Calls : call'[q] \in {call[q], IdleCall}
    BY <1>13, <1>a DEF CallError, Return
  <2> QED BY <1>13, <1>g, <2>1 DEF CallError, inviteVars, history
<1>14. CASE Restart
  <2>1. \A q \in Calls : call'[q] \in {call[q], IdleCall}
    BY <1>14 DEF Restart
  <2> QED BY <1>14, <1>g, <2>1 DEF Restart, I!Relist, history
<1> QED
  BY <1>1, <1>2, <1>3, <1>4, <1>5, <1>6, <1>7, <1>8, <1>9, <1>10, <1>11, <1>12, <1>13, <1>14
  DEF Next, Handler, Controller, Environment, DeleteOrganizationInvitation,
      DeleteGlobalInvitation

LEMMA ConsumedInvStep == ASSUME TypeOK, ConsumedInv, [Next]_vars PROVE ConsumedInv'
<1>1. CASE Next
  <2>1. TypeOK'
    BY <1>1, NextTypes
  <2>2. InvitesIn(KnownBy(Created))'
    BY <1>1, <2>1, CreatedStep, KnownStep DEF ConsumedInv
  <2>3. Consumed'
    BY <1>1, <2>1, ConsumedStep
  <2> QED BY <2>2, <2>3 DEF ConsumedInv, Consumed
<1>2. CASE UNCHANGED vars
  BY <1>2 DEF vars, ConsumedInv, InvitesIn, KnownBy, Created, InvitationNotLost, AcceptedConsumed
<1> QED BY <1>1, <1>2

LEMMA AlwaysConsumed == Spec => []ConsumedInv
BY InvitationsTyped, InitConsumed, ConsumedInvStep, PTL DEF Spec

(***************************************************************************)
(* An acceptance that fails half-way, is repeated or runs beside another    *)
(* never loses the invitation: one that is gone was withdrawn or made a     *)
(* member.                                                                  *)
(***************************************************************************)
THEOREM NoInvitationLost == Spec => []InvitationNotLost
<1>1. ConsumedInv => InvitationNotLost
  BY DEF ConsumedInv
<1> QED BY <1>1, AlwaysConsumed, PTL

(***************************************************************************)
(* Without a failure, an accepted invitation is deleted by the call that    *)
(* accepted it, and none stays behind to be accepted again.                 *)
(***************************************************************************)
THEOREM AcceptedAreConsumed == Spec => []AcceptedConsumed
<1>1. ConsumedInv => AcceptedConsumed
  BY DEF ConsumedInv
<1> QED BY <1>1, AlwaysConsumed, PTL

-----------------------------------------------------------------------------
(* An invitation that has expired stays in deletion *)

\* Versions of what the store holds now: an invitation keeps its user, and is not back when gone.
Past == {s \in InviteStore : \A i \in Invites : s[i].phase # "free" =>
            /\ invites[i].phase # "free" /\ s[i].user = invites[i].user
            /\ s[i].phase = "gone" => invites[i].phase = "gone"}

\* Whatever the informer still has to show, it shows i as created.
Shown(i) ==
    /\ inviteCache[i].phase # "free"
    /\ \A k \in 1 .. Len(inviteWatch) : inviteWatch[k][i].phase # "free"

\* Once a version shows an invitation, all later ones do.
ShownOrder ==
    \A i \in Invites :
        /\ inviteCache[i].phase # "free" => Shown(i)
        /\ \A k, l \in 1 .. Len(inviteWatch) :
             k < l /\ inviteWatch[k][i].phase # "free" => inviteWatch[l][i].phase # "free"

(***************************************************************************)
(* The inductive invariant.  The controller, which alone puts invitations   *)
(* in deletion, works for one that the informer has shown, and the informer *)
(* does not forget it.                                                      *)
(***************************************************************************)
KeptInv ==
    /\ InvitesIn(Past)
    /\ ShownOrder
    /\ ctl.step # "idle" => Shown(ctl.invite)
    /\ \A i \in Invites : invites[i].phase = "deleting" => Shown(i)

\* What a step makes of one invitation.
Onward(i) ==
    /\ invites[i].phase # "free" =>
         invites'[i].phase # "free" /\ invites'[i].user = invites[i].user
    /\ invites[i].phase = "gone" => invites'[i].phase = "gone"
    /\ invites'[i].phase = "deleting" =>
         invites[i].phase = "deleting" \/ (ctl.step # "idle" /\ ctl.invite = i)
    /\ invites[i].phase = "deleting" => invites'[i].phase = "deleting" \/ Collect(i)

ControllerMove ==
    \/ ctl'.step # "idle" => ctl.step # "idle" /\ ctl'.invite = ctl.invite
    \/ Present(inviteCache, ctl'.invite) /\ UNCHANGED inviteVars

InviteStep ==
    \/ I!Write(invites') \/ UNCHANGED inviteVars \/ I!Deliver
    \/ I!Relist /\ ctl'.step = "idle"

Move == InviteStep /\ ControllerMove /\ \A i \in Invites : Onward(i)

LEMMA PhaseWritten ==
  ASSUME TypeOK, NEW i \in Invites, NEW phase \in Phase,
         I!Write([invites EXCEPT ![i].phase = phase]),
         phase # "free",
         invites[i].phase = "gone" => phase = "gone",
         phase = "deleting" => invites[i].phase = "deleting" \/ (ctl.step # "idle" /\ ctl.invite = i),
         invites[i].phase = "deleting" => phase = "deleting" \/ Collect(i)
  PROVE  InviteStep /\ \A j \in Invites : Onward(j)
<1>1. invites' = [invites EXCEPT ![i].phase = phase] /\ I!Write(invites')
  BY DEF I!Write
<1>2. /\ invites'[i].phase = phase /\ invites'[i].user = invites[i].user
      /\ \A j \in Invites \ {i} : invites'[j] = invites[j]
  BY <1>1 DEF TypeOK, InviteStore, Invitation
<1> QED BY <1>1, <1>2 DEF InviteStep, Onward

LEMMA Moves == ASSUME TypeOK, ConsumedInv, Next PROVE Move
<1>a. invites \in InviteStore /\ ctl \in Ctl /\ ctl.invite \in Invites
  BY DEF TypeOK, Ctl
<1>b. \A i \in Invites : invites[i].phase \in Phase
  BY <1>a DEF InviteStore, Invitation
<1>c. UNCHANGED invites => \A i \in Invites : Onward(i)
  BY DEF Onward
<1>d. UNCHANGED inviteVars => InviteStep /\ \A i \in Invites : Onward(i)
  BY <1>c DEF InviteStep, inviteVars
<1>e. UNCHANGED ctl \/ ctl' = IdleController => ControllerMove
  BY DEF ControllerMove, IdleController
<1>f. \A i \in Created : Delete(i) => InviteStep /\ \A j \in Invites : Onward(j)
  <2> SUFFICES ASSUME NEW i \in Created, Delete(i)
               PROVE  InviteStep /\ \A j \in Invites : Onward(j)
    OBVIOUS
  <2>1. PICK phase : phase = IF invites[i].phase = "live" THEN "gone" ELSE invites[i].phase
    OBVIOUS
  <2>2. i \in Invites /\ phase \in Phase /\ phase # "free"
    BY <1>b, <2>1 DEF Created, Phase
  <2>3. I!Write([invites EXCEPT ![i].phase = phase])
    BY <2>1 DEF Delete
  <2> QED BY <2>1, <2>2, <2>3, PhaseWritten
<1>1. ASSUME NEW i \in Invites, NEW u \in Users, NEW expires \in BOOLEAN,
             CreateOrganizationInvitation(i, u, expires)
      PROVE  Move
  <2> DEFINE x == [phase |-> "live", user |-> u, expires |-> expires, stamped |-> FALSE]
  <2>1. invites' = [invites EXCEPT ![i] = x] /\ I!Write(invites') /\ invites[i].phase = "free"
    BY <1>1 DEF CreateOrganizationInvitation, I!Write
  <2>2. invites'[i] = x /\ \A j \in Invites \ {i} : invites'[j] = invites[j]
    BY <1>a, <2>1 DEF InviteStore
  <2>3. \A j \in Invites : Onward(j)
    BY <2>1, <2>2 DEF Onward
  <2> QED BY <1>1, <1>e, <2>1, <2>3 DEF CreateOrganizationInvitation, Move, InviteStep
<1>2. ASSUME NEW i \in Invites, Withdraw(i) PROVE Move
  <2>1. i \in Created
    BY <1>2 DEF Withdraw, Created
  <2> QED BY <1>2, <1>e, <1>f, <2>1 DEF Withdraw, Move
<1>3. ASSUME NEW p \in Calls, AcceptDelete(p) PROVE Move
  <2>1. call[p].invite \in Created
    BY <1>3 DEF AcceptDelete, ConsumedInv
  <2> QED BY <1>3, <1>e, <1>f, <2>1 DEF AcceptDelete, Move
<1>4. ASSUME NEW i \in Invites, StartReconcile(i) PROVE Move
  <2>1. ControllerMove
    BY <1>4 DEF StartReconcile, ControllerMove, IdleController
  <2> QED BY <1>4, <1>d, <2>1 DEF StartReconcile, Move
<1>5. ASSUME DeleteExpired PROVE Move
  <2>1. ControllerMove
    BY <1>5, <1>a DEF DeleteExpired, Retry, IdleController, ControllerMove, Ctl
  <2>2. ASSUME invites[ctl.invite].phase # "gone", ctl.step = "delete",
               I!Write([invites EXCEPT ![ctl.invite].phase = "deleting"])
        PROVE  InviteStep /\ \A j \in Invites : Onward(j)
    BY <1>a, <2>2, PhaseWritten DEF Phase
  <2> QED BY <1>5, <1>d, <2>1, <2>2 DEF DeleteExpired, Move
<1>6. ASSUME Requeue PROVE Move
  <2>1. ctl' = IdleController
    BY <1>6 DEF Requeue, Retry, Done
  <2>2. ASSUME I!Write([invites EXCEPT ![ctl.invite].stamped = TRUE])
        PROVE  InviteStep /\ \A j \in Invites : Onward(j)
    <3>1. invites' = [invites EXCEPT ![ctl.invite].stamped = TRUE] /\ I!Write(invites')
      BY <2>2 DEF I!Write
    <3>2. \A j \in Invites : invites'[j].phase = invites[j].phase /\ invites'[j].user = invites[j].user
      BY <1>a, <3>1 DEF InviteStore, Invitation
    <3> QED BY <3>1, <3>2 DEF InviteStep, Onward
  <2> QED BY <1>6, <1>d, <1>e, <2>1, <2>2 DEF Requeue, Move
<1>7. ASSUME NEW i \in Invites, Collect(i) PROVE Move
  <2>1. InviteStep /\ \A j \in Invites : Onward(j)
    BY <1>7, PhaseWritten DEF Collect, Phase
  <2> QED BY <1>7, <1>e, <2>1 DEF Collect, Move
<1>8. ASSUME NEW i \in Invites, TimerFires(i) \/ Expire(i) PROVE Move
  BY <1>8, <1>d, <1>e DEF TimerFires, Expire, Move
<1>9. ASSUME DeliverInvite PROVE Move
  BY <1>9, <1>c, <1>e DEF DeliverInvite, I!Deliver, Move, InviteStep
<1>10. ASSUME Restart PROVE Move
  BY <1>10, <1>c, <1>e DEF Restart, I!Relist, Move, InviteStep, IdleController
<1>11. ASSUME Resync \/ ControllerError PROVE Move
  BY <1>11, <1>d, <1>e DEF Resync, ControllerError, Retry, Move
<1>12. ASSUME NEW p \in Calls, NEW u \in Users, AcceptList(p, u) PROVE Move
  BY <1>12, <1>d, <1>e DEF AcceptList, Move
<1>13. ASSUME NEW p \in Calls, AcceptMember(p) \/ CallError(p) PROVE Move
  BY <1>13, <1>d, <1>e DEF AcceptMember, CallError, Move
<1>14. ASSUME NEW u \in Users, DeleteOrganizationMember(u) PROVE Move
  BY <1>14, <1>d, <1>e DEF DeleteOrganizationMember, Move
<1> QED
  BY <1>1, <1>2, <1>3, <1>4, <1>5, <1>6, <1>7, <1>8, <1>9, <1>10, <1>11, <1>12, <1>13, <1>14
  DEF Next, Handler, Controller, Environment, DeleteOrganizationInvitation, DeleteGlobalInvitation

-----------------------------------------------------------------------------
(* What the informer shows *)

LEMMA WatchWritten ==
  ASSUME TypeOK, invites' \in InviteStore, I!Write(invites')
  PROVE  /\ inviteCache' = inviteCache /\ Len(inviteWatch) \in Nat
         /\ \/ inviteWatch' = inviteWatch
            \/ /\ Len(inviteWatch') = Len(inviteWatch) + 1
               /\ \A k \in 1 .. Len(inviteWatch) : inviteWatch'[k] = inviteWatch[k]
               /\ inviteWatch'[Len(inviteWatch) + 1] = invites'
<1>1. inviteWatch \in Seq(InviteStore) /\ Len(inviteWatch) \in Nat
  BY LenProperties DEF TypeOK
<1> QED BY <1>1, AppendProperties DEF I!Write

LEMMA WatchDelivered ==
  ASSUME TypeOK, I!Deliver
  PROVE  /\ Len(inviteWatch) \in Nat \ {0} /\ Len(inviteWatch') = Len(inviteWatch) - 1
         /\ inviteCache' = inviteWatch[1]
         /\ \A k \in 1 .. Len(inviteWatch') : inviteWatch'[k] = inviteWatch[k + 1]
<1>1. inviteWatch \in Seq(InviteStore) /\ inviteWatch # << >>
  BY DEF TypeOK, I!Deliver
<1>2. Len(inviteWatch) \in Nat \ {0} /\ Head(inviteWatch) = inviteWatch[1]
  BY <1>1, LenProperties, EmptySeq
<1>3. Len(Tail(inviteWatch)) = Len(inviteWatch) - 1
      /\ \A k \in 1 .. Len(Tail(inviteWatch)) : Tail(inviteWatch)[k] = inviteWatch[k + 1]
  BY <1>1, HeadTailProperties
<1> QED BY <1>2, <1>3 DEF I!Deliver

LEMMA PastMoves == ASSUME TypeOK, TypeOK', InvitesIn(Past), Move PROVE InvitesIn(Past)'
<1>1. ASSUME NEW s \in Past PROVE s \in Past'
  BY DEF Past, Move, Onward
<1>2. InvitesIn(Past')
  BY <1>1, SeqMonotonic DEF InvitesIn
<1>3. invites' \in Past'
  BY DEF TypeOK, Past
<1>4. invites' \in Past' /\ inviteCache' \in Past' /\ inviteWatch' \in Seq(Past')
  BY <1>2, <1>3, InviteMove, InviteRead DEF Move, InviteStep
<1> QED BY <1>4 DEF InvitesIn

\* What was shown stays shown.
LEMMA ShownStays ==
  ASSUME TypeOK, TypeOK', InviteStep, NEW i \in Invites, Shown(i), invites'[i].phase # "free"
  PROVE  Shown(i)'
<1>1. CASE UNCHANGED inviteVars
  BY <1>1 DEF Shown, inviteVars
<1>2. CASE I!Write(invites')
  BY <1>2, WatchWritten DEF Shown, TypeOK
<1>3. CASE I!Deliver
  BY <1>3, WatchDelivered DEF Shown
<1>4. CASE I!Relist
  BY <1>4, EmptySeq DEF Shown, I!Relist
<1> QED BY <1>1, <1>2, <1>3, <1>4 DEF InviteStep

LEMMA ShownOrderMoves ==
  ASSUME TypeOK, TypeOK', InvitesIn(Past), ShownOrder, Move
  PROVE  ShownOrder'
<1>1. CASE UNCHANGED inviteVars
  BY <1>1 DEF ShownOrder, Shown, inviteVars
<1>2. CASE I!Write(invites')
  <2> SUFFICES ASSUME NEW i \in Invites
               PROVE  /\ inviteCache'[i].phase # "free" => Shown(i)'
                      /\ \A k, l \in 1 .. Len(inviteWatch') :
                           k < l /\ inviteWatch'[k][i].phase # "free" => inviteWatch'[l][i].phase # "free"
    BY DEF ShownOrder
  <2>a. \A s \in Past : s[i].phase # "free" => invites'[i].phase # "free"
    BY DEF Past, Move, Onward
  <2>b. inviteCache \in Past /\ \A k \in 1 .. Len(inviteWatch) : inviteWatch[k] \in Past
    BY ElementOfSeq DEF InvitesIn
  <2>c. invites' \in InviteStore
    BY DEF TypeOK
  <2>1. inviteCache'[i].phase # "free" => Shown(i)'
    BY <1>2, <2>a, <2>b, <2>c, WatchWritten DEF ShownOrder, Shown
  <2>2. \A k, l \in 1 .. Len(inviteWatch') :
          k < l /\ inviteWatch'[k][i].phase # "free" => inviteWatch'[l][i].phase # "free"
    BY <1>2, <2>a, <2>b, <2>c, WatchWritten DEF ShownOrder
  <2> QED BY <2>1, <2>2
<1>3. CASE I!Deliver
  <2> SUFFICES ASSUME NEW i \in Invites
               PROVE  /\ inviteCache'[i].phase # "free" => Shown(i)'
                      /\ \A k, l \in 1 .. Len(inviteWatch') :
                           k < l /\ inviteWatch'[k][i].phase # "free" => inviteWatch'[l][i].phase # "free"
    BY DEF ShownOrder
  <2>1. \A k, l \in 1 .. Len(inviteWatch) :
          k < l /\ inviteWatch[k][i].phase # "free" => inviteWatch[l][i].phase # "free"
    BY DEF ShownOrder
  <2>2. 1 \in 1 .. Len(inviteWatch)
        /\ \A k \in 1 .. Len(inviteWatch') : k + 1 \in 1 .. Len(inviteWatch) /\ 1 < k + 1
    BY <1>3, WatchDelivered
  <2>3. inviteCache'[i].phase # "free" => Shown(i)'
    BY <1>3, <2>1, <2>2, WatchDelivered DEF Shown
  <2>4. ASSUME NEW k \in 1 .. Len(inviteWatch'), NEW l \in 1 .. Len(inviteWatch'), k < l,
               inviteWatch'[k][i].phase # "free"
        PROVE  inviteWatch'[l][i].phase # "free"
    <3>1. k + 1 < l + 1
      BY <2>4
    <3> QED BY <1>3, <2>1, <2>2, <2>4, <3>1, WatchDelivered
  <2> QED BY <2>3, <2>4
<1>4. CASE I!Relist
  BY <1>4, EmptySeq DEF ShownOrder, Shown, I!Relist
<1> QED BY <1>1, <1>2, <1>3, <1>4 DEF Move, InviteStep

LEMMA KeptInit == Init => KeptInv
<1> SUFFICES ASSUME Init PROVE KeptInv
  OBVIOUS
<1>1. invites \in InviteStore
  BY InitTypes DEF TypeOK
<1>2. InvitesIn(Past)
  BY <1>1, EmptySeq DEF Init, InvitesIn, Past
<1>3. ctl.step = "idle" /\ \A i \in Invites : invites[i].phase = "free" /\ inviteCache[i].phase = "free"
  BY DEF Init, IdleController
<1>4. Len(inviteWatch) = 0
  BY EmptySeq DEF Init
<1> QED BY <1>2, <1>3, <1>4 DEF KeptInv, ShownOrder, Shown

LEMMA KeptStep == ASSUME TypeOK, ConsumedInv, KeptInv, [Next]_vars PROVE KeptInv'
<1>1. CASE Next
  <2>a. TypeOK' /\ Move
    BY <1>1, NextTypes, Moves
  <2>b. InviteStep /\ \A i \in Invites : Onward(i)
    BY <2>a DEF Move
  <2>1. InvitesIn(Past)'
    BY <2>a, PastMoves DEF KeptInv
  <2>2. ShownOrder'
    BY <2>a, ShownOrderMoves DEF KeptInv
  <2>3. ASSUME NEW i \in Invites, Shown(i) PROVE Shown(i)'
    <3>1. inviteCache \in Past
      BY DEF KeptInv, InvitesIn
    <3>2. invites'[i].phase # "free"
      BY <2>b, <2>3, <3>1 DEF Shown, Past, Onward
    <3> QED BY <2>a, <2>b, <2>3, <3>2, ShownStays
  <2>4. ASSUME NEW i \in Invites, invites'[i].phase = "deleting" PROVE Shown(i)'
    BY <2>b, <2>3, <2>4 DEF Onward, KeptInv
  <2>5. ASSUME ctl'.step # "idle" PROVE Shown(ctl.invite)'
    <3>1. PICK i \in Invites : i = ctl'.invite
      BY <2>a DEF TypeOK
    <3>2. Shown(i)
      BY <2>a, <2>5, <3>1 DEF Move, ControllerMove, Present, KeptInv, ShownOrder
    <3>3. Shown(i)'
      BY <2>3, <3>2
    <3> QED BY <3>1, <3>3 DEF Shown
  <2> QED BY <2>1, <2>2, <2>4, <2>5 DEF KeptInv
<1>2. CASE UNCHANGED vars
  BY <1>2 DEF vars, KeptInv, InvitesIn, Past, ShownOrder, Shown
<1> QED BY <1>1, <1>2

(***************************************************************************)
(* ExpiredInvitationKept: the informer has shown an invitation in deletion, *)
(* so the webhook finds it when its own finalizer is to be removed.         *)
(***************************************************************************)
THEOREM ExpiredStays == Spec => ExpiredInvitationKept
<1> DEFINE Kept == Webhooks => \A i \in Invites :
                      invites[i].phase = "deleting" => invites'[i].phase = "deleting"
<1>1. TypeOK /\ ConsumedInv /\ KeptInv /\ [Next]_vars => [Kept]_invites
  <2> SUFFICES ASSUME TypeOK, ConsumedInv, KeptInv, Next, Webhooks,
                      NEW i \in Invites, invites[i].phase = "deleting"
               PROVE  invites'[i].phase = "deleting"
    BY DEF vars
  <2>1. Shown(i) /\ inviteCache \in Past
    BY DEF KeptInv, InvitesIn
  <2>2. inviteCache[i].phase \in Phase
    BY DEF TypeOK, InviteStore, Invitation
  <2>3. inviteCache[i].phase \in {"live", "deleting"} /\ inviteCache[i].user = invites[i].user
    BY <2>1, <2>2 DEF Past, Shown, Phase
  <2>4. ~Collect(i)
    BY <2>3 DEF Collect, Admits, Addressed, Present
  <2> QED BY <2>4, Moves DEF Move, Onward
<1>2. Spec => []ConsumedInv /\ []KeptInv
  BY InvitationsTyped, AlwaysConsumed, KeptInit, KeptStep, PTL DEF Spec
<1> QED BY <1>1, <1>2, InvitationsTyped, PTL DEF Spec, ExpiredInvitationKept

=============================================================================
