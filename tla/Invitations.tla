----------------------------- MODULE Invitations -----------------------------
(***************************************************************************)
(* Invitations to one organization: creation, withdrawal, decline,          *)
(* acceptance, and expiry by the invitation controller.                     *)
(*                                                                         *)
(* An invitation is sent to an e-mail address, modelled as the user that    *)
(* has it.  Accepting one is two API calls, a new Member and then the       *)
(* deletion of the invitation, and any of the others may come in between.   *)
(* Names of invitations are generated by the server and never used twice.   *)
(* The role an invitation offers is left to module Members.                 *)
(***************************************************************************)
EXTENDS Naturals, Sequences, FiniteSets

CONSTANTS
    Invites,
    Users,
    Calls,      \* concurrent acceptances
    Webhooks,   \* whether the process runs with --enable-webhooks
    MaxLag,     \* bound: undelivered versions of invitations
    MaxFaults   \* bound: failed API calls and restarts

ASSUME InvitationsAssumption ==
    /\ Invites # {} /\ Users # {}
    /\ Webhooks \in BOOLEAN
    /\ MaxLag \in Nat \ {0}
    /\ MaxFaults \in Nat

VARIABLES
    invites, inviteCache, inviteWatch,  \* Invitation objects
    members,    \* users that are members of the organization
    expired,    \* invitations older than their duration
    queue,      \* work queue of the invitation controller
    timers,     \* keys that wait in the delaying queue for their expiration
    ctl,        \* the reconciliation in progress
    call,       \* the acceptances in progress
    accepted,   \* invitations a member was created from
    withdrawn,  \* invitations deleted by anything but an acceptance
    faults

I == INSTANCE Informer WITH store <- invites, cache <- inviteCache, watch <- inviteWatch

inviteVars == <<invites, inviteCache, inviteWatch>>
history == <<accepted, withdrawn>>
vars == <<invites, inviteCache, inviteWatch, members, expired, queue, timers, ctl, call,
          accepted, withdrawn, faults>>

\* "deleting": a foreground deletion waits for the garbage collector.
Phase == {"free", "live", "deleting", "gone"}

\* expires: a duration was given; stamped: status.expirationTimestamp is set.
Invitation == [phase: Phase, user: Users, expires: BOOLEAN, stamped: BOOLEAN]
InviteStore == [Invites -> Invitation]

TypeOK ==
    /\ invites \in InviteStore /\ inviteCache \in InviteStore
    /\ inviteWatch \in Seq(InviteStore)
    /\ members \subseteq Users
    /\ expired \subseteq Invites /\ queue \subseteq Invites /\ timers \subseteq Invites
    /\ ctl \in [step: {"idle", "delete", "requeue"}, invite: Invites, stamped: BOOLEAN]
    /\ call \in [Calls -> [step: {"idle", "member", "delete"}, invite: Invites]]
    /\ accepted \subseteq Invites /\ withdrawn \subseteq Invites
    /\ faults \in 0 .. MaxFaults

AnyInvite == CHOOSE i \in Invites : TRUE
IdleController == [step |-> "idle", invite |-> AnyInvite, stamped |-> FALSE]
IdleCall == [step |-> "idle", invite |-> AnyInvite]

Init ==
    /\ invites = [i \in Invites |-> [phase |-> "free", user |-> CHOOSE u \in Users : TRUE,
                                     expires |-> FALSE, stamped |-> FALSE]]
    /\ inviteCache = invites /\ inviteWatch = << >>
    /\ members = {} /\ expired = {} /\ queue = {} /\ timers = {}
    /\ ctl = IdleController
    /\ call = [p \in Calls |-> IdleCall]
    /\ accepted = {} /\ withdrawn = {}
    /\ faults = 0

-----------------------------------------------------------------------------
(* Lookups and admission *)

Present(s, i) == s[i].phase \in {"live", "deleting"}

\* What a List by e-mail in the organization's namespace returns.
Addressed(u) == {i \in Invites : Present(inviteCache, i) /\ inviteCache[i].user = u}

\* Mutant: the invitation that is updated is not counted.
Admits_IgnoreSelf(u) ==
    Webhooks => \A i \in Addressed(u) : invites[i].phase = "deleting"

(***************************************************************************)
(* The invitation webhook, on creation and on every update: no invitation   *)
(* of the address is known.  An invitation that is updated is known itself. *)
(* The check for members goes through the deprecated references of the      *)
(* organization, which nothing sets.                                        *)
(***************************************************************************)
Admits(u) == Webhooks => Addressed(u) = {}

-----------------------------------------------------------------------------
(* HTTP handlers *)

CreateOrganizationInvitation(i, u, expires) ==
    /\ invites[i].phase = "free"
    /\ Admits(u)
    /\ I!Write([invites EXCEPT ![i] = [phase |-> "live", user |-> u,
                                       expires |-> expires, stamped |-> FALSE]])
    /\ UNCHANGED <<members, expired, queue, timers, ctl, call, history, faults>>

\* A Delete with the default propagation; an object in deletion stays there.
Delete(i) == I!Write([invites EXCEPT ![i].phase = IF @ = "live" THEN "gone" ELSE @])

Withdraw(i) ==
    /\ invites[i].phase = "live"
    /\ Delete(i)
    /\ withdrawn' = withdrawn \cup {i}
    /\ UNCHANGED <<members, expired, queue, timers, ctl, call, accepted, faults>>

DeleteOrganizationInvitation(i) == Present(inviteCache, i) /\ Withdraw(i)

\* The invited user declines: there must be exactly one invitation.
DeleteGlobalInvitation(u) == \E i \in Invites : Addressed(u) = {i} /\ Withdraw(i)

Goto(p, step, i) == call' = [call EXCEPT ![p] = [step |-> step, invite |-> i]]
Return(p) == call' = [call EXCEPT ![p] = IdleCall]

(***************************************************************************)
(* UpdateGlobalInvitation, the acceptance.  Expiry is not looked at.        *)
(***************************************************************************)
AcceptList(p, u) ==
    /\ call[p].step = "idle"
    /\ \E i \in Invites : Addressed(u) = {i} /\ Goto(p, "member", i)
    /\ UNCHANGED <<inviteVars, members, expired, queue, timers, ctl, history, faults>>

\* Mutant: a member that exists already is not an error.
AcceptMember_IgnoreExists(p) ==
    LET i == call[p].invite
        u == invites[i].user
    IN
    /\ call[p].step = "member"
    /\ members' = members \cup {u}
    /\ accepted' = IF u \in members THEN accepted ELSE accepted \cup {i}
    /\ Goto(p, "delete", i)
    /\ UNCHANGED <<inviteVars, expired, queue, timers, ctl, withdrawn, faults>>

\* Mutant: the invitation is left to expire.
AcceptMember_KeepInvitation(p) ==
    LET i == call[p].invite
        u == invites[i].user
    IN
    /\ call[p].step = "member"
    /\ u \notin members
    /\ members' = members \cup {u}
    /\ accepted' = accepted \cup {i}
    /\ Return(p)
    /\ UNCHANGED <<inviteVars, expired, queue, timers, ctl, withdrawn, faults>>

\* The member is named after the user: creating it fails if it exists.
AcceptMember(p) ==
    LET i == call[p].invite
        u == invites[i].user
    IN
    /\ call[p].step = "member"
    /\ \/ u \in members /\ Return(p) /\ UNCHANGED <<members, accepted>>
       \/ /\ u \notin members
          /\ members' = members \cup {u}
          /\ accepted' = accepted \cup {i}
          /\ Goto(p, "delete", i)
    /\ UNCHANGED <<inviteVars, expired, queue, timers, ctl, withdrawn, faults>>

AcceptDelete(p) ==
    /\ call[p].step = "delete"
    /\ Delete(call[p].invite)
    /\ Return(p)
    /\ UNCHANGED <<members, expired, queue, timers, ctl, history, faults>>

DeleteOrganizationMember(u) ==
    /\ u \in members
    /\ members' = members \ {u}
    /\ UNCHANGED <<inviteVars, expired, queue, timers, ctl, call, history, faults>>

-----------------------------------------------------------------------------
(* The invitation controller: one worker, one key at a time *)

Done == ctl' = IdleController /\ UNCHANGED queue
Retry == ctl' = IdleController /\ queue' = queue \cup {ctl.invite}

\* Reads the clock for the first time.
StartReconcile(i) ==
    /\ ctl.step = "idle"
    /\ i \in queue
    /\ queue' = queue \ {i}
    /\ ctl' = IF Present(inviteCache, i)
              THEN [step |-> IF inviteCache[i].expires /\ i \in expired THEN "delete"
                                                                       ELSE "requeue",
                    invite |-> i, stamped |-> inviteCache[i].stamped]
              ELSE IdleController
    /\ UNCHANGED <<inviteVars, members, expired, timers, call, history, faults>>

\* Mutant: the deletion is noted and not requested.
DeleteExpired_NoteOnly ==
    /\ ctl.step = "delete"
    /\ I!Write([invites EXCEPT ![ctl.invite].phase = "expired"])
    /\ ctl' = [ctl EXCEPT !.step = "requeue"]
    /\ UNCHANGED <<members, expired, queue, timers, call, history, faults>>

DeleteExpired ==
    LET i == ctl.invite IN
    /\ ctl.step = "delete"
    /\ \/ invites[i].phase = "gone" /\ Retry /\ UNCHANGED <<inviteVars, withdrawn>>
       \/ /\ invites[i].phase # "gone"
          /\ I!Write([invites EXCEPT ![i].phase = "deleting"])
          /\ withdrawn' = withdrawn \cup {i}
          /\ ctl' = [ctl EXCEPT !.step = "requeue"]
          /\ UNCHANGED queue
    /\ UNCHANGED <<members, expired, timers, call, accepted, faults>>

\* Mutant: the reconciliation does not ask to be called again.
Requeue_NoTimer ==
    LET i == ctl.invite IN
    /\ ctl.step = "requeue"
    /\ I!Write([invites EXCEPT ![i].stamped = invites[i].expires])
    /\ Done
    /\ UNCHANGED <<members, expired, timers, call, history, faults>>

(***************************************************************************)
(* The status is patched if the copy was not stamped, and the clock is read *)
(* again for RequeueAfter: a time that has passed since is not requeued.    *)
(* An error of the patch replaces the result.                               *)
(***************************************************************************)
Requeue ==
    LET i == ctl.invite
        stamp == invites[i].expires /\ ~ctl.stamped
    IN
    /\ ctl.step = "requeue"
    /\ \/ stamp /\ invites[i].phase = "gone" /\ Retry /\ UNCHANGED <<inviteVars, timers>>
       \/ /\ stamp => invites[i].phase # "gone"
          /\ IF stamp THEN I!Write([invites EXCEPT ![i].stamped = TRUE])
                      ELSE UNCHANGED inviteVars
          /\ timers' = IF invites[i].expires /\ i \notin expired THEN timers \cup {i}
                                                                 ELSE timers
          /\ Done
    /\ UNCHANGED <<members, expired, call, history, faults>>

TimerFires(i) ==
    /\ i \in timers /\ i \in expired
    /\ timers' = timers \ {i}
    /\ queue' = queue \cup {i}
    /\ UNCHANGED <<inviteVars, members, expired, ctl, call, history, faults>>

-----------------------------------------------------------------------------
(* Informers, time, failures *)

\* An event of an invitation puts it in the queue.
DeliverInvite ==
    /\ I!Deliver
    /\ queue' = queue \cup {i \in Invites : inviteCache[i] # inviteCache'[i]}
    /\ UNCHANGED <<members, expired, timers, ctl, call, history, faults>>

Resync ==
    /\ queue' = queue \cup {i \in Invites : Present(inviteCache, i)}
    /\ UNCHANGED <<inviteVars, members, expired, timers, ctl, call, history, faults>>

Expire(i) ==
    /\ invites[i].phase # "free" /\ invites[i].expires /\ i \notin expired
    /\ expired' = expired \cup {i}
    /\ UNCHANGED <<inviteVars, members, queue, timers, ctl, call, history, faults>>

(***************************************************************************)
(* The garbage collector ends a foreground deletion by removing its         *)
(* finalizer: an update, which the webhook validates like any other.        *)
(***************************************************************************)
Collect(i) ==
    /\ invites[i].phase = "deleting"
    /\ Admits(invites[i].user)
    /\ I!Write([invites EXCEPT ![i].phase = "gone"])
    /\ UNCHANGED <<members, expired, queue, timers, ctl, call, history, faults>>

Fault == faults < MaxFaults /\ faults' = faults + 1

ControllerError ==
    /\ Fault
    /\ ctl.step # "idle"
    /\ Retry
    /\ UNCHANGED <<inviteVars, members, expired, timers, call, history>>

CallError(p) ==
    /\ Fault
    /\ call[p].step # "idle"
    /\ Return(p)
    /\ UNCHANGED <<inviteVars, members, expired, queue, timers, ctl, history>>

\* The process stops between two steps and starts again: it lists everything.
Restart ==
    /\ Fault
    /\ I!Relist
    /\ ctl' = IdleController
    /\ call' = [p \in Calls |-> IdleCall]
    /\ timers' = {}
    /\ queue' = {i \in Invites : Present(invites, i)}
    /\ UNCHANGED <<members, expired, history>>

-----------------------------------------------------------------------------

Handler ==
    \/ \E i \in Invites, u \in Users, expires \in BOOLEAN :
         CreateOrganizationInvitation(i, u, expires)
    \/ \E i \in Invites : DeleteOrganizationInvitation(i)
    \/ \E u \in Users : DeleteGlobalInvitation(u) \/ DeleteOrganizationMember(u)
    \/ \E p \in Calls, u \in Users : AcceptList(p, u)
    \/ \E p \in Calls : AcceptMember(p) \/ AcceptDelete(p)

Controller == DeleteExpired \/ Requeue

Environment ==
    \/ \E i \in Invites : Expire(i) \/ Collect(i)
    \/ \E p \in Calls : CallError(p)
    \/ Resync \/ ControllerError \/ Restart

Next ==
    \/ Handler
    \/ Controller
    \/ \E i \in Invites : StartReconcile(i) \/ TimerFires(i)
    \/ DeliverInvite
    \/ Environment

Spec == Init /\ [][Next]_vars

(***************************************************************************)
(* The controller goes on, its queue is first in first out, timers fire,    *)
(* watches deliver and garbage is collected.  Nothing is assumed of time.   *)
(***************************************************************************)
Fairness ==
    /\ WF_vars(Controller)
    /\ \A i \in Invites : SF_vars(StartReconcile(i)) /\ WF_vars(TimerFires(i))
    /\ \A i \in Invites : SF_vars(Collect(i))
    /\ WF_vars(DeliverInvite)

FairSpec == Spec /\ Fairness

-----------------------------------------------------------------------------
(* Properties *)

(***************************************************************************)
(* An invitation disappears because someone withdrew or declined it,        *)
(* because it expired, or because a member was made of it: an acceptance    *)
(* that fails half-way never loses it.                                      *)
(***************************************************************************)
InvitationNotLost ==
    \A i \in Invites : invites[i].phase = "gone" => i \in accepted \cup withdrawn

(***************************************************************************)
(* An accepted invitation is deleted by the call that accepted it; only a   *)
(* failure between the two steps leaves it to be accepted again.            *)
(***************************************************************************)
AcceptedConsumed ==
    \A i \in accepted :
        invites[i].phase = "live"
        => faults > 0 \/ \E p \in Calls : call[p] = [step |-> "delete", invite |-> i]

(***************************************************************************)
(* With webhooks, an invitation that has expired stays in deletion: the     *)
(* update that would end it is refused, since the invitation itself is      *)
(* found, and its address cannot be invited again.                          *)
(***************************************************************************)
ExpiredInvitationKept ==
    [][Webhooks => \A i \in Invites :
                      invites[i].phase = "deleting" => invites'[i].phase = "deleting"]_invites

(***************************************************************************)
(* Without webhooks an invitation that has expired is removed: without      *)
(* failures the timer Reconcile asks for is enough, though the clock is     *)
(* read twice; timers do not survive a restart, and then the periodic       *)
(* resync is enough.                                                        *)
(***************************************************************************)
ExpiredRemoved ==
    [](faults = 0) \/ WF_vars(Resync) =>
        \A i \in Invites : (Present(invites, i) /\ i \in expired) ~> invites[i].phase = "gone"

=============================================================================
