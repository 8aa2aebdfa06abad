------------------------------ MODULE Accounts ------------------------------
(***************************************************************************)
(* User accounts of dockyards-backend: sign-up, e-mail verification,        *)
(* password reset, login, and the controller that makes a user ready.       *)
(*                                                                         *)
(* Users and verification requests are objects of the API server.  HTTP     *)
(* handlers (internal/api/v1/handlers) and the user controller              *)
(* (internal/controller/user_controller.go) run in one process, share no    *)
(* lock, read the informers' copies and write to the server, so every       *)
(* write is a step of its own.                                              *)
(*                                                                         *)
(* A verification request is identified by its code, which is random: a     *)
(* request that is deleted and created again under the same name has        *)
(* another code.                                                           *)
(***************************************************************************)
EXTENDS Naturals, Sequences, FiniteSets

CONSTANTS
    DockyardsUsers,  \* names of users with provider dockyards:// (generated)
    OIDCUsers,       \* names of users of an identity provider
    Emails,
    Passwords,
    SignUpCodes,     \* codes of requests named "sign-up-<user>"
    ResetCodes,      \* codes of requests named "password-reset-<generated>"
    Calls,           \* concurrent HTTP calls that take more than one step
    Webhooks,        \* whether the process runs with --enable-webhooks
    Removable,       \* users an administrator may delete
    MaxLag,          \* bound: undelivered versions per kind
    MaxFaults        \* bound: failed API calls, restarts and deleted users

Users == DockyardsUsers \cup OIDCUsers
Codes == SignUpCodes \cup ResetCodes

ASSUME AccountsAssumption ==
    /\ DockyardsUsers \cap OIDCUsers = {}
    /\ SignUpCodes \cap ResetCodes = {}
    /\ Users # {} /\ Emails # {} /\ Passwords # {} /\ Codes # {}
    /\ Webhooks \in BOOLEAN
    /\ Removable \subseteq Users
    /\ MaxLag \in Nat \ {0}
    /\ MaxFaults \in Nat

VARIABLES
    users, userCache, userWatch,           \* User objects
    requests, requestCache, requestWatch,  \* VerificationRequest objects
    rbac,      \* users whose ClusterRole and ClusterRoleBinding exist
    expired,   \* codes of requests older than their duration
    provided,  \* users whose identity provider the controller finds
    queue,     \* work queue of the user controller
    ctl,       \* the reconciliation in progress
    call,      \* the HTTP calls in progress
    sessions,  \* users that have been given tokens
    used,      \* number of passwords set with each code
    faults

U == INSTANCE Informer WITH store <- users, cache <- userCache, watch <- userWatch
R == INSTANCE Informer WITH store <- requests, cache <- requestCache, watch <- requestWatch

userVars == <<users, userCache, userWatch>>
requestVars == <<requests, requestCache, requestWatch>>
history == <<sessions, used>>
vars == <<users, userCache, userWatch, requests, requestCache, requestWatch,
          rbac, expired, provided, queue, ctl, call, sessions, used, faults>>

Phase == {"free", "live", "gone"}
Condition == {"none", "False", "True"}

User == [phase: Phase, email: Emails, password: Passwords, ready: Condition, authz: Condition]
VerificationRequest == [phase: Phase, owner: Users, verified: BOOLEAN]

UserStore == [Users -> User]
RequestStore == [Codes -> VerificationRequest]

ControllerStep == {"idle", "provider", "markVerified", "markNotReady", "verification", "promote",
                   "cleanup", "authorize", "report", "reportError"}
CallStep == {"idle", "verify", "delete", "check", "patch"}

TypeOK ==
    /\ users \in UserStore /\ userCache \in UserStore /\ userWatch \in Seq(UserStore)
    /\ requests \in RequestStore /\ requestCache \in RequestStore
    /\ requestWatch \in Seq(RequestStore)
    /\ rbac \subseteq Users
    /\ expired \subseteq Codes
    /\ provided \subseteq OIDCUsers
    /\ queue \subseteq Users
    /\ ctl \in [step: ControllerStep, user: Users, ready: Condition, authz: Condition]
    /\ call \in [Calls -> [step: CallStep, code: Codes]]
    /\ sessions \subseteq Users
    /\ used \in [Codes -> Nat]
    /\ faults \in 0 .. MaxFaults

AnyUser == CHOOSE u \in Users : TRUE
AnyCode == CHOOSE c \in Codes : TRUE
IdleController == [step |-> "idle", user |-> AnyUser, ready |-> "none", authz |-> "none"]
IdleCall == [step |-> "idle", code |-> AnyCode]

Init ==
    /\ users = [u \in Users |->
                  [phase |-> "free", email |-> CHOOSE e \in Emails : TRUE,
                   password |-> CHOOSE w \in Passwords : TRUE,
                   ready |-> "none", authz |-> "none"]]
    /\ requests = [c \in Codes |-> [phase |-> "free", owner |-> AnyUser, verified |-> FALSE]]
    /\ userCache = users /\ userWatch = << >>
    /\ requestCache = requests /\ requestWatch = << >>
    /\ rbac = {} /\ expired = {} /\ provided = {} /\ queue = {}
    /\ ctl = IdleController
    /\ call = [p \in Calls |-> IdleCall]
    /\ sessions = {} /\ used = [c \in Codes |-> 0]
    /\ faults = 0

-----------------------------------------------------------------------------
(* Names, lookups and admission *)

(***************************************************************************)
(* Two requests have the same name when both are the sign-up request of one *)
(* user; names of reset requests are generated by the server.               *)
(***************************************************************************)
SameName(c, d) ==
    \/ c = d
    \/ {c, d} \subseteq SignUpCodes /\ requests[c].owner = requests[d].owner

\* The live request that has the name of request c: a write by name reaches it.
Named(c) == {d \in Codes : requests[d].phase = "live" /\ SameName(c, d)}

\* The sign-up requests of user u in a copy of the store.
SignUpOf(s, u) == {c \in SignUpCodes : s[c].phase = "live" /\ s[c].owner = u}

\* The users a List by e-mail returns.
WithEmail(e) == {u \in Users : userCache[u].phase = "live" /\ userCache[u].email = e}

\* The user webhook: no other user may have the e-mail, as far as the informer knows.
Admits(u, e) == Webhooks => WithEmail(e) \subseteq {u}

-----------------------------------------------------------------------------
(* HTTP handlers *)

CreateGlobalUser(u, e, w) ==
    /\ u \in DockyardsUsers
    /\ users[u].phase = "free"
    /\ Admits(u, e)
    /\ U!Write([users EXCEPT ![u] = [phase |-> "live", email |-> e, password |-> w,
                                     ready |-> "none", authz |-> "none"]])
    /\ UNCHANGED <<requestVars, rbac, expired, provided, queue, ctl, call, history, faults>>

(***************************************************************************)
(* Callback of an identity provider: tokens for the user the informer       *)
(* knows, or for a new one.  The status set on creation is dropped by the   *)
(* server: it is a subresource.  The provider may be one of the default     *)
(* public namespace, where the controller does not look: see                *)
(* LookUpProvider.                                                          *)
(***************************************************************************)
Callback(u, e, w) ==
    /\ u \in OIDCUsers
    /\ \/ userCache[u].phase = "live" /\ UNCHANGED userVars
       \/ /\ userCache[u].phase # "live"
          /\ users[u].phase # "live"
          /\ Admits(u, e)
          /\ U!Write([users EXCEPT ![u] = [phase |-> "live", email |-> e, password |-> w,
                                           ready |-> "none", authz |-> "none"]])
    /\ sessions' = sessions \cup {u}
    /\ UNCHANGED <<requestVars, rbac, expired, provided, queue, ctl, call, used, faults>>

\* Mutant: the Ready condition is not looked at.
CreateGlobalTokens_AnyUser(e, w) ==
    LET found == {u \in WithEmail(e) \cap DockyardsUsers : userCache[u].password = w} IN
    /\ Cardinality(found) = 1
    /\ sessions' = sessions \cup found
    /\ UNCHANGED <<userVars, requestVars, rbac, expired, provided, queue, ctl, call, used, faults>>

CreateGlobalTokens(e, w) ==
    LET found == WithEmail(e) \cap DockyardsUsers IN
    /\ Cardinality(found) = 1
    /\ \A u \in found :
         /\ userCache[u].ready = "True"
         /\ userCache[u].password = w
    /\ sessions' = sessions \cup found
    /\ UNCHANGED <<userVars, requestVars, rbac, expired, provided, queue, ctl, call, used, faults>>

\* The caller's token names the user whose password is changed.
UpdateUserPassword(u, old, new) ==
    /\ u \in DockyardsUsers \cap sessions
    /\ userCache[u].phase = "live" /\ userCache[u].password = old
    /\ users[u].phase = "live"
    /\ Admits(u, users[u].email)
    /\ U!Write([users EXCEPT ![u].password = new])
    /\ UNCHANGED <<requestVars, rbac, expired, provided, queue, ctl, call, history, faults>>

CreateGlobalPasswordResetRequest(e, c) ==
    /\ c \in ResetCodes
    /\ requests[c].phase = "free"
    /\ \E u \in DockyardsUsers :
         /\ WithEmail(e) = {u}
         /\ R!Write([requests EXCEPT ![c] = [phase |-> "live", owner |-> u, verified |-> FALSE]])
    /\ UNCHANGED <<userVars, rbac, expired, provided, queue, ctl, call, history, faults>>

-----------------------------------------------------------------------------
(* Handlers of several steps: a List by code, then writes *)

Goto(p, step, c) == call' = [call EXCEPT ![p] = [step |-> step, code |-> c]]
Return(p) == call' = [call EXCEPT ![p] = IdleCall]

\* A List by code finds the request, of either kind, in the informer's copy.
Find(p, c) == call[p].step = "idle" /\ requestCache[c].phase = "live"

(***************************************************************************)
(* UpdateGlobalVerificationRequest.  An expired request is refused; one     *)
(* whose copy is verified already yields an empty patch.                    *)
(***************************************************************************)
VerifyList(p, c) ==
    /\ Find(p, c)
    /\ c \notin expired
    /\ ~requestCache[c].verified
    /\ Goto(p, "verify", c)
    /\ UNCHANGED <<userVars, requestVars, rbac, expired, provided, queue, ctl, history, faults>>

VerifyPatch(p) ==
    /\ call[p].step = "verify"
    /\ R!Write([d \in Codes |-> IF d \in Named(call[p].code)
                                THEN [requests[d] EXCEPT !.verified = TRUE]
                                ELSE requests[d]])
    /\ Return(p)
    /\ UNCHANGED <<userVars, rbac, expired, provided, queue, ctl, history, faults>>

\* Mutant: the request is not deleted before it is used.
ResetList_KeepRequest(p, c) ==
    /\ Find(p, c)
    /\ Goto(p, "check", c)
    /\ UNCHANGED <<userVars, requestVars, rbac, expired, provided, queue, ctl, history, faults>>

(***************************************************************************)
(* ResetPassword deletes the request first, "even in the failure cases      *)
(* below", then looks at its expiry and at the user.                        *)
(***************************************************************************)
ResetList(p, c) ==
    /\ Find(p, c)
    /\ Goto(p, "delete", c)
    /\ UNCHANGED <<userVars, requestVars, rbac, expired, provided, queue, ctl, history, faults>>

\* Mutant: a request that is gone already is not an error.
ResetDelete_IgnoreNotFound(p) ==
    /\ call[p].step = "delete"
    /\ R!Write([d \in Codes |-> IF d \in Named(call[p].code)
                                THEN [requests[d] EXCEPT !.phase = "gone"]
                                ELSE requests[d]])
    /\ Goto(p, "check", call[p].code)
    /\ UNCHANGED <<userVars, rbac, expired, provided, queue, ctl, history, faults>>

ResetDelete(p) ==
    LET c == call[p].code IN
    /\ call[p].step = "delete"
    /\ \/ Named(c) = {} /\ Return(p) /\ UNCHANGED requestVars
       \/ \E d \in Named(c) : /\ R!Write([requests EXCEPT ![d].phase = "gone"])
                              /\ Goto(p, "check", c)
    /\ UNCHANGED <<userVars, rbac, expired, provided, queue, ctl, history, faults>>

ResetCheck(p) ==
    LET c == call[p].code
        refused == c \in expired \/ userCache[requests[c].owner].phase # "live"
    IN
    /\ call[p].step = "check"
    /\ IF refused THEN Return(p) ELSE Goto(p, "patch", c)
    /\ UNCHANGED <<userVars, requestVars, rbac, expired, provided, queue, ctl, history, faults>>

ResetPatch(p, w) ==
    LET c == call[p].code
        u == requests[c].owner
    IN
    /\ call[p].step = "patch"
    /\ \/ /\ users[u].phase = "live" /\ Admits(u, users[u].email)
          /\ U!Write([users EXCEPT ![u].password = w])
          /\ used' = [used EXCEPT ![c] = @ + 1]
       \/ /\ users[u].phase # "live" \/ ~Admits(u, users[u].email)
          /\ UNCHANGED <<userVars, used>>
    /\ Return(p)
    /\ UNCHANGED <<requestVars, rbac, expired, provided, queue, ctl, sessions, faults>>

-----------------------------------------------------------------------------
(* The user controller: one worker, one key at a time *)

Continue(step) == ctl' = [ctl EXCEPT !.step = step]
Done == ctl' = IdleController /\ UNCHANGED queue
Retry == ctl' = IdleController /\ queue' = queue \cup {ctl.user}

\* Mutant: a Ready user's sign-up request is not looked for.
FirstStep_NoCleanup(u, ready) ==
    CASE u \in OIDCUsers -> "provider"
      [] u \in DockyardsUsers /\ ready = "True" -> "authorize"
      [] u \in DockyardsUsers /\ ready = "False" -> "verification"
      [] u \in DockyardsUsers /\ ready = "none" -> "markNotReady"
      [] OTHER -> "idle"

\* What Reconcile does first, by provider and Ready condition of the copy it read.
FirstStep(u, ready) ==
    CASE u \in OIDCUsers -> "provider"
      [] u \in DockyardsUsers /\ ready = "True" -> "cleanup"
      [] u \in DockyardsUsers /\ ready = "False" -> "verification"
      [] u \in DockyardsUsers /\ ready = "none" -> "markNotReady"
      [] OTHER -> "idle"

StartReconcile(u) ==
    /\ ctl.step = "idle"
    /\ u \in queue
    /\ queue' = queue \ {u}
    /\ ctl' = IF userCache[u].phase # "live" \/ FirstStep(u, userCache[u].ready) = "idle"
              THEN IdleController
              ELSE [step |-> FirstStep(u, userCache[u].ready), user |-> u,
                    ready |-> userCache[u].ready, authz |-> userCache[u].authz]
    /\ UNCHANGED <<userVars, requestVars, rbac, expired, provided, call, history, faults>>

(***************************************************************************)
(* A merge patch of the status carries the whole list of conditions as      *)
(* computed from the copy that was read, or nothing if that list did not    *)
(* change.                                                                 *)
(***************************************************************************)
WriteConditions(ready, authz) ==
    U!Write([users EXCEPT ![ctl.user].ready = ready, ![ctl.user].authz = authz])

PatchConditions(ready, authz) ==
    IF ready = ctl.ready /\ authz = ctl.authz THEN UNCHANGED userVars
                                             ELSE WriteConditions(ready, authz)

\* Mutant: the patched user is a copy that the rest of the reconciliation does not see.
SetReady_ByValue(value, next) ==
    \/ /\ users[ctl.user].phase = "live"
       /\ PatchConditions(value, ctl.authz)
       /\ Continue(next)
       /\ UNCHANGED queue
    \/ users[ctl.user].phase # "live" /\ Retry /\ UNCHANGED userVars

\* Patches the Ready condition and goes on, or gives up because the user is gone.
SetReady(value, next) ==
    \/ /\ users[ctl.user].phase = "live"
       /\ PatchConditions(value, ctl.authz)
       /\ ctl' = [ctl EXCEPT !.ready = value, !.step = next]
       /\ UNCHANGED queue
    \/ users[ctl.user].phase # "live" /\ Retry /\ UNCHANGED userVars

\* What follows for a user whose provider was found.
AfterProvider(ready) ==
    CASE ready = "none" -> "markVerified" [] ready = "True" -> "cleanup" [] OTHER -> "idle"

\* Mutant: a provider that is not found ends the reconciliation without an error.
LookUpProvider_NoError ==
    /\ ctl.step = "provider"
    /\ IF ctl.user \in provided THEN Continue(AfterProvider(ctl.ready)) /\ UNCHANGED queue ELSE Done
    /\ UNCHANGED <<userVars, requestVars, rbac, expired, provided, call, history, faults>>

(***************************************************************************)
(* Every pass of a user of an identity provider, Ready or not, asks for the *)
(* public namespace, without the default that the callback has, and for the *)
(* provider in it.  Without either the pass ends with an error.             *)
(***************************************************************************)
LookUpProvider ==
    /\ ctl.step = "provider"
    /\ IF ctl.user \in provided THEN Continue(AfterProvider(ctl.ready)) /\ UNCHANGED queue ELSE Retry
    /\ UNCHANGED <<userVars, requestVars, rbac, expired, provided, call, history, faults>>

MarkVerified ==
    /\ ctl.step = "markVerified"
    /\ SetReady("True", "cleanup")
    /\ UNCHANGED <<requestVars, rbac, expired, provided, call, history, faults>>

\* Mutant: the missing condition is added with status Unknown.
MarkNotReady_Unknown ==
    /\ ctl.step = "markNotReady"
    /\ SetReady("Unknown", "verification")
    /\ UNCHANGED <<requestVars, rbac, expired, provided, call, history, faults>>

MarkNotReady ==
    /\ ctl.step = "markNotReady"
    /\ SetReady("False", "verification")
    /\ UNCHANGED <<requestVars, rbac, expired, provided, call, history, faults>>

\* Mutant: the verified condition need not be there.
ReconcileVerification_NoCondition ==
    LET u == ctl.user IN
    /\ ctl.step = "verification"
    /\ SignUpOf(requestCache, u) = {}
    /\ SignUpOf(requests, u) = {}
    /\ \E c \in {d \in SignUpCodes : requests[d].phase = "free"} :
         R!Write([requests EXCEPT ![c] = [phase |-> "live", owner |-> u, verified |-> FALSE]])
    /\ Continue("promote")
    /\ UNCHANGED <<userVars, rbac, expired, provided, queue, call, history, faults>>

(***************************************************************************)
(* CreateOrPatch of the sign-up request: found in the copy it is left       *)
(* alone, since only its verified condition and its code differ between     *)
(* versions; otherwise it is created, which fails if the copy is late.      *)
(***************************************************************************)
ReconcileVerification ==
    LET u == ctl.user
        known == SignUpOf(requestCache, u)
        fresh == {c \in SignUpCodes : requests[c].phase = "free"}
    IN
    /\ ctl.step = "verification"
    /\ \/ /\ \E c \in known : requestCache[c].verified
          /\ Continue("promote")
          /\ UNCHANGED <<requestVars, queue>>
       \/ /\ \E c \in known : ~requestCache[c].verified
          /\ Done
          /\ UNCHANGED requestVars
       \/ /\ known = {} /\ SignUpOf(requests, u) = {}
          /\ \E c \in fresh :
               R!Write([requests EXCEPT ![c] = [phase |-> "live", owner |-> u, verified |-> FALSE]])
          /\ Done
       \/ /\ known = {} /\ (SignUpOf(requests, u) # {} \/ fresh = {})
          /\ Retry
          /\ UNCHANGED requestVars
    /\ UNCHANGED <<userVars, rbac, expired, provided, call, history, faults>>

Promote ==
    /\ ctl.step = "promote"
    /\ SetReady("True", "cleanup")
    /\ UNCHANGED <<requestVars, rbac, expired, provided, call, history, faults>>

\* Mutant: the authorization is reported without being reconciled.
Cleanup_ReportFirst ==
    /\ ctl.step = "cleanup"
    /\ R!Write([c \in Codes |-> IF c \in SignUpOf(requests, ctl.user)
                                THEN [requests[c] EXCEPT !.phase = "gone"]
                                ELSE requests[c]])
    /\ Continue("report")
    /\ UNCHANGED <<userVars, rbac, expired, provided, queue, call, history, faults>>

\* "if User is Ready, make sure VerificationRequest is deleted"
Cleanup ==
    /\ ctl.step = "cleanup"
    /\ R!Write([c \in Codes |-> IF c \in SignUpOf(requests, ctl.user)
                                THEN [requests[c] EXCEPT !.phase = "gone"]
                                ELSE requests[c]])
    /\ Continue("authorize")
    /\ UNCHANGED <<userVars, rbac, expired, provided, queue, call, history, faults>>

ReconcileAuthorization ==
    /\ ctl.step = "authorize"
    /\ rbac' = rbac \cup {ctl.user}
    /\ Continue("report")
    /\ UNCHANGED <<userVars, requestVars, expired, provided, queue, call, history, faults>>

ReportAuthorized ==
    /\ ctl.step = "report"
    /\ \/ users[ctl.user].phase = "live" /\ PatchConditions(ctl.ready, "True") /\ Done
       \/ users[ctl.user].phase # "live" /\ Retry /\ UNCHANGED userVars
    /\ UNCHANGED <<requestVars, rbac, expired, provided, call, history, faults>>

(***************************************************************************)
(* The error is reported "as best effort" and returned.  Its message may    *)
(* differ from the last one when the status does not.                       *)
(***************************************************************************)
ReportUnauthorized ==
    /\ ctl.step = "reportError"
    /\ \/ users[ctl.user].phase = "live" /\ WriteConditions(ctl.ready, "False")
       \/ users[ctl.user].phase = "live" /\ PatchConditions(ctl.ready, "False")
       \/ users[ctl.user].phase # "live" /\ UNCHANGED userVars
    /\ Retry
    /\ UNCHANGED <<requestVars, rbac, expired, provided, call, history, faults>>

-----------------------------------------------------------------------------
(* Informers, time, failures *)

Changed(old, new) == {u \in Users : old[u] # new[u]}

\* An event of a user puts the user in the queue.
DeliverUser ==
    /\ U!Deliver
    /\ queue' = queue \cup Changed(userCache, userCache')
    /\ UNCHANGED <<requestVars, rbac, expired, provided, ctl, call, history, faults>>

\* Mutant: the controller does not watch verification requests.
DeliverRequest_NotWatched ==
    /\ R!Deliver
    /\ UNCHANGED <<userVars, rbac, expired, provided, queue, ctl, call, history, faults>>

\* Mutant: events of deletions are filtered out.
DeliverRequest_NoDeletes ==
    /\ R!Deliver
    /\ queue' = queue \cup {requestCache'[c].owner :
                              c \in {d \in Codes : /\ requestCache[d] # requestCache'[d]
                                                   /\ requestCache'[d].phase # "gone"}}
    /\ UNCHANGED <<userVars, rbac, expired, provided, ctl, call, history, faults>>

\* An event of a verification request puts the user it refers to in the queue.
DeliverRequest ==
    /\ R!Deliver
    /\ queue' = queue \cup {requestCache'[c].owner :
                              c \in {d \in Codes : requestCache[d] # requestCache'[d]}}
    /\ UNCHANGED <<userVars, rbac, expired, provided, ctl, call, history, faults>>

\* The periodic resync puts every known user in the queue.
Resync ==
    /\ queue' = queue \cup {u \in Users : userCache[u].phase = "live"}
    /\ UNCHANGED <<userVars, requestVars, rbac, expired, provided, ctl, call, history, faults>>

Expire(c) ==
    /\ requests[c].phase # "free" /\ c \notin expired
    /\ expired' = expired \cup {c}
    /\ UNCHANGED <<userVars, requestVars, rbac, provided, queue, ctl, call, history, faults>>

(***************************************************************************)
(* An administrator adds or removes the provider or the public namespace,   *)
(* or the process has not read its configuration yet.                       *)
(***************************************************************************)
ConfigureProvider(u) ==
    /\ u \in OIDCUsers
    /\ provided' = IF u \in provided THEN provided \ {u} ELSE provided \cup {u}
    /\ UNCHANGED <<userVars, requestVars, rbac, expired, queue, ctl, call, history, faults>>

Fault == faults < MaxFaults /\ faults' = faults + 1

\* An API call of the controller fails; a failed authorization is reported first.
ControllerError ==
    /\ Fault
    /\ ctl.step # "idle"
    /\ IF ctl.step = "authorize" THEN Continue("reportError") /\ UNCHANGED queue ELSE Retry
    /\ UNCHANGED <<userVars, requestVars, rbac, expired, provided, call, history>>

CallError(p) ==
    /\ Fault
    /\ call[p].step # "idle"
    /\ Return(p)
    /\ UNCHANGED <<userVars, requestVars, rbac, expired, provided, queue, ctl, history>>

\* The process stops between two steps and starts again: it lists everything.
Restart ==
    /\ Fault
    /\ U!Relist /\ R!Relist
    /\ ctl' = IdleController
    /\ call' = [p \in Calls |-> IdleCall]
    /\ queue' = {u \in Users : users[u].phase = "live"}
                  \cup {requests[c].owner : c \in {d \in Codes : requests[d].phase = "live"}}
    /\ UNCHANGED <<rbac, expired, provided, history>>

\* An administrator deletes a user; no code of the repository does.
DeleteUser(u) ==
    /\ u \in Removable /\ Fault
    /\ users[u].phase = "live"
    /\ U!Write([users EXCEPT ![u].phase = "gone"])
    /\ UNCHANGED <<requestVars, rbac, expired, provided, queue, ctl, call, history>>

\* The server's garbage collector follows the owner reference.
CollectRequest(c) ==
    /\ requests[c].phase = "live" /\ users[requests[c].owner].phase # "live"
    /\ R!Write([requests EXCEPT ![c].phase = "gone"])
    /\ UNCHANGED <<userVars, rbac, expired, provided, queue, ctl, call, history, faults>>

-----------------------------------------------------------------------------

Controller ==
    \/ LookUpProvider \/ MarkVerified \/ MarkNotReady \/ ReconcileVerification \/ Promote
    \/ Cleanup \/ ReconcileAuthorization \/ ReportAuthorized \/ ReportUnauthorized

Handler ==
    \/ \E u \in Users, e \in Emails, w \in Passwords :
         CreateGlobalUser(u, e, w) \/ Callback(u, e, w)
    \/ \E e \in Emails, w \in Passwords : CreateGlobalTokens(e, w)
    \/ \E u \in Users, old, new \in Passwords : UpdateUserPassword(u, old, new)
    \/ \E e \in Emails, c \in Codes : CreateGlobalPasswordResetRequest(e, c)
    \/ \E p \in Calls, c \in Codes : VerifyList(p, c) \/ ResetList(p, c)
    \/ \E p \in Calls : VerifyPatch(p) \/ ResetDelete(p) \/ ResetCheck(p)
    \/ \E p \in Calls, w \in Passwords : ResetPatch(p, w)

Environment ==
    \/ \E c \in Codes : Expire(c) \/ CollectRequest(c)
    \/ \E u \in Users : DeleteUser(u) \/ ConfigureProvider(u)
    \/ \E p \in Calls : CallError(p)
    \/ Resync \/ ControllerError \/ Restart

Next ==
    \/ Handler
    \/ Controller
    \/ \E u \in Users : StartReconcile(u)
    \/ DeliverUser \/ DeliverRequest
    \/ Environment

Spec == Init /\ [][Next]_vars

(***************************************************************************)
(* The controller goes on with a key it has started, the work queue hands   *)
(* out every key (it is first in, first out), and watches deliver.  Nothing *)
(* is assumed of callers, of time or of failures, which MaxFaults bounds.   *)
(***************************************************************************)
Fairness ==
    /\ WF_vars(Controller)
    /\ \A u \in Users : SF_vars(StartReconcile(u))
    /\ WF_vars(DeliverUser) /\ WF_vars(DeliverRequest)

FairSpec == Spec /\ Fairness

-----------------------------------------------------------------------------
(* Properties *)

\* The user has had a sign-up request marked verified.
Verified(u) == \E c \in SignUpCodes : requests[c].owner = u /\ requests[c].verified

(***************************************************************************)
(* A dockyards user is Ready only after a sign-up request of that very user *)
(* was verified, whatever copy the controller and the code lookup read.     *)
(***************************************************************************)
VerifiedBeforeReady ==
    \A u \in DockyardsUsers : users[u].ready = "True" => Verified(u)

(***************************************************************************)
(* CreateGlobalTokens, which trusts the Ready condition of its own copy,    *)
(* never logs in a dockyards user who was not verified.                     *)
(***************************************************************************)
SessionsOnlyForVerified == \A u \in sessions \cap DockyardsUsers : Verified(u)

(***************************************************************************)
(* UserAuthorizationReady is True only when the user's cluster role and     *)
(* binding exist, also when the condition is carried over by a patch        *)
(* computed from an older copy.                                             *)
(***************************************************************************)
AuthorizationReported == \A u \in Users : users[u].authz = "True" => u \in rbac

(***************************************************************************)
(* "the verification is one time use, even in the failure cases": a reset   *)
(* code sets at most one password, though any number of calls may have      *)
(* found it before the first of them deleted it.                            *)
(***************************************************************************)
ResetCodeUsedOnce == \A c \in ResetCodes : used[c] <= 1

\* The calls that have deleted request c and not yet used it.
Holders(c) == {p \in Calls : call[p].step \in {"check", "patch"} /\ call[p].code = c}

\* What a reset code is worth to the abstract specification.
ResetCodeState ==
    [c \in ResetCodes |->
        CASE requests[c].phase = "free" -> "unissued"
          [] requests[c].phase = "live" -> "valid"
          [] requests[c].phase = "gone" /\ Holders(c) # {} -> "claimed"
          [] requests[c].phase = "gone" /\ Holders(c) = {} /\ used[c] > 0 -> "spent"
          [] OTHER -> "void"]

OneTime == INSTANCE OneTimeCode
             WITH Code <- ResetCodes, state <- ResetCodeState,
                  passwords <- [c \in ResetCodes |-> used[c]]

(***************************************************************************)
(* The handlers, with the informers and failures under them, implement      *)
(* OneTimeCode for the codes of password reset requests.                    *)
(***************************************************************************)
ImplementsOneTimeCode == OneTime!Spec

(***************************************************************************)
(* A user that logs in through an identity provider becomes Ready and gets  *)
(* its authorization, or is deleted, if from some moment on the controller  *)
(* finds the provider: nobody watches providers or the configuration, so    *)
(* passes that failed until then must have been retried.                    *)
(***************************************************************************)
OIDCUserAuthorized ==
    \A u \in OIDCUsers :
        ~<>[](u \in provided /\ users[u].phase = "live"
              /\ ~(users[u].ready = "True" /\ u \in rbac))

(***************************************************************************)
(* A user stops being Ready only when a reconciliation works from a copy    *)
(* older than the first Ready condition; no other patch of the conditions   *)
(* takes it back, though each carries the whole list.                       *)
(***************************************************************************)
ReadyLostOnlyToOldestCopy ==
    [][\A u \in Users :
         /\ users[u].phase = "live" /\ users'[u].phase = "live"
         /\ users[u].ready = "True" /\ users'[u].ready # "True"
         => ctl.user = u /\ ctl.ready = "none"]_users

(***************************************************************************)
(* A live, verified sign-up request makes its user Ready, unless the        *)
(* request is consumed by a password reset or its user is deleted.          *)
(***************************************************************************)
VerifiedLeadsToReady ==
    \A c \in SignUpCodes :
        (requests[c].phase = "live" /\ requests[c].verified)
        ~> \/ users[requests[c].owner].ready = "True"
           \/ users[requests[c].owner].phase = "gone"
           \/ requests[c].phase = "gone"

(***************************************************************************)
(* "if User is Ready, make sure VerificationRequest is deleted": in the end *)
(* a Ready user has no sign-up request, even if one was created again from  *)
(* an old copy of the user.                                                 *)
(***************************************************************************)
ReadyLeadsToCleanup ==
    <>[](\A u \in DockyardsUsers :
           users[u].phase = "live" /\ users[u].ready = "True" => SignUpOf(requests, u) = {})

(***************************************************************************)
(* A new user is sent a sign-up code (while there are codes to draw), also  *)
(* after a password reset consumed the first one.                           *)
(***************************************************************************)
UnverifiedGetsRequest ==
    \A u \in DockyardsUsers :
        users[u].phase = "live"
        ~> \/ users[u].phase = "gone" \/ users[u].ready = "True"
           \/ SignUpOf(requests, u) # {}
           \/ \A c \in SignUpCodes : requests[c].phase # "free"

=============================================================================
