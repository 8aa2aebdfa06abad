--------------------------- MODULE AccountsProofs ---------------------------
(***************************************************************************)
(* Theorems about Accounts for any number of users, codes and calls, any    *)
(* delay of the informers and any number of failures.                       *)
(***************************************************************************)
EXTENDS Accounts, SequenceTheorems, TLAPS

-----------------------------------------------------------------------------
(* An informer's versions stay in every set that the written versions are in. *)

UsersIn(S) == users \in S /\ userCache \in S /\ userWatch \in Seq(S)
RequestsIn(S) == requests \in S /\ requestCache \in S /\ requestWatch \in Seq(S)

LEMMA UserWrite ==
  ASSUME NEW S, UsersIn(S), NEW s \in S, U!Write(s)
  PROVE  users' \in S /\ userCache' \in S /\ userWatch' \in Seq(S)
BY AppendProperties DEF UsersIn, U!Write

LEMMA RequestWrite ==
  ASSUME NEW S, RequestsIn(S), NEW s \in S, R!Write(s)
  PROVE  requests' \in S /\ requestCache' \in S /\ requestWatch' \in Seq(S)
BY AppendProperties DEF RequestsIn, R!Write

LEMMA UserRead ==
  ASSUME NEW S, UsersIn(S), U!Deliver \/ U!Relist
  PROVE  users' \in S /\ userCache' \in S /\ userWatch' \in Seq(S)
<1>1. CASE U!Deliver
  BY <1>1, HeadTailProperties DEF UsersIn, U!Deliver
<1>2. CASE U!Relist
  BY <1>2, EmptySeq DEF UsersIn, U!Relist
<1> QED BY <1>1, <1>2

LEMMA RequestRead ==
  ASSUME NEW S, RequestsIn(S), R!Deliver \/ R!Relist
  PROVE  requests' \in S /\ requestCache' \in S /\ requestWatch' \in Seq(S)
<1>1. CASE R!Deliver
  BY <1>1, HeadTailProperties DEF RequestsIn, R!Deliver
<1>2. CASE R!Relist
  BY <1>2, EmptySeq DEF RequestsIn, R!Relist
<1> QED BY <1>1, <1>2

-----------------------------------------------------------------------------
(* Types *)

LEMMA Defaults == AnyUser \in Users /\ AnyCode \in Codes
                  /\ (CHOOSE e \in Emails : TRUE) \in Emails
                  /\ (CHOOSE w \in Passwords : TRUE) \in Passwords
BY AccountsAssumption DEF AnyUser, AnyCode

LocalTypes ==
    /\ rbac \subseteq Users
    /\ expired \subseteq Codes
    /\ provided \subseteq OIDCUsers
    /\ queue \subseteq Users
    /\ ctl \in [step: ControllerStep, user: Users, ready: Condition, authz: Condition]
    /\ call \in [Calls -> [step: CallStep, code: Codes]]
    /\ sessions \subseteq Users
    /\ used \in [Codes -> Nat]
    /\ faults \in 0 .. MaxFaults

LEMMA TypeOKParts == TypeOK <=> UsersIn(UserStore) /\ RequestsIn(RequestStore) /\ LocalTypes
BY DEF TypeOK, UsersIn, RequestsIn, LocalTypes

LEMMA InitTypes == Init => TypeOK
<1> SUFFICES ASSUME Init PROVE TypeOK
  OBVIOUS
<1>1. UsersIn(UserStore)
  BY Defaults, EmptySeq DEF Init, UsersIn, UserStore, User, Phase, Condition
<1>2. RequestsIn(RequestStore)
  BY Defaults, EmptySeq DEF Init, RequestsIn, RequestStore, VerificationRequest, Phase
<1>3. LocalTypes
  BY Defaults, AccountsAssumption
  DEF Init, LocalTypes, IdleController, IdleCall, ControllerStep, CallStep, Condition
<1> QED BY <1>1, <1>2, <1>3, TypeOKParts

LEMMA LocalTypesDef ==
  ASSUME TypeOK
  PROVE  LocalTypes /\ UsersIn(UserStore) /\ RequestsIn(RequestStore)
BY TypeOKParts

\* The kinds of writes the actions make.
LEMMA UserUpdateTypes ==
  ASSUME TypeOK, NEW u \in Users, NEW x \in User
  PROVE  [users EXCEPT ![u] = x] \in UserStore
BY DEF TypeOK, UserStore

LEMMA RequestUpdateTypes ==
  ASSUME TypeOK, NEW c \in Codes, NEW x \in VerificationRequest
  PROVE  [requests EXCEPT ![c] = x] \in RequestStore
BY DEF TypeOK, RequestStore

LEMMA PatchConditionsTypes ==
  ASSUME TypeOK, NEW ready \in Condition, NEW authz \in Condition,
         PatchConditions(ready, authz) \/ WriteConditions(ready, authz)
  PROVE  users' \in UserStore /\ userCache' \in UserStore /\ userWatch' \in Seq(UserStore)
<1> DEFINE s == [users EXCEPT ![ctl.user].ready = ready, ![ctl.user].authz = authz]
<1>1. s \in UserStore
  BY DEF TypeOK, UserStore, User
<1>2. U!Write(s) \/ UNCHANGED userVars
  BY DEF PatchConditions, WriteConditions
<1> QED BY <1>1, <1>2, UserWrite, LocalTypesDef DEF userVars, UsersIn

LEMMA SetReadyTypes ==
  ASSUME TypeOK, NEW value \in Condition, NEW next \in ControllerStep, SetReady(value, next)
  PROVE  /\ users' \in UserStore /\ userCache' \in UserStore /\ userWatch' \in Seq(UserStore)
         /\ queue' \subseteq Users
         /\ ctl' \in [step: ControllerStep, user: Users, ready: Condition, authz: Condition]
<1>1. CASE users[ctl.user].phase = "live" /\ PatchConditions(value, ctl.authz)
           /\ ctl' = [ctl EXCEPT !.ready = value, !.step = next] /\ UNCHANGED queue
  <2>1. ctl.authz \in Condition
    BY DEF TypeOK
  <2> QED BY <1>1, <2>1, PatchConditionsTypes DEF TypeOK
<1>2. CASE Retry /\ UNCHANGED userVars
  BY <1>2, Defaults DEF TypeOK, Retry, IdleController, userVars, ControllerStep, Condition
<1> QED BY <1>1, <1>2 DEF SetReady

LEMMA CallTypes ==
  ASSUME TypeOK, NEW p \in Calls
  PROVE  /\ \A step \in CallStep, c \in Codes :
              Goto(p, step, c) => call' \in [Calls -> [step: CallStep, code: Codes]]
         /\ Return(p) => call' \in [Calls -> [step: CallStep, code: Codes]]
         /\ call[p].code \in Codes
<1>1. IdleCall \in [step: CallStep, code: Codes]
  BY Defaults DEF IdleCall, CallStep
<1>2. ASSUME NEW step \in CallStep, NEW c \in Codes, Goto(p, step, c)
      PROVE  call' \in [Calls -> [step: CallStep, code: Codes]]
  <2>1. [step |-> step, code |-> c] \in [step: CallStep, code: Codes]
    OBVIOUS
  <2> QED BY <1>2, <2>1 DEF Goto, TypeOK
<1>3. ASSUME Return(p)
      PROVE  call' \in [Calls -> [step: CallStep, code: Codes]]
  BY <1>1, <1>3 DEF Return, TypeOK
<1>4. call[p].code \in Codes
  BY DEF TypeOK
<1> QED BY <1>2, <1>3, <1>4

\* The steps of the handlers.
LEMMA HandlerTypes == ASSUME TypeOK, Handler PROVE TypeOK'
<1> USE LocalTypesDef, Defaults
<1>1. ASSUME NEW u \in Users, NEW e \in Emails, NEW w \in Passwords, CreateGlobalUser(u, e, w)
      PROVE  TypeOK'
  <2> DEFINE x == [phase |-> "live", email |-> e, password |-> w, ready |-> "none", authz |-> "none"]
  <2>1. x \in User
    BY DEF User, Phase, Condition
  <2>2. [users EXCEPT ![u] = x] \in UserStore
    BY <2>1, UserUpdateTypes
  <2>3. U!Write([users EXCEPT ![u] = x])
    BY <1>1 DEF CreateGlobalUser
  <2>4. users' \in UserStore /\ userCache' \in UserStore /\ userWatch' \in Seq(UserStore)
    BY <2>2, <2>3, UserWrite
  <2> QED BY <1>1, <2>4 DEF CreateGlobalUser, TypeOK, requestVars, history
<1>2. ASSUME NEW u \in Users, NEW e \in Emails, NEW w \in Passwords, Callback(u, e, w)
      PROVE  TypeOK'
  <2> DEFINE x == [phase |-> "live", email |-> e, password |-> w, ready |-> "none", authz |-> "none"]
  <2>1. x \in User
    BY DEF User, Phase, Condition
  <2>2. [users EXCEPT ![u] = x] \in UserStore
    BY <2>1, UserUpdateTypes
  <2>3. U!Write([users EXCEPT ![u] = x]) \/ UNCHANGED userVars
    BY <1>2 DEF Callback
  <2>4. users' \in UserStore /\ userCache' \in UserStore /\ userWatch' \in Seq(UserStore)
    BY <2>2, <2>3, UserWrite DEF userVars, UsersIn
  <2> QED BY <1>2, <2>4 DEF Callback, TypeOK, requestVars
<1>3. ASSUME NEW e \in Emails, NEW w \in Passwords, CreateGlobalTokens(e, w)
      PROVE  TypeOK'
  BY <1>3 DEF CreateGlobalTokens, WithEmail, TypeOK, userVars, requestVars
<1>4. ASSUME NEW u \in Users, NEW old \in Passwords, NEW new \in Passwords,
             UpdateUserPassword(u, old, new)
      PROVE  TypeOK'
  <2>1. [users EXCEPT ![u].password = new] \in UserStore
    BY DEF TypeOK, UserStore, User
  <2>2. U!Write([users EXCEPT ![u].password = new])
    BY <1>4 DEF UpdateUserPassword
  <2>3. users' \in UserStore /\ userCache' \in UserStore /\ userWatch' \in Seq(UserStore)
    BY <2>1, <2>2, UserWrite
  <2> QED BY <1>4, <2>3 DEF UpdateUserPassword, TypeOK, requestVars, history
<1>5. ASSUME NEW e \in Emails, NEW c \in Codes, CreateGlobalPasswordResetRequest(e, c)
      PROVE  TypeOK'
  <2>1. PICK u \in DockyardsUsers :
          R!Write([requests EXCEPT ![c] = [phase |-> "live", owner |-> u, verified |-> FALSE]])
    BY <1>5 DEF CreateGlobalPasswordResetRequest
  <2>2. [phase |-> "live", owner |-> u, verified |-> FALSE] \in VerificationRequest
    BY DEF VerificationRequest, Phase, Users
  <2>3. requests' \in RequestStore /\ requestCache' \in RequestStore
        /\ requestWatch' \in Seq(RequestStore)
    BY <2>1, <2>2, RequestUpdateTypes, RequestWrite
  <2> QED BY <1>5, <2>3 DEF CreateGlobalPasswordResetRequest, TypeOK, userVars, history
<1>6. ASSUME NEW p \in Calls, NEW c \in Codes, VerifyList(p, c) \/ ResetList(p, c)
      PROVE  TypeOK'
  <2>1. call' \in [Calls -> [step: CallStep, code: Codes]]
    BY <1>6, CallTypes DEF VerifyList, ResetList, CallStep
  <2> QED BY <1>6, <2>1 DEF VerifyList, ResetList, TypeOK, userVars, requestVars, history
<1>7. ASSUME NEW p \in Calls, VerifyPatch(p)
      PROVE  TypeOK'
  <2> DEFINE s == [d \in Codes |-> IF d \in Named(call[p].code)
                                  THEN [requests[d] EXCEPT !.verified = TRUE] ELSE requests[d]]
  <2>1. s \in RequestStore
    BY DEF TypeOK, RequestStore, VerificationRequest
  <2>2. R!Write(s)
    BY <1>7 DEF VerifyPatch
  <2>3. requests' \in RequestStore /\ requestCache' \in RequestStore
        /\ requestWatch' \in Seq(RequestStore)
    BY <2>1, <2>2, RequestWrite
  <2> QED BY <1>7, <2>3, CallTypes DEF VerifyPatch, TypeOK, userVars, history
<1>8. ASSUME NEW p \in Calls, ResetDelete(p)
      PROVE  TypeOK'
  <2>1. requests' \in RequestStore /\ requestCache' \in RequestStore
        /\ requestWatch' \in Seq(RequestStore)
    <3>1. CASE UNCHANGED requestVars
      BY <3>1 DEF requestVars, RequestsIn
    <3>2. ASSUME NEW d \in Codes, R!Write([requests EXCEPT ![d].phase = "gone"])
          PROVE  <2>1
      <4>1. [requests EXCEPT ![d].phase = "gone"] \in RequestStore
        BY DEF TypeOK, RequestStore, VerificationRequest, Phase
      <4> QED BY <3>2, <4>1, RequestWrite
    <3> QED BY <1>8, <3>1, <3>2 DEF ResetDelete, Named
  <2>2. call' \in [Calls -> [step: CallStep, code: Codes]]
    BY <1>8, CallTypes DEF ResetDelete, CallStep
  <2> QED BY <1>8, <2>1, <2>2 DEF ResetDelete, TypeOK, userVars, history
<1>9. ASSUME NEW p \in Calls, ResetCheck(p)
      PROVE  TypeOK'
  <2>1. call' \in [Calls -> [step: CallStep, code: Codes]]
    BY <1>9, CallTypes DEF ResetCheck, CallStep
  <2> QED BY <1>9, <2>1 DEF ResetCheck, TypeOK, userVars, requestVars, history
<1>10. ASSUME NEW p \in Calls, NEW w \in Passwords, ResetPatch(p, w)
       PROVE  TypeOK'
  <2> DEFINE u == requests[call[p].code].owner
             s == [users EXCEPT ![u].password = w]
  <2>1. s \in UserStore
    BY DEF TypeOK, UserStore, User
  <2>2. U!Write(s) \/ UNCHANGED userVars
    BY <1>10 DEF ResetPatch
  <2>3. users' \in UserStore /\ userCache' \in UserStore /\ userWatch' \in Seq(UserStore)
    BY <2>1, <2>2, UserWrite DEF userVars, UsersIn
  <2>4. used' \in [Codes -> Nat]
    BY <1>10 DEF ResetPatch, TypeOK
  <2>5. call' \in [Calls -> [step: CallStep, code: Codes]]
    BY <1>10, CallTypes DEF ResetPatch
  <2> QED BY <1>10, <2>3, <2>4, <2>5 DEF ResetPatch, TypeOK, requestVars
<1> QED BY <1>1, <1>2, <1>3, <1>4, <1>5, <1>6, <1>7, <1>8, <1>9, <1>10 DEF Handler

\* The steps of the controller.
LEMMA ControllerTypes ==
  ASSUME TypeOK, Controller \/ \E u \in Users : StartReconcile(u)
  PROVE  TypeOK'
<1> USE LocalTypesDef, Defaults
<1> DEFINE Ctl == [step: ControllerStep, user: Users, ready: Condition, authz: Condition]
           UsersInPrime == users' \in UserStore /\ userCache' \in UserStore
                           /\ userWatch' \in Seq(UserStore)
           RequestsInPrime == requests' \in RequestStore /\ requestCache' \in RequestStore
                              /\ requestWatch' \in Seq(RequestStore)
<1>a. IdleController \in Ctl
  BY DEF IdleController, ControllerStep, Condition
<1>b. ctl.user \in Users /\ ctl.ready \in Condition /\ ctl.authz \in Condition
  BY DEF TypeOK
<1>c. Done \/ Retry => ctl' \in Ctl /\ queue' \subseteq Users
  BY <1>a, <1>b DEF Done, Retry, TypeOK
<1>d. \A step \in ControllerStep : Continue(step) => ctl' \in Ctl
  BY DEF Continue, TypeOK
<1>1. ASSUME NEW u \in Users, StartReconcile(u)
      PROVE  TypeOK'
  <2>1. userCache[u].ready \in Condition /\ userCache[u].authz \in Condition
    BY DEF TypeOK, UserStore, User
  <2>2. FirstStep(u, userCache[u].ready) \in ControllerStep
    BY <2>1 DEF FirstStep, ControllerStep, Condition, Users
  <2>3. ctl' \in Ctl
    BY <1>1, <1>a, <2>1, <2>2 DEF StartReconcile
  <2> QED BY <1>1, <2>3 DEF StartReconcile, TypeOK, userVars, requestVars, history
<1>2. ASSUME MarkVerified \/ MarkNotReady \/ Promote
      PROVE  TypeOK'
  <2>1. UsersInPrime /\ queue' \subseteq Users /\ ctl' \in Ctl
    BY <1>2, SetReadyTypes DEF MarkVerified, MarkNotReady, Promote, ControllerStep, Condition
  <2> QED BY <1>2, <2>1 DEF MarkVerified, MarkNotReady, Promote, TypeOK, requestVars, history
<1>3. ASSUME ReconcileVerification
      PROVE  TypeOK'
  <2>1. RequestsInPrime
    <3>1. CASE UNCHANGED requestVars
      BY <3>1 DEF requestVars, RequestsIn
    <3>2. ASSUME NEW c \in Codes,
                 R!Write([requests EXCEPT ![c] = [phase |-> "live", owner |-> ctl.user, verified |-> FALSE]])
          PROVE  RequestsInPrime
      <4>1. [phase |-> "live", owner |-> ctl.user, verified |-> FALSE] \in VerificationRequest
        BY <1>b DEF VerificationRequest, Phase
      <4> QED BY <3>2, <4>1, RequestUpdateTypes, RequestWrite
    <3> QED BY <1>3, <3>1, <3>2 DEF ReconcileVerification, requestVars, Codes
  <2>2. ctl' \in Ctl /\ queue' \subseteq Users
    BY <1>3, <1>c, <1>d DEF ReconcileVerification, ControllerStep, TypeOK
  <2> QED BY <1>3, <2>1, <2>2 DEF ReconcileVerification, TypeOK, userVars, history
<1>4. ASSUME Cleanup
      PROVE  TypeOK'
  <2> DEFINE s == [c \in Codes |-> IF c \in SignUpOf(requests, ctl.user)
                                  THEN [requests[c] EXCEPT !.phase = "gone"] ELSE requests[c]]
  <2>1. s \in RequestStore
    BY DEF TypeOK, RequestStore, VerificationRequest, Phase
  <2>2. R!Write(s)
    BY <1>4 DEF Cleanup
  <2>3. RequestsInPrime
    BY <2>1, <2>2, RequestWrite
  <2>4. ctl' \in Ctl
    BY <1>4, <1>d DEF Cleanup, ControllerStep
  <2> QED BY <1>4, <2>3, <2>4 DEF Cleanup, TypeOK, userVars, history
<1>5. ASSUME ReconcileAuthorization
      PROVE  TypeOK'
  <2>1. ctl' \in Ctl
    BY <1>5, <1>d DEF ReconcileAuthorization, ControllerStep
  <2> QED BY <1>5, <1>b, <2>1
          DEF ReconcileAuthorization, TypeOK, userVars, requestVars, history
<1>6. ASSUME ReportAuthorized \/ ReportUnauthorized
      PROVE  TypeOK'
  <2>1. UsersInPrime
    <3>1. CASE UNCHANGED userVars
      BY <3>1 DEF userVars, UsersIn
    <3>2. CASE PatchConditions(ctl.ready, "True") \/ PatchConditions(ctl.ready, "False")
               \/ WriteConditions(ctl.ready, "False")
      BY <1>b, <3>2, PatchConditionsTypes DEF Condition
    <3> QED BY <1>6, <3>1, <3>2 DEF ReportAuthorized, ReportUnauthorized
  <2>2. ctl' \in Ctl /\ queue' \subseteq Users
    BY <1>6, <1>c DEF ReportAuthorized, ReportUnauthorized
  <2> QED BY <1>6, <2>1, <2>2
          DEF ReportAuthorized, ReportUnauthorized, TypeOK, requestVars, history
<1>7. ASSUME LookUpProvider
      PROVE  TypeOK'
  <2>1. AfterProvider(ctl.ready) \in ControllerStep
    BY DEF AfterProvider, ControllerStep
  <2>2. ctl' \in Ctl /\ queue' \subseteq Users
    BY <1>7, <1>c, <1>d, <2>1 DEF LookUpProvider, TypeOK
  <2> QED BY <1>7, <2>2 DEF LookUpProvider, TypeOK, userVars, requestVars, history
<1> QED BY <1>1, <1>2, <1>3, <1>4, <1>5, <1>6, <1>7 DEF Controller

\* The steps of the informers and of the environment.
LEMMA EnvironmentTypes ==
  ASSUME TypeOK, DeliverUser \/ DeliverRequest \/ Environment
  PROVE  TypeOK'
<1> USE LocalTypesDef, Defaults
<1> DEFINE Ctl == [step: ControllerStep, user: Users, ready: Condition, authz: Condition]
<1>a. IdleController \in Ctl
  BY DEF IdleController, ControllerStep, Condition
<1>b. \A c \in Codes : requests[c].owner \in Users /\ requestCache[c].owner \in Users
  BY DEF TypeOK, RequestStore, VerificationRequest
<1>c. Fault => faults' \in 0 .. MaxFaults
  BY AccountsAssumption DEF Fault, TypeOK
<1>1. ASSUME DeliverUser
      PROVE  TypeOK'
  <2>1. users' \in UserStore /\ userCache' \in UserStore /\ userWatch' \in Seq(UserStore)
    BY <1>1, UserRead DEF DeliverUser
  <2> QED BY <1>1, <2>1 DEF DeliverUser, Changed, TypeOK, requestVars, history
<1>2. ASSUME DeliverRequest
      PROVE  TypeOK'
  <2>1. requests' \in RequestStore /\ requestCache' \in RequestStore
        /\ requestWatch' \in Seq(RequestStore)
    BY <1>2, RequestRead DEF DeliverRequest
  <2>2. \A c \in Codes : requestCache'[c].owner \in Users
    BY <2>1 DEF RequestStore, VerificationRequest
  <2> QED BY <1>2, <2>1, <2>2 DEF DeliverRequest, TypeOK, userVars, history
<1>3. ASSUME NEW c \in Codes, Expire(c)
      PROVE  TypeOK'
  BY <1>3 DEF Expire, TypeOK, userVars, requestVars, history
<1>4. ASSUME NEW c \in Codes, CollectRequest(c)
      PROVE  TypeOK'
  <2>1. [requests EXCEPT ![c].phase = "gone"] \in RequestStore
    BY DEF TypeOK, RequestStore, VerificationRequest, Phase
  <2>2. requests' \in RequestStore /\ requestCache' \in RequestStore
        /\ requestWatch' \in Seq(RequestStore)
    BY <1>4, <2>1, RequestWrite DEF CollectRequest
  <2> QED BY <1>4, <2>2 DEF CollectRequest, TypeOK, userVars, history
<1>5. ASSUME NEW u \in Users, DeleteUser(u)
      PROVE  TypeOK'
  <2>1. [users EXCEPT ![u].phase = "gone"] \in UserStore
    BY DEF TypeOK, UserStore, User, Phase
  <2>2. users' \in UserStore /\ userCache' \in UserStore /\ userWatch' \in Seq(UserStore)
    BY <1>5, <2>1, UserWrite DEF DeleteUser
  <2> QED BY <1>5, <1>c, <2>2 DEF DeleteUser, TypeOK, requestVars, history
<1>6. ASSUME NEW p \in Calls, CallError(p)
      PROVE  TypeOK'
  BY <1>6, <1>c, CallTypes DEF CallError, TypeOK, userVars, requestVars, history
<1>7. ASSUME Resync
      PROVE  TypeOK'
  BY <1>7 DEF Resync, TypeOK, userVars, requestVars, history
<1>8. ASSUME ControllerError
      PROVE  TypeOK'
  <2>1. ctl' \in Ctl /\ queue' \subseteq Users
    BY <1>8, <1>a DEF ControllerError, Continue, Retry, ControllerStep, TypeOK
  <2> QED BY <1>8, <1>c, <2>1 DEF ControllerError, TypeOK, userVars, requestVars, history
<1>9. ASSUME Restart
      PROVE  TypeOK'
  <2>1. /\ users' \in UserStore /\ userCache' \in UserStore /\ userWatch' \in Seq(UserStore)
        /\ requests' \in RequestStore /\ requestCache' \in RequestStore
        /\ requestWatch' \in Seq(RequestStore)
    BY <1>9, UserRead, RequestRead DEF Restart
  <2>2. call' \in [Calls -> [step: CallStep, code: Codes]]
    BY <1>9 DEF Restart, IdleCall, CallStep
  <2> QED BY <1>9, <1>a, <1>b, <1>c, <2>1, <2>2 DEF Restart, TypeOK, history
<1>10. ASSUME NEW u \in Users, ConfigureProvider(u)
       PROVE  TypeOK'
  BY <1>10 DEF ConfigureProvider, TypeOK, userVars, requestVars, history
<1> QED BY <1>1, <1>2, <1>3, <1>4, <1>5, <1>6, <1>7, <1>8, <1>9, <1>10 DEF Environment

LEMMA NextTypes == TypeOK /\ [Next]_vars => TypeOK'
<1>1. TypeOK /\ UNCHANGED vars => TypeOK'
  BY DEF vars, TypeOK
<1> QED BY <1>1, HandlerTypes, ControllerTypes, EnvironmentTypes DEF Next

(***************************************************************************)
(* Every variable keeps its type in every behaviour: no sequence of calls,  *)
(* reconciliations, deliveries and failures takes the controller to a step  *)
(* or a user to a condition that the code does not know.                    *)
(***************************************************************************)
THEOREM AccountsTyped == Spec => []TypeOK
<1>1. Init => TypeOK
  BY InitTypes
<1>2. TypeOK /\ [Next]_vars => TypeOK'
  BY NextTypes
<1> QED BY <1>1, <1>2, PTL DEF Spec

-----------------------------------------------------------------------------
(* One use of a reset code *)

(***************************************************************************)
(* The inductive invariant.  A password is set from "patch", so it must be  *)
(* known that at most one call is between the deletion of a request and its *)
(* use, that the request is gone by then, and that it was not used before.  *)
(***************************************************************************)
CodeInv(c) ==
    /\ used[c] \in {0, 1}
    /\ used[c] = 1 => requests[c].phase = "gone" /\ Holders(c) = {}
    /\ Holders(c) # {} => requests[c].phase = "gone"
    /\ \A p, q \in Holders(c) : p = q

ResetInv == \A c \in ResetCodes : CodeInv(c)

\* A step that revives no request and adds no holder keeps the invariant.
LEMMA CodeInvFrame ==
  ASSUME NEW c \in ResetCodes, CodeInv(c),
         used'[c] = used[c],
         requests[c].phase = "gone" => requests'[c].phase = "gone",
         Holders(c)' \subseteq Holders(c)
  PROVE  CodeInv(c)'
BY DEF CodeInv

\* Reset requests have names of their own.
LEMMA ResetNames ==
  ASSUME NEW c \in ResetCodes
  PROVE  Named(c) \subseteq {c} /\ c \in Codes /\ c \notin SignUpCodes
BY AccountsAssumption DEF Named, SameName, Codes

\* How one call's step changes the holders.
LEMMA HoldersStep ==
  ASSUME TypeOK, NEW p \in Calls, NEW c \in Codes
  PROVE  /\ Return(p) => Holders(c)' = Holders(c) \ {p}
         /\ \A step, d : Goto(p, step, d) =>
              Holders(c)' = IF step \in {"check", "patch"} /\ d = c
                            THEN Holders(c) \cup {p} ELSE Holders(c) \ {p}
<1>1. ASSUME Return(p) PROVE Holders(c)' = Holders(c) \ {p}
  BY <1>1 DEF Return, IdleCall, Holders, TypeOK
<1>2. ASSUME NEW step, NEW d, Goto(p, step, d)
      PROVE  Holders(c)' = IF step \in {"check", "patch"} /\ d = c
                           THEN Holders(c) \cup {p} ELSE Holders(c) \ {p}
  <2>1. call' = [call EXCEPT ![p] = [step |-> step, code |-> d]]
    BY <1>2 DEF Goto
  <2>2. \A q \in Calls : call'[q] = IF q = p THEN [step |-> step, code |-> d] ELSE call[q]
    BY <2>1 DEF TypeOK
  <2> QED BY <2>2 DEF Holders
<1> QED BY <1>1, <1>2

LEMMA ResetInvInit == Init => ResetInv
BY DEF Init, ResetInv, CodeInv, Holders, IdleCall, Codes

LEMMA ResetInvStep ==
  ASSUME TypeOK, ResetInv, [Next]_vars
  PROVE  ResetInv'
<1> SUFFICES ASSUME NEW c \in ResetCodes PROVE CodeInv(c)'
  BY DEF ResetInv
<1> USE DEF ResetInv
<1>a. c \in Codes /\ c \notin SignUpCodes /\ Named(c) \subseteq {c}
  BY ResetNames
<1>b. CodeInv(c)
  OBVIOUS
<1>c. requests \in [Codes -> VerificationRequest]
  BY DEF TypeOK, RequestStore
<1>d. Holders(c)' = Holders(c) \/ call' # call
  BY DEF Holders
\* Steps that touch neither calls nor requests of this kind.
<1>1. CASE UNCHANGED <<requests, call, used>>
  BY <1>1, <1>b, CodeInvFrame DEF Holders
<1>2. ASSUME NEW e \in Emails, NEW d \in Codes, CreateGlobalPasswordResetRequest(e, d)
      PROVE  CodeInv(c)'
  <2>1. requests[d].phase = "free" /\ UNCHANGED <<call, used>>
        /\ \A b \in Codes \ {d} : requests'[b] = requests[b]
    BY <1>2, <1>c DEF CreateGlobalPasswordResetRequest, R!Write, history
  <2>2. requests[c].phase = "gone" => requests'[c].phase = "gone"
    BY <1>a, <2>1
  <2> QED BY <1>b, <2>1, <2>2, CodeInvFrame DEF Holders
<1>3. ASSUME NEW p \in Calls, NEW d \in Codes, VerifyList(p, d) \/ ResetList(p, d)
      PROVE  CodeInv(c)'
  <2>1. Holders(c)' \subseteq Holders(c)
    BY <1>3, <1>a, HoldersStep DEF VerifyList, ResetList
  <2> QED BY <1>3, <1>b, <2>1, CodeInvFrame DEF VerifyList, ResetList, requestVars, history
<1>4. ASSUME NEW p \in Calls, VerifyPatch(p)
      PROVE  CodeInv(c)'
  <2>1. Holders(c)' \subseteq Holders(c)
    BY <1>4, <1>a, HoldersStep DEF VerifyPatch
  <2>2. requests'[c].phase = requests[c].phase
    BY <1>4, <1>a, <1>c DEF VerifyPatch, R!Write, VerificationRequest
  <2> QED BY <1>4, <1>b, <2>1, <2>2, CodeInvFrame DEF VerifyPatch, history
<1>5. ASSUME NEW p \in Calls, ResetDelete(p)
      PROVE  CodeInv(c)'
  <2> DEFINE b == call[p].code
  <2>1. UNCHANGED used /\ b \in Codes
    BY <1>5, CallTypes DEF ResetDelete, history
  <2>2. CASE Return(p) /\ UNCHANGED requestVars
    BY <2>1, <2>2, <1>a, <1>b, HoldersStep, CodeInvFrame DEF requestVars
  <2>3. ASSUME NEW d \in Named(b), R!Write([requests EXCEPT ![d].phase = "gone"]),
               Goto(p, "check", b)
        PROVE  CodeInv(c)'
    <3>1. d \in Codes /\ requests[d].phase = "live" /\ SameName(b, d)
      BY DEF Named
    <3>2. /\ requests' = [requests EXCEPT ![d].phase = "gone"]
          /\ requests'[d].phase = "gone"
          /\ requests[c].phase = "gone" => requests'[c].phase = "gone"
      BY <2>3, <3>1, <1>a, <1>c DEF R!Write, VerificationRequest
    <3>3. CASE b # c
      <4>1. Holders(c)' \subseteq Holders(c)
        BY <2>3, <3>3, <1>a, <2>1, HoldersStep
      <4> QED BY <1>b, <2>1, <3>2, <4>1, CodeInvFrame
    <3>4. CASE b = c
      <4>1. d = c
        BY <3>1, <3>4, <1>a, <2>3
      <4>2. Holders(c) = {} /\ used[c] = 0
        BY <1>b, <3>1, <4>1 DEF CodeInv
      <4>3. Holders(c)' = {p}
        BY <2>3, <3>4, <1>a, <4>2, HoldersStep
      <4> QED BY <2>1, <3>2, <4>1, <4>2, <4>3 DEF CodeInv
    <3> QED BY <3>3, <3>4
  <2> QED BY <1>5, <2>2, <2>3 DEF ResetDelete
<1>6. ASSUME NEW p \in Calls, ResetCheck(p)
      PROVE  CodeInv(c)'
  <2> DEFINE b == call[p].code
  <2>1. call[p].step = "check" /\ UNCHANGED <<requests, used>>
    BY <1>6 DEF ResetCheck, requestVars, history
  <2>2. Holders(c)' \subseteq Holders(c)
    <3>1. Return(p) => Holders(c)' \subseteq Holders(c)
      BY <1>a, HoldersStep
    <3>2. Goto(p, "patch", b) => Holders(c)' \subseteq Holders(c)
      BY <1>a, <2>1, HoldersStep DEF Holders
    <3> QED BY <1>6, <3>1, <3>2 DEF ResetCheck
  <2> QED BY <1>b, <2>1, <2>2, CodeInvFrame
<1>7. ASSUME NEW p \in Calls, NEW w \in Passwords, ResetPatch(p, w)
      PROVE  CodeInv(c)'
  <2> DEFINE b == call[p].code
  <2>1. b \in Codes /\ call[p].step = "patch" /\ UNCHANGED requests
    BY <1>7, CallTypes DEF ResetPatch, requestVars
  <2>2. Holders(c)' = Holders(c) \ {p}
    BY <1>7, <1>a, HoldersStep DEF ResetPatch
  <2>3. used' = used \/ used' = [used EXCEPT ![b] = @ + 1]
    BY <1>7 DEF ResetPatch
  <2>4. CASE b # c \/ used' = used
    <3>1. used'[c] = used[c]
      BY <2>3, <2>4, <2>1, <1>a DEF TypeOK
    <3> QED BY <1>b, <2>1, <2>2, <3>1, CodeInvFrame
  <2>5. CASE b = c /\ used' = [used EXCEPT ![b] = @ + 1]
    <3>1. p \in Holders(c)
      BY <2>1, <2>5 DEF Holders
    <3>2. used[c] = 0 /\ requests[c].phase = "gone" /\ Holders(c) = {p}
      BY <1>b, <3>1 DEF CodeInv
    <3>3. used'[c] = 1
      BY <2>5, <3>2, <1>a DEF TypeOK
    <3> QED BY <2>1, <2>2, <3>2, <3>3 DEF CodeInv
  <2> QED BY <2>3, <2>4, <2>5
<1>8. ASSUME ReconcileVerification \/ Cleanup \/ \E d \in Codes : CollectRequest(d)
      PROVE  CodeInv(c)'
  <2>1. UNCHANGED <<call, used>>
    BY <1>8 DEF ReconcileVerification, Cleanup, CollectRequest, history
  <2>2. requests[c].phase = "gone" => requests'[c].phase = "gone"
    <3>1. CASE ReconcileVerification
      BY <3>1, <1>a, <1>c DEF ReconcileVerification, R!Write, requestVars
    <3>2. CASE Cleanup
      BY <3>2, <1>a, <1>c DEF Cleanup, R!Write, SignUpOf, VerificationRequest
    <3>3. ASSUME NEW d \in Codes, CollectRequest(d)
          PROVE  <2>2
      BY <3>3, <1>a, <1>c DEF CollectRequest, R!Write, VerificationRequest
    <3> QED BY <1>8, <3>1, <3>2, <3>3
  <2> QED BY <1>b, <2>1, <2>2, CodeInvFrame DEF Holders
<1>9. ASSUME NEW p \in Calls, CallError(p)
      PROVE  CodeInv(c)'
  <2>1. Holders(c)' \subseteq Holders(c)
    BY <1>9, <1>a, HoldersStep DEF CallError
  <2> QED BY <1>9, <1>b, <2>1, CodeInvFrame DEF CallError, requestVars, history
<1>10. ASSUME Restart
       PROVE  CodeInv(c)'
  <2>1. Holders(c)' = {}
    BY <1>10 DEF Restart, Holders, IdleCall
  <2> QED BY <1>10, <1>b, <2>1, CodeInvFrame DEF Restart, R!Relist, history
<1>11. ASSUME Next PROVE CodeInv(c)'
  <2>1. CASE Handler
    BY <2>1, <1>1, <1>2, <1>3, <1>4, <1>5, <1>6, <1>7
    DEF Handler, CreateGlobalUser, Callback, CreateGlobalTokens, UpdateUserPassword,
        requestVars, history
  <2>2. CASE Controller \/ \E u \in Users : StartReconcile(u)
    BY <2>2, <1>1, <1>8
    DEF Controller, StartReconcile, LookUpProvider, MarkVerified, MarkNotReady, Promote,
        ReconcileAuthorization, ReportAuthorized, ReportUnauthorized, requestVars, history
  <2>3. CASE DeliverUser \/ DeliverRequest
    BY <2>3, <1>1 DEF DeliverUser, DeliverRequest, R!Deliver, requestVars, history
  <2>4. CASE Environment
    BY <2>4, <1>1, <1>8, <1>9, <1>10
    DEF Environment, ConfigureProvider, Expire, DeleteUser, Resync, ControllerError, requestVars, history
  <2> QED BY <1>11, <2>1, <2>2, <2>3, <2>4 DEF Next
<1> QED BY <1>1, <1>11 DEF vars

(***************************************************************************)
(* A reset code sets at most one password: "Deleting eagerly since the      *)
(* verification is one time use".  It rests on the deletion of a reset      *)
(* request succeeding once, because its name is never given again.          *)
(***************************************************************************)
THEOREM ResetCodesUsedOnce == Spec => []ResetCodeUsedOnce
<1>1. Init => ResetInv
  BY ResetInvInit
<1>2. TypeOK /\ ResetInv /\ [Next]_vars => ResetInv'
  BY ResetInvStep
<1>3. ResetInv => ResetCodeUsedOnce
  BY DEF ResetInv, CodeInv, ResetCodeUsedOnce
<1> QED BY <1>1, <1>2, <1>3, AccountsTyped, PTL DEF Spec

-----------------------------------------------------------------------------
(* Ready only after verification *)

(***************************************************************************)
(* The inductive invariant.  The controller decides from copies, so the     *)
(* copies must be part of it: a late copy of the requests shows nothing     *)
(* that did not happen, and neither a late copy of the users nor the        *)
(* controller's own snapshot shows a Ready user who was never verified.     *)
(***************************************************************************)
PastRequests ==
    {r \in RequestStore :
       \A c \in Codes : r[c].phase # "free" =>
           /\ requests[c].phase # "free"
           /\ requests[c].owner = r[c].owner
           /\ r[c].verified => requests[c].verified}

VerifiedStores ==
    {s \in UserStore : \A u \in DockyardsUsers : s[u].ready = "True" => Verified(u)}

SnapshotVerified ==
    /\ ctl.step \in {"provider", "markVerified"} => ctl.user \in OIDCUsers
    /\ ctl.user \in DockyardsUsers /\ (ctl.ready = "True" \/ ctl.step = "promote")
         => Verified(ctl.user)

VerifiedInv ==
    /\ \A c \in Codes : requests[c].phase = "free" => ~requests[c].verified
    /\ RequestsIn(PastRequests)
    /\ UsersIn(VerifiedStores)
    /\ SnapshotVerified
    /\ SessionsOnlyForVerified

\* What any step may do to the requests: they are never forgotten.
RequestsForward ==
    \A c \in Codes :
        /\ requests[c].phase # "free" =>
               /\ requests'[c].phase # "free"
               /\ requests'[c].owner = requests[c].owner
               /\ requests[c].verified => requests'[c].verified
        /\ requests'[c].phase = "free" => ~requests'[c].verified

LEMMA RequestsGoForward ==
  ASSUME TypeOK, VerifiedInv, [Next]_vars
  PROVE  RequestsForward
<1>a. requests \in [Codes -> VerificationRequest]
  BY DEF TypeOK, RequestStore
<1>b. \A c \in Codes : requests[c].phase = "free" => ~requests[c].verified
  BY DEF VerifiedInv
<1>1. CASE UNCHANGED requests
  BY <1>1, <1>b DEF RequestsForward
<1>2. ASSUME NEW d \in Codes, NEW u,
             requests[d].phase = "free",
             R!Write([requests EXCEPT ![d] = [phase |-> "live", owner |-> u, verified |-> FALSE]])
      PROVE  RequestsForward
  BY <1>2, <1>a, <1>b DEF RequestsForward, R!Write
<1>3. ASSUME NEW S \in SUBSET Codes,
             \A d \in S : requests[d].phase # "free",
             R!Write([d \in Codes |-> IF d \in S THEN [requests[d] EXCEPT !.verified = TRUE]
                                                 ELSE requests[d]])
      PROVE  RequestsForward
  BY <1>3, <1>a, <1>b DEF RequestsForward, R!Write, VerificationRequest
<1>4. ASSUME NEW S \in SUBSET Codes,
             R!Write([d \in Codes |-> IF d \in S THEN [requests[d] EXCEPT !.phase = "gone"]
                                                 ELSE requests[d]])
      PROVE  RequestsForward
  BY <1>4, <1>a, <1>b DEF RequestsForward, R!Write, VerificationRequest
<1>5. ASSUME NEW d \in Codes, R!Write([requests EXCEPT ![d].phase = "gone"])
      PROVE  RequestsForward
  BY <1>5, <1>a, <1>b DEF RequestsForward, R!Write, VerificationRequest
<1>6. ASSUME Next PROVE RequestsForward
  <2>1. CASE Handler
    <3>1. ASSUME NEW e \in Emails, NEW c \in Codes, CreateGlobalPasswordResetRequest(e, c)
          PROVE  RequestsForward
      BY <3>1, <1>2 DEF CreateGlobalPasswordResetRequest
    <3>2. ASSUME NEW p \in Calls, VerifyPatch(p)
          PROVE  RequestsForward
      <4>1. Named(call[p].code) \in SUBSET Codes
            /\ \A d \in Named(call[p].code) : requests[d].phase # "free"
        BY DEF Named
      <4> QED BY <3>2, <4>1, <1>3 DEF VerifyPatch
    <3>3. ASSUME NEW p \in Calls, ResetDelete(p)
          PROVE  RequestsForward
      BY <3>3, <1>1, <1>5 DEF ResetDelete, Named, requestVars
    <3> QED BY <2>1, <1>1, <3>1, <3>2, <3>3
         DEF Handler, CreateGlobalUser, Callback, CreateGlobalTokens, UpdateUserPassword,
             VerifyList, ResetList, ResetCheck, ResetPatch, requestVars
  <2>2. CASE Controller \/ \E u \in Users : StartReconcile(u)
    <3>1. CASE ReconcileVerification
      BY <3>1, <1>1, <1>2 DEF ReconcileVerification, requestVars, Codes
    <3>2. CASE Cleanup
      <4>1. SignUpOf(requests, ctl.user) \in SUBSET Codes
        BY DEF SignUpOf, Codes
      <4> QED BY <3>2, <4>1, <1>4 DEF Cleanup
    <3> QED BY <2>2, <1>1, <3>1, <3>2
         DEF Controller, StartReconcile, LookUpProvider, MarkVerified, MarkNotReady, Promote,
             ReconcileAuthorization, ReportAuthorized, ReportUnauthorized, requestVars
  <2>3. CASE DeliverUser \/ DeliverRequest
    BY <2>3, <1>1 DEF DeliverUser, DeliverRequest, R!Deliver, requestVars
  <2>4. CASE Environment
    BY <2>4, <1>1, <1>5
    DEF Environment, ConfigureProvider, Expire, CollectRequest, DeleteUser, CallError, Resync, ControllerError,
        Restart, R!Relist, requestVars
  <2> QED BY <1>6, <2>1, <2>2, <2>3, <2>4 DEF Next
<1> QED BY <1>1, <1>6 DEF vars

\* What was verified stays verified, so the sets of the invariant only grow.
LEMMA VerifiedStays ==
  ASSUME TypeOK, VerifiedInv, RequestsForward
  PROVE  /\ \A u \in Users : Verified(u) => Verified(u)'
         /\ PastRequests \subseteq PastRequests'
         /\ VerifiedStores \subseteq VerifiedStores'
<1>1. \A c \in SignUpCodes : c \in Codes
  BY DEF Codes
<1>2. \A u \in Users : Verified(u) => Verified(u)'
  BY <1>1 DEF Verified, RequestsForward, VerifiedInv
<1>3. PastRequests \subseteq PastRequests'
  BY DEF PastRequests, RequestsForward
<1>4. VerifiedStores \subseteq VerifiedStores'
  BY <1>2 DEF VerifiedStores, Users
<1> QED BY <1>2, <1>3, <1>4


LEMMA VerifiedInvInit == Init => VerifiedInv
<1> SUFFICES ASSUME Init PROVE VerifiedInv
  OBVIOUS
<1>1. TypeOK
  BY InitTypes
<1>2. \A c \in Codes : requests[c].phase = "free" /\ ~requests[c].verified
  BY DEF Init
<1>3. requests \in PastRequests
  BY <1>1, <1>2 DEF TypeOK, PastRequests
<1>4. users \in VerifiedStores
  BY <1>1 DEF Init, TypeOK, VerifiedStores, Users
<1>5. RequestsIn(PastRequests) /\ UsersIn(VerifiedStores)
  BY <1>3, <1>4, EmptySeq DEF Init, RequestsIn, UsersIn
<1>6. SnapshotVerified /\ SessionsOnlyForVerified
  BY DEF Init, IdleController, SnapshotVerified, SessionsOnlyForVerified
<1> QED BY <1>2, <1>5, <1>6 DEF VerifiedInv

\* Every step moves the informer of requests in one of these ways.
LEMMA RequestMoves ==
  ASSUME [Next]_vars
  PROVE  R!Write(requests') \/ R!Deliver \/ R!Relist \/ UNCHANGED requestVars
<1>1. ASSUME NEW s, R!Write(s) PROVE R!Write(requests')
  BY <1>1 DEF R!Write
<1>2. CASE Handler
  BY <1>1, <1>2
  DEF Handler, CreateGlobalUser, Callback, CreateGlobalTokens, UpdateUserPassword,
      CreateGlobalPasswordResetRequest, VerifyList, ResetList, VerifyPatch, ResetDelete,
      ResetCheck, ResetPatch
<1>3. CASE Controller \/ \E u \in Users : StartReconcile(u)
  BY <1>1, <1>3
  DEF Controller, StartReconcile, LookUpProvider, MarkVerified, MarkNotReady, ReconcileVerification, Promote,
      Cleanup, ReconcileAuthorization, ReportAuthorized, ReportUnauthorized
<1>4. CASE DeliverUser \/ DeliverRequest
  BY <1>4 DEF DeliverUser, DeliverRequest
<1>5. CASE Environment
  BY <1>1, <1>5
  DEF Environment, ConfigureProvider, Expire, CollectRequest, DeleteUser, CallError, Resync, ControllerError, Restart
<1>6. CASE UNCHANGED vars
  BY <1>6 DEF vars, requestVars
<1> QED BY <1>2, <1>3, <1>4, <1>5, <1>6 DEF Next

\* Every step moves the informer of users, and what it writes shows no unverified Ready user.
LEMMA UserMoves ==
  ASSUME TypeOK, VerifiedInv, [Next]_vars
  PROVE  \/ users' \in VerifiedStores /\ U!Write(users')
         \/ U!Deliver \/ U!Relist \/ UNCHANGED userVars
<1> DEFINE Goal == \/ users' \in VerifiedStores /\ U!Write(users')
                   \/ U!Deliver \/ U!Relist \/ UNCHANGED userVars
<1> SUFFICES Goal
  OBVIOUS
<1>a. users \in VerifiedStores /\ users \in UserStore
  BY DEF VerifiedInv, UsersIn, TypeOK
<1>b. ASSUME NEW s \in VerifiedStores, U!Write(s) PROVE Goal
  BY <1>b DEF U!Write
<1>c. ASSUME NEW ready \in Condition, NEW authz \in Condition,
             PatchConditions(ready, authz) \/ WriteConditions(ready, authz),
             ctl.user \in DockyardsUsers /\ ready = "True" => Verified(ctl.user)
      PROVE  Goal
  <2> DEFINE s == [users EXCEPT ![ctl.user].ready = ready, ![ctl.user].authz = authz]
  <2>1. s \in UserStore
    BY <1>a DEF TypeOK, UserStore, User
  <2>2. \A u \in DockyardsUsers : s[u].ready = "True" => Verified(u)
    BY <1>a, <1>c DEF VerifiedStores, UserStore, User, Users, TypeOK
  <2>3. s \in VerifiedStores
    BY <2>1, <2>2 DEF VerifiedStores
  <2>4. U!Write(s) \/ UNCHANGED userVars
    BY <1>c DEF PatchConditions, WriteConditions
  <2> QED BY <1>b, <2>3, <2>4
<1>d. ctl.ready \in Condition /\ ctl.authz \in Condition /\ {"True", "False"} \subseteq Condition
  BY DEF TypeOK, Condition
<1>e. SnapshotVerified /\ DockyardsUsers \cap OIDCUsers = {}
  BY AccountsAssumption DEF VerifiedInv
<1>1. CASE Handler
  <2>1. ASSUME NEW u \in Users, NEW e \in Emails, NEW w \in Passwords,
               CreateGlobalUser(u, e, w) \/ Callback(u, e, w)
        PROVE  Goal
    <3> DEFINE x == [phase |-> "live", email |-> e, password |-> w, ready |-> "none", authz |-> "none"]
    <3>1. x \in User
      BY DEF User, Phase, Condition
    <3>2. [users EXCEPT ![u] = x] \in UserStore
      BY <3>1, UserUpdateTypes
    <3>3. [users EXCEPT ![u] = x] \in VerifiedStores
      BY <1>a, <3>2 DEF VerifiedStores, UserStore, Users
    <3> QED BY <2>1, <1>b, <3>3 DEF CreateGlobalUser, Callback
  <2>2. ASSUME NEW u \in Users, NEW w \in Passwords, U!Write([users EXCEPT ![u].password = w])
        PROVE  Goal
    <3>1. [users EXCEPT ![u].password = w] \in UserStore
      BY <1>a DEF UserStore, User
    <3>2. [users EXCEPT ![u].password = w] \in VerifiedStores
      BY <1>a, <3>1 DEF VerifiedStores, UserStore, User, Users
    <3> QED BY <2>2, <1>b, <3>2
  <2>3. ASSUME NEW p \in Calls, NEW w \in Passwords, ResetPatch(p, w)
        PROVE  Goal
    <3>1. requests[call[p].code].owner \in Users
      BY CallTypes DEF TypeOK, RequestStore, VerificationRequest
    <3> QED BY <2>2, <2>3, <3>1 DEF ResetPatch
  <2> QED BY <1>1, <2>1, <2>2, <2>3
       DEF Handler, CreateGlobalTokens, UpdateUserPassword, CreateGlobalPasswordResetRequest,
           VerifyList, ResetList, VerifyPatch, ResetDelete, ResetCheck
<1>2. CASE Controller \/ \E u \in Users : StartReconcile(u)
  <2>1. CASE MarkVerified \/ MarkNotReady \/ Promote
    BY <2>1, <1>c, <1>d, <1>e
    DEF MarkVerified, MarkNotReady, Promote, SetReady, SnapshotVerified
  <2>2. CASE ReportAuthorized \/ ReportUnauthorized
    BY <2>2, <1>c, <1>d, <1>e DEF ReportAuthorized, ReportUnauthorized, SnapshotVerified
  <2> QED BY <1>2, <2>1, <2>2
       DEF Controller, StartReconcile, LookUpProvider, ReconcileVerification, Cleanup, ReconcileAuthorization
<1>3. CASE DeliverUser \/ DeliverRequest
  BY <1>3 DEF DeliverUser, DeliverRequest
<1>4. CASE Environment
  <2>1. ASSUME NEW u \in Users, DeleteUser(u)
        PROVE  Goal
    <3>1. [users EXCEPT ![u].phase = "gone"] \in UserStore
      BY <1>a DEF UserStore, User, Phase
    <3>2. [users EXCEPT ![u].phase = "gone"] \in VerifiedStores
      BY <1>a, <3>1 DEF VerifiedStores, UserStore, User, Users
    <3> QED BY <2>1, <1>b, <3>2 DEF DeleteUser
  <2> QED BY <1>4, <2>1
       DEF Environment, ConfigureProvider, Expire, CollectRequest, CallError, Resync, ControllerError, Restart
<1>5. CASE UNCHANGED vars
  BY <1>5 DEF vars, userVars
<1> QED BY <1>1, <1>2, <1>3, <1>4, <1>5 DEF Next

\* What the controller decides on, and the users it has logged in, were verified.
LEMMA SnapshotStep ==
  ASSUME TypeOK, VerifiedInv, RequestsForward, [Next]_vars
  PROVE  SnapshotVerified' /\ SessionsOnlyForVerified'
<1>a. \A u \in DockyardsUsers : Verified(u) => Verified(u)'
  BY VerifiedStays DEF Users
<1>b. /\ \A u \in DockyardsUsers : userCache[u].ready = "True" => Verified(u)
      /\ SnapshotVerified /\ SessionsOnlyForVerified
      /\ DockyardsUsers \cap OIDCUsers = {}
  BY AccountsAssumption DEF VerifiedInv, UsersIn, VerifiedStores
<1>c. ctl \in [step: ControllerStep, user: Users, ready: Condition, authz: Condition]
  BY DEF TypeOK
<1>d. UNCHANGED ctl => SnapshotVerified'
  BY <1>a, <1>b DEF SnapshotVerified
<1>e. UNCHANGED sessions => SessionsOnlyForVerified'
  BY <1>a, <1>b DEF SessionsOnlyForVerified
<1>f. ctl' = IdleController => SnapshotVerified'
  BY DEF IdleController, SnapshotVerified
<1>g. Done \/ Retry => SnapshotVerified'
  BY <1>f DEF Done, Retry
<1>h. \A step \in ControllerStep \ {"promote", "provider", "markVerified"} :
        Continue(step) => SnapshotVerified'
  BY <1>a, <1>b, <1>c DEF Continue, SnapshotVerified
<1>2. CASE Handler
  <2>1. ASSUME NEW e \in Emails, NEW w \in Passwords, CreateGlobalTokens(e, w)
        PROVE  SessionsOnlyForVerified'
    BY <2>1, <1>a, <1>b DEF CreateGlobalTokens, SessionsOnlyForVerified
  <2>2. ASSUME NEW u \in Users, NEW e \in Emails, NEW w \in Passwords, Callback(u, e, w)
        PROVE  SessionsOnlyForVerified'
    BY <2>2, <1>a, <1>b DEF Callback, SessionsOnlyForVerified
  <2>3. UNCHANGED ctl
    BY <1>2
    DEF Handler, CreateGlobalUser, Callback, CreateGlobalTokens, UpdateUserPassword,
        CreateGlobalPasswordResetRequest, VerifyList, ResetList, VerifyPatch, ResetDelete,
        ResetCheck, ResetPatch
  <2> QED BY <1>2, <1>d, <1>e, <2>1, <2>2, <2>3
       DEF Handler, CreateGlobalUser, UpdateUserPassword, CreateGlobalPasswordResetRequest,
           VerifyList, ResetList, VerifyPatch, ResetDelete, ResetCheck, ResetPatch, history
<1>3. CASE Controller
  <2>1. UNCHANGED sessions
    BY <1>3
    DEF Controller, LookUpProvider, MarkVerified, MarkNotReady, ReconcileVerification, Promote, Cleanup,
        ReconcileAuthorization, ReportAuthorized, ReportUnauthorized, history
  <2>2. ASSUME MarkVerified \/ MarkNotReady \/ Promote
        PROVE  SnapshotVerified'
    <3>1. ASSUME Retry PROVE SnapshotVerified'
      BY <3>1, <1>g
    <3>2. ASSUME NEW value \in Condition, NEW next \in {"cleanup", "verification"},
                 ctl' = [ctl EXCEPT !.ready = value, !.step = next],
                 ctl.user \in DockyardsUsers /\ value = "True" => Verified(ctl.user)
          PROVE  SnapshotVerified'
      BY <3>2, <1>a, <1>c DEF SnapshotVerified
    <3> QED BY <2>2, <3>1, <3>2, <1>b
         DEF MarkVerified, MarkNotReady, Promote, SetReady, SnapshotVerified, Condition
  <2>3. ASSUME ReconcileVerification
        PROVE  SnapshotVerified'
    <3>1. ASSUME NEW c \in SignUpOf(requestCache, ctl.user), requestCache[c].verified,
                 Continue("promote")
          PROVE  SnapshotVerified'
      <4>1. c \in SignUpCodes /\ c \in Codes /\ requestCache[c].phase = "live"
            /\ requestCache[c].owner = ctl.user
        BY DEF SignUpOf, Codes
      <4>2. requests[c].owner = ctl.user /\ requests[c].verified
        BY <3>1, <4>1 DEF VerifiedInv, RequestsIn, PastRequests
      <4>3. Verified(ctl.user)
        BY <4>1, <4>2 DEF Verified
      <4>4. ctl'.user = ctl.user /\ ctl'.step = "promote"
        BY <3>1, <1>c DEF Continue
      <4> QED BY <4>3, <4>4, <1>a DEF SnapshotVerified
    <3> QED BY <2>3, <3>1, <1>g DEF ReconcileVerification
  <2>4. ASSUME Cleanup \/ ReconcileAuthorization \/ ReportAuthorized \/ ReportUnauthorized
        PROVE  SnapshotVerified'
    BY <2>4, <1>g, <1>h
    DEF Cleanup, ReconcileAuthorization, ReportAuthorized, ReportUnauthorized, ControllerStep
  <2>5. ASSUME LookUpProvider
        PROVE  SnapshotVerified'
    <3>1. ASSUME Continue(AfterProvider(ctl.ready)) PROVE SnapshotVerified'
      <4>1. ctl.user \in OIDCUsers /\ ctl'.user = ctl.user
        BY <2>5, <3>1, <1>b, <1>c DEF LookUpProvider, Continue, SnapshotVerified
      <4> QED BY <4>1, <1>b DEF SnapshotVerified
    <3> QED BY <2>5, <3>1, <1>g DEF LookUpProvider
  <2> QED BY <1>3, <1>e, <2>1, <2>2, <2>3, <2>4, <2>5 DEF Controller
<1>4. ASSUME NEW u \in Users, StartReconcile(u)
      PROVE  SnapshotVerified' /\ SessionsOnlyForVerified'
  <2>1. UNCHANGED sessions
    BY <1>4 DEF StartReconcile, history
  <2>2. FirstStep(u, userCache[u].ready) # "promote"
        /\ (FirstStep(u, userCache[u].ready) \in {"provider", "markVerified"} => u \in OIDCUsers)
    BY DEF FirstStep
  <2>3. ASSUME ctl' = [step |-> FirstStep(u, userCache[u].ready), user |-> u,
                       ready |-> userCache[u].ready, authz |-> userCache[u].authz]
        PROVE  SnapshotVerified'
    BY <2>2, <2>3, <1>a, <1>b DEF SnapshotVerified
  <2> QED BY <1>4, <1>e, <1>f, <2>1, <2>3 DEF StartReconcile
<1>5. CASE DeliverUser \/ DeliverRequest
  BY <1>5, <1>d, <1>e DEF DeliverUser, DeliverRequest, history
<1>6. CASE Environment
  <2>1. UNCHANGED sessions
    BY <1>6
    DEF Environment, ConfigureProvider, Expire, CollectRequest, DeleteUser, CallError, Resync, ControllerError,
        Restart, history
  <2>2. ASSUME ControllerError
        PROVE  SnapshotVerified'
    BY <2>2, <1>g, <1>h DEF ControllerError, ControllerStep
  <2> QED BY <1>6, <1>d, <1>e, <1>f, <2>1, <2>2
       DEF Environment, ConfigureProvider, Expire, CollectRequest, DeleteUser, CallError, Resync, Restart
<1>7. CASE UNCHANGED vars
  BY <1>7, <1>d, <1>e DEF vars
<1> QED BY <1>2, <1>3, <1>4, <1>5, <1>6, <1>7 DEF Next

LEMMA VerifiedInvStep ==
  ASSUME TypeOK, VerifiedInv, [Next]_vars
  PROVE  VerifiedInv'
<1>1. RequestsForward
  BY RequestsGoForward
<1>2. /\ PastRequests \subseteq PastRequests'
      /\ VerifiedStores \subseteq VerifiedStores'
  BY <1>1, VerifiedStays
<1>3. TypeOK'
  BY NextTypes
<1>4. RequestsIn(PastRequests)'
  <2>1. RequestsIn(PastRequests')
    BY <1>2, SeqMonotonic DEF VerifiedInv, RequestsIn
  <2>2. requests' \in PastRequests'
    BY <1>3 DEF TypeOK, PastRequests
  <2>3. CASE UNCHANGED requestVars
    BY <2>1, <2>3 DEF RequestsIn, requestVars
  <2> QED BY <2>1, <2>2, <2>3, RequestMoves, RequestWrite, RequestRead DEF RequestsIn
<1>5. UsersIn(VerifiedStores)'
  <2>1. UsersIn(VerifiedStores')
    BY <1>2, SeqMonotonic DEF VerifiedInv, UsersIn
  <2>2. CASE UNCHANGED userVars
    BY <2>1, <2>2 DEF UsersIn, userVars
  <2> QED BY <1>2, <2>1, <2>2, UserMoves, UserWrite, UserRead DEF UsersIn
<1> QED BY <1>1, <1>4, <1>5, SnapshotStep DEF VerifiedInv, RequestsForward

LEMMA VerifiedInvariant == Spec => []VerifiedInv
<1>1. Init => VerifiedInv
  BY VerifiedInvInit
<1>2. TypeOK /\ VerifiedInv /\ [Next]_vars => VerifiedInv'
  BY VerifiedInvStep
<1> QED BY <1>1, <1>2, AccountsTyped, PTL DEF Spec

(***************************************************************************)
(* The Ready condition of a dockyards user is set only after a sign-up      *)
(* request of that user was verified, however late the controller's copies  *)
(* of the user and of the request are.                                      *)
(***************************************************************************)
THEOREM ReadyUsersVerified == Spec => []VerifiedBeforeReady
<1>1. VerifiedInv => VerifiedBeforeReady
  BY DEF VerifiedInv, UsersIn, VerifiedStores, VerifiedBeforeReady
<1> QED BY <1>1, VerifiedInvariant, PTL

(***************************************************************************)
(* CreateGlobalTokens logs in no dockyards user that was not verified,      *)
(* though it looks at the Ready condition of a copy.                        *)
(***************************************************************************)
THEOREM TokensOnlyForVerified == Spec => []SessionsOnlyForVerified
<1>1. VerifiedInv => SessionsOnlyForVerified
  BY DEF VerifiedInv
<1> QED BY <1>1, VerifiedInvariant, PTL

-----------------------------------------------------------------------------
(* What the conditions report of the authorization, and when Ready is lost *)

(***************************************************************************)
(* The inductive invariant of AuthorizationReported.  The condition is part *)
(* of a list that is patched as a whole from a copy, so no version and no   *)
(* snapshot of the controller may report what is not there; and a report    *)
(* comes only after the role and the binding.                               *)
(***************************************************************************)
AuthorizedStores == {s \in UserStore : \A u \in Users : s[u].authz = "True" => u \in rbac}

SnapshotAuthorized == ctl.authz = "True" \/ ctl.step = "report" => ctl.user \in rbac

RightsInv == UsersIn(AuthorizedStores) /\ SnapshotAuthorized

LEMMA RightsInvInit == Init => RightsInv
<1> SUFFICES ASSUME Init PROVE RightsInv
  OBVIOUS
<1>1. users \in AuthorizedStores
  BY InitTypes DEF Init, TypeOK, AuthorizedStores
<1>2. UsersIn(AuthorizedStores)
  BY <1>1, EmptySeq DEF Init, UsersIn
<1>3. SnapshotAuthorized
  BY DEF Init, IdleController, SnapshotAuthorized
<1> QED BY <1>2, <1>3 DEF RightsInv

\* Roles and bindings of users stay: only ReconcileAuthorization touches them, and adds.
LEMMA RightsStay == ASSUME [Next]_vars PROVE rbac \subseteq rbac'
<1>1. CASE Handler
  BY <1>1
  DEF Handler, CreateGlobalUser, Callback, CreateGlobalTokens, UpdateUserPassword,
      CreateGlobalPasswordResetRequest, VerifyList, ResetList, VerifyPatch, ResetDelete,
      ResetCheck, ResetPatch
<1>2. CASE Controller \/ \E u \in Users : StartReconcile(u)
  BY <1>2
  DEF Controller, StartReconcile, LookUpProvider, MarkVerified, MarkNotReady, ReconcileVerification, Promote,
      Cleanup, ReconcileAuthorization, ReportAuthorized, ReportUnauthorized
<1>3. CASE DeliverUser \/ DeliverRequest
  BY <1>3 DEF DeliverUser, DeliverRequest
<1>4. CASE Environment
  BY <1>4
  DEF Environment, ConfigureProvider, Expire, CollectRequest, DeleteUser, CallError, Resync, ControllerError, Restart
<1>5. CASE UNCHANGED vars
  BY <1>5 DEF vars
<1> QED BY <1>1, <1>2, <1>3, <1>4, <1>5 DEF Next

(***************************************************************************)
(* Every step moves the informer of users, and either writes the conditions *)
(* of the controller's snapshot, with a Ready condition of its choice, or   *)
(* keeps the conditions of every user that goes on living.                  *)
(***************************************************************************)
Reports(ready, authz) ==
    users' = [users EXCEPT ![ctl.user].ready = ready, ![ctl.user].authz = authz]

KeepsConditions ==
    /\ users' \in UserStore
    /\ \A u \in Users :
          \/ users'[u].ready = users[u].ready /\ users'[u].authz = users[u].authz
          \/ /\ users[u].phase # "live"
             /\ users'[u].ready = "none" /\ users'[u].authz = "none"

ConditionWrite ==
    \/ KeepsConditions
    \/ /\ ctl.step \in {"markVerified", "promote"} /\ Reports("True", ctl.authz)
    \/ /\ ctl.step = "markNotReady" /\ Reports("False", ctl.authz)
    \/ /\ ctl.step = "report" /\ Reports(ctl.ready, "True")
    \/ /\ ctl.step = "reportError" /\ Reports(ctl.ready, "False")

LEMMA ConditionMoves ==
  ASSUME TypeOK, [Next]_vars
  PROVE  \/ ConditionWrite /\ U!Write(users')
         \/ U!Deliver \/ U!Relist \/ UNCHANGED userVars
<1> DEFINE Goal == \/ ConditionWrite /\ U!Write(users')
                   \/ U!Deliver \/ U!Relist \/ UNCHANGED userVars
<1> SUFFICES Goal
  OBVIOUS
<1>a. users \in UserStore
  BY DEF TypeOK
<1>b. ASSUME NEW s, U!Write(s) PROVE users' = s /\ U!Write(users')
  BY <1>b DEF U!Write
<1>1. CASE Handler
  <2>1. ASSUME NEW u \in Users, NEW e \in Emails, NEW w \in Passwords,
               CreateGlobalUser(u, e, w) \/ Callback(u, e, w)
        PROVE  Goal
    <3> DEFINE x == [phase |-> "live", email |-> e, password |-> w, ready |-> "none", authz |-> "none"]
    <3>1. x \in User
      BY DEF User, Phase, Condition
    <3>2. [users EXCEPT ![u] = x] \in UserStore
      BY <3>1, UserUpdateTypes
    <3>3. CASE UNCHANGED userVars
      BY <3>3
    <3>4. CASE users[u].phase # "live" /\ U!Write([users EXCEPT ![u] = x])
      <4>1. users' = [users EXCEPT ![u] = x] /\ U!Write(users')
        BY <3>4, <1>b
      <4>2. KeepsConditions
        BY <1>a, <3>2, <3>4, <4>1 DEF KeepsConditions, UserStore
      <4> QED BY <4>1, <4>2 DEF ConditionWrite
    <3> QED BY <2>1, <3>3, <3>4 DEF CreateGlobalUser, Callback
  <2>2. ASSUME NEW u \in Users, NEW w \in Passwords, U!Write([users EXCEPT ![u].password = w])
        PROVE  Goal
    <3>1. users' = [users EXCEPT ![u].password = w] /\ U!Write(users')
      BY <2>2, <1>b
    <3>2. KeepsConditions
      BY <1>a, <3>1 DEF KeepsConditions, UserStore, User
    <3> QED BY <3>1, <3>2 DEF ConditionWrite
  <2>3. ASSUME NEW p \in Calls, NEW w \in Passwords, ResetPatch(p, w)
        PROVE  Goal
    <3>1. requests[call[p].code].owner \in Users
      BY CallTypes DEF TypeOK, RequestStore, VerificationRequest
    <3> QED BY <2>2, <2>3, <3>1 DEF ResetPatch
  <2> QED BY <1>1, <2>1, <2>2, <2>3
       DEF Handler, CreateGlobalTokens, UpdateUserPassword, CreateGlobalPasswordResetRequest,
           VerifyList, ResetList, VerifyPatch, ResetDelete, ResetCheck
<1>2. CASE Controller \/ \E u \in Users : StartReconcile(u)
  <2>1. ASSUME NEW ready, NEW authz, PatchConditions(ready, authz) \/ WriteConditions(ready, authz)
        PROVE  (Reports(ready, authz) /\ U!Write(users')) \/ UNCHANGED userVars
    BY <2>1, <1>b DEF PatchConditions, WriteConditions, Reports
  <2>2. CASE MarkVerified \/ MarkNotReady \/ Promote
    BY <2>1, <2>2 DEF MarkVerified, MarkNotReady, Promote, SetReady, ConditionWrite
  <2>3. CASE ReportAuthorized \/ ReportUnauthorized
    BY <2>1, <2>3 DEF ReportAuthorized, ReportUnauthorized, ConditionWrite
  <2> QED BY <1>2, <2>2, <2>3
       DEF Controller, StartReconcile, LookUpProvider, ReconcileVerification, Cleanup, ReconcileAuthorization
<1>3. CASE DeliverUser \/ DeliverRequest
  BY <1>3 DEF DeliverUser, DeliverRequest
<1>4. CASE Environment
  <2>1. ASSUME NEW u \in Users, DeleteUser(u)
        PROVE  Goal
    <3>1. users' = [users EXCEPT ![u].phase = "gone"] /\ U!Write(users')
      BY <2>1, <1>b DEF DeleteUser
    <3>2. KeepsConditions
      BY <1>a, <3>1 DEF KeepsConditions, UserStore, User, Phase
    <3> QED BY <3>1, <3>2 DEF ConditionWrite
  <2> QED BY <1>4, <2>1
       DEF Environment, ConfigureProvider, Expire, CollectRequest, CallError, Resync, ControllerError, Restart
<1>5. CASE UNCHANGED vars
  BY <1>5 DEF vars, userVars
<1> QED BY <1>1, <1>2, <1>3, <1>4, <1>5 DEF Next

\* What the controller carries to its next step.
LEMMA SnapshotMoves ==
  ASSUME TypeOK, [Next]_vars
  PROVE  \/ UNCHANGED ctl
         \/ ctl' = IdleController
         \/ \E u \in Users : ctl' = [step |-> FirstStep(u, userCache[u].ready), user |-> u,
                                     ready |-> userCache[u].ready, authz |-> userCache[u].authz]
         \/ ctl.step = "provider" /\ Continue(AfterProvider(ctl.ready))
         \/ /\ ctl.step \in {"markVerified", "promote"}
            /\ ctl' = [ctl EXCEPT !.ready = "True", !.step = "cleanup"]
         \/ ctl.step = "markNotReady" /\ ctl' = [ctl EXCEPT !.ready = "False", !.step = "verification"]
         \/ ctl.step = "verification" /\ Continue("promote")
         \/ ctl.step = "cleanup" /\ Continue("authorize")
         \/ ctl.step = "authorize" /\ Continue("report") /\ ctl.user \in rbac'
         \/ ctl.step = "authorize" /\ Continue("reportError")
<1>1. CASE Handler
  BY <1>1
  DEF Handler, CreateGlobalUser, Callback, CreateGlobalTokens, UpdateUserPassword,
      CreateGlobalPasswordResetRequest, VerifyList, ResetList, VerifyPatch, ResetDelete,
      ResetCheck, ResetPatch
<1>2. CASE Controller
  <2>1. CASE MarkVerified \/ MarkNotReady \/ Promote
    BY <2>1 DEF MarkVerified, MarkNotReady, Promote, SetReady, Retry
  <2>2. CASE ReconcileVerification \/ Cleanup \/ ReconcileAuthorization
    BY <2>2 DEF ReconcileVerification, Cleanup, ReconcileAuthorization, Done, Retry
  <2>3. CASE ReportAuthorized \/ ReportUnauthorized
    BY <2>3 DEF ReportAuthorized, ReportUnauthorized, Done, Retry
  <2>4. CASE LookUpProvider
    BY <2>4 DEF LookUpProvider, Retry
  <2> QED BY <1>2, <2>1, <2>2, <2>3, <2>4 DEF Controller
<1>3. ASSUME NEW u \in Users, StartReconcile(u) PROVE \/ ctl' = IdleController
         \/ ctl' = [step |-> FirstStep(u, userCache[u].ready), user |-> u,
                    ready |-> userCache[u].ready, authz |-> userCache[u].authz]
  BY <1>3 DEF StartReconcile
<1>4. CASE DeliverUser \/ DeliverRequest
  BY <1>4 DEF DeliverUser, DeliverRequest
<1>5. CASE Environment
  BY <1>5
  DEF Environment, ConfigureProvider, Expire, CollectRequest, DeleteUser, CallError, Resync, ControllerError, Restart,
      Retry
<1>6. CASE UNCHANGED vars
  BY <1>6 DEF vars
<1> QED BY <1>1, <1>2, <1>3, <1>4, <1>5, <1>6 DEF Next

LEMMA RightsInvStep ==
  ASSUME TypeOK, RightsInv, [Next]_vars
  PROVE  RightsInv'
<1>a. /\ rbac \subseteq rbac' /\ users \in UserStore /\ users' \in UserStore
      /\ ctl \in [step: ControllerStep, user: Users, ready: Condition, authz: Condition]
  BY RightsStay, NextTypes DEF TypeOK
<1>b. AuthorizedStores \subseteq AuthorizedStores'
  BY <1>a DEF AuthorizedStores
<1>c. UsersIn(AuthorizedStores')
  BY <1>b, SeqMonotonic DEF RightsInv, UsersIn
<1>d. /\ users \in AuthorizedStores /\ userCache \in AuthorizedStores
      /\ SnapshotAuthorized
  BY DEF RightsInv, UsersIn
<1>1. ASSUME ConditionWrite PROVE users' \in AuthorizedStores'
  <2>1. CASE KeepsConditions
    BY <1>a, <1>d, <2>1 DEF KeepsConditions, AuthorizedStores
  <2>2. ASSUME NEW ready, NEW authz, Reports(ready, authz), authz = "True" => ctl.user \in rbac
        PROVE  users' \in AuthorizedStores'
    <3>1. users'[ctl.user].authz = authz /\ \A u \in Users \ {ctl.user} : users'[u] = users[u]
      BY <1>a, <2>2 DEF Reports, UserStore, User
    <3> QED BY <1>a, <1>d, <2>2, <3>1 DEF AuthorizedStores
  <2> QED BY <1>1, <1>d, <2>1, <2>2 DEF ConditionWrite, SnapshotAuthorized
<1>2. UsersIn(AuthorizedStores)'
  <2>1. CASE UNCHANGED userVars
    BY <1>c, <2>1 DEF UsersIn, userVars
  <2> QED BY <1>c, <1>1, <2>1, ConditionMoves, UserWrite, UserRead DEF UsersIn
<1>3. SnapshotAuthorized'
  <2>1. CASE UNCHANGED ctl \/ ctl' = IdleController
    BY <2>1, <1>a, <1>d DEF SnapshotAuthorized, IdleController
  <2>2. ASSUME NEW u \in Users,
               ctl' = [step |-> FirstStep(u, userCache[u].ready), user |-> u,
                       ready |-> userCache[u].ready, authz |-> userCache[u].authz]
        PROVE  SnapshotAuthorized'
    <3>1. FirstStep(u, userCache[u].ready) # "report"
      BY DEF FirstStep
    <3> QED BY <1>a, <1>d, <2>2, <3>1 DEF SnapshotAuthorized, AuthorizedStores
  <2>3. CASE \/ ctl' = [ctl EXCEPT !.ready = "True", !.step = "cleanup"]
             \/ ctl' = [ctl EXCEPT !.ready = "False", !.step = "verification"]
             \/ Continue("promote") \/ Continue("authorize") \/ Continue("reportError")
    BY <1>a, <1>d, <2>3 DEF SnapshotAuthorized, Continue
  <2>4. CASE Continue("report") /\ ctl.user \in rbac'
    BY <1>a, <2>4 DEF SnapshotAuthorized, Continue
  <2>5. CASE Continue(AfterProvider(ctl.ready))
    <3>1. AfterProvider(ctl.ready) # "report"
      BY DEF AfterProvider
    <3> QED BY <1>a, <1>d, <2>5, <3>1 DEF SnapshotAuthorized, Continue
  <2> QED BY <2>1, <2>2, <2>3, <2>4, <2>5, SnapshotMoves
<1> QED BY <1>2, <1>3 DEF RightsInv

(***************************************************************************)
(* UserAuthorizationReady is True only when the role and the binding are    *)
(* there, also when it is carried over by a patch of the Ready condition    *)
(* that was computed from an older copy.                                    *)
(***************************************************************************)
THEOREM AuthorizationIsThere == Spec => []AuthorizationReported
<1>1. RightsInv => AuthorizationReported
  BY DEF RightsInv, UsersIn, AuthorizedStores, AuthorizationReported
<1>2. TypeOK /\ RightsInv /\ [Next]_vars => RightsInv'
  BY RightsInvStep
<1> QED BY <1>1, <1>2, RightsInvInit, AccountsTyped, PTL DEF Spec

\* What the steps of a reconciliation know of the Ready condition they carry.
CarriesReady ==
    /\ ctl.step \in {"markVerified", "markNotReady"} => ctl.ready = "none"
    /\ ctl.step \in {"cleanup", "authorize", "report", "reportError"} => ctl.ready = "True"

LEMMA CarriesReadyStep ==
  ASSUME TypeOK, CarriesReady, [Next]_vars
  PROVE  CarriesReady'
<1>a. ctl \in [step: ControllerStep, user: Users, ready: Condition, authz: Condition]
  BY DEF TypeOK
<1>1. CASE UNCHANGED ctl \/ ctl' = IdleController
  BY <1>1 DEF CarriesReady, IdleController
<1>2. ASSUME NEW u \in Users,
             ctl' = [step |-> FirstStep(u, userCache[u].ready), user |-> u,
                     ready |-> userCache[u].ready, authz |-> userCache[u].authz]
      PROVE  CarriesReady'
  BY <1>2 DEF CarriesReady, FirstStep
<1>3. CASE \/ ctl' = [ctl EXCEPT !.ready = "True", !.step = "cleanup"]
           \/ ctl' = [ctl EXCEPT !.ready = "False", !.step = "verification"]
           \/ Continue("promote")
  BY <1>a, <1>3 DEF CarriesReady, Continue
<1>4. CASE /\ ctl.step \in {"cleanup", "authorize"}
           /\ Continue("authorize") \/ Continue("report") \/ Continue("reportError")
  BY <1>a, <1>4 DEF CarriesReady, Continue
<1>5. CASE Continue(AfterProvider(ctl.ready))
  BY <1>a, <1>5 DEF CarriesReady, Continue, AfterProvider
<1> QED BY <1>1, <1>2, <1>3, <1>4, <1>5, SnapshotMoves

(***************************************************************************)
(* A user stops being Ready only when a reconciliation started from a copy  *)
(* without a Ready condition; every later patch carries the True it read.   *)
(***************************************************************************)
THEOREM ReadyKept == Spec => ReadyLostOnlyToOldestCopy
<1> DEFINE Lost(u) == /\ users[u].phase = "live" /\ users'[u].phase = "live"
                      /\ users[u].ready = "True" /\ users'[u].ready # "True"
<1>1. Init => CarriesReady
  BY DEF Init, IdleController, CarriesReady
<1>2. TypeOK /\ CarriesReady /\ [Next]_vars => CarriesReady'
  BY CarriesReadyStep
<1>3. ASSUME TypeOK, CarriesReady, [Next]_vars
      PROVE  [\A u \in Users : Lost(u) => ctl.user = u /\ ctl.ready = "none"]_users
  <2>a. users \in UserStore
        /\ ctl \in [step: ControllerStep, user: Users, ready: Condition, authz: Condition]
    BY <1>3 DEF TypeOK
  <2>1. KeepsConditions => \A u \in Users : Lost(u) => ctl.user = u /\ ctl.ready = "none"
    BY DEF KeepsConditions
  <2>2. ASSUME NEW ready, NEW authz, Reports(ready, authz), ready = "True" \/ ctl.ready = "none"
        PROVE  \A u \in Users : Lost(u) => ctl.user = u /\ ctl.ready = "none"
    <3>1. users'[ctl.user].ready = ready /\ \A u \in Users \ {ctl.user} : users'[u] = users[u]
      BY <2>a, <2>2 DEF Reports, UserStore, User
    <3> QED BY <2>2, <3>1
  <2>3. ConditionWrite => \A u \in Users : Lost(u) => ctl.user = u /\ ctl.ready = "none"
    <3> HIDE DEF Lost
    <3> QED BY <1>3, <2>1, <2>2 DEF ConditionWrite, CarriesReady
  <2>4. ConditionWrite \/ UNCHANGED users
    BY <1>3, ConditionMoves DEF U!Deliver, U!Relist, userVars
  <2> QED BY <2>3, <2>4
<1>4. TypeOK /\ CarriesReady /\ [Next]_vars
        => [\A u \in Users : Lost(u) => ctl.user = u /\ ctl.ready = "none"]_users
  BY <1>3
<1> QED BY <1>1, <1>2, <1>4, AccountsTyped, PTL DEF Spec, ReadyLostOnlyToOldestCopy

=============================================================================
