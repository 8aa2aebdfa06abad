------------------------- MODULE PasswordResetProofs -------------------------
(***************************************************************************)
(* Proof that password reset, with its handlers, informers, controller and  *)
(* failures, implements the abstract OneTimeCode.                           *)
(***************************************************************************)
EXTENDS AccountsProofs

\* What the abstract state of a code is made of.
StateOf(phase, held, count) ==
    CASE phase = "free" -> "unissued"
      [] phase = "live" -> "valid"
      [] phase = "gone" /\ held -> "claimed"
      [] phase = "gone" /\ ~held /\ count > 0 -> "spent"
      [] OTHER -> "void"

LEMMA StateOfCode ==
  /\ ResetCodeState = [c \in ResetCodes |-> StateOf(requests[c].phase, Holders(c) # {}, used[c])]
  /\ ResetCodeState' = [c \in ResetCodes |-> StateOf(requests'[c].phase, Holders(c)' # {}, used'[c])]
BY DEF ResetCodeState, StateOf

Same(c) ==
    /\ requests'[c].phase = requests[c].phase
    /\ Holders(c)' = Holders(c)
    /\ used'[c] = used[c]

LEMMA SameState ==
  ASSUME NEW c \in ResetCodes, Same(c)
  PROVE  ResetCodeState'[c] = ResetCodeState[c]
BY StateOfCode DEF Same

abstract == <<ResetCodeState, [c \in ResetCodes |-> used[c]]>>

\* A step that changes no code is a stutter.
LEMMA Stutter == (\A c \in ResetCodes : Same(c)) => UNCHANGED abstract
<1> SUFFICES ASSUME \A c \in ResetCodes : Same(c) PROVE UNCHANGED abstract
  OBVIOUS
<1>1. ResetCodeState' = ResetCodeState
  BY StateOfCode DEF Same
<1>2. [c \in ResetCodes |-> used'[c]] = [c \in ResetCodes |-> used[c]]
  BY DEF Same
<1> QED BY <1>1, <1>2 DEF abstract

\* A step that changes one code, and may set one password with it.
LEMMA OneCode ==
  ASSUME NEW c \in ResetCodes, \A d \in ResetCodes \ {c} : Same(d)
  PROVE  /\ ResetCodeState' = [ResetCodeState EXCEPT ![c] = ResetCodeState'[c]]
         /\ [d \in ResetCodes |-> used'[d]] = [[d \in ResetCodes |-> used[d]] EXCEPT ![c] = used'[c]]
<1>1. \A d \in ResetCodes \ {c} : ResetCodeState'[d] = ResetCodeState[d]
  BY SameState
<1>2. ResetCodeState' = [ResetCodeState EXCEPT ![c] = ResetCodeState'[c]]
  BY <1>1, StateOfCode
<1>3. [d \in ResetCodes |-> used'[d]] = [[d \in ResetCodes |-> used[d]] EXCEPT ![c] = used'[c]]
  BY DEF Same
<1> QED BY <1>2, <1>3

\* The steps of the abstract specification, from what happens to one code.
LEMMA Issues ==
  ASSUME NEW c \in ResetCodes, \A d \in ResetCodes \ {c} : Same(d), used'[c] = used[c],
         requests[c].phase = "free", requests'[c].phase = "live"
  PROVE  OneTime!Next
<1>1. ResetCodeState[c] = "unissued" /\ ResetCodeState'[c] = "valid"
  BY StateOfCode DEF StateOf
<1>2. OneTime!Issue(c)
  BY <1>1, OneCode DEF OneTime!Issue
<1> QED BY <1>2 DEF OneTime!Next

LEMMA Claims ==
  ASSUME NEW c \in ResetCodes, \A d \in ResetCodes \ {c} : Same(d), used'[c] = used[c],
         requests[c].phase = "live", requests'[c].phase = "gone", Holders(c)' # {}
  PROVE  OneTime!Next
<1>1. ResetCodeState[c] = "valid" /\ ResetCodeState'[c] = "claimed"
  BY StateOfCode DEF StateOf
<1>2. OneTime!Claim(c)
  BY <1>1, OneCode DEF OneTime!Claim
<1> QED BY <1>2 DEF OneTime!Next

LEMMA Sets ==
  ASSUME NEW c \in ResetCodes, \A d \in ResetCodes \ {c} : Same(d),
         used[c] = 0, used'[c] = 1, requests[c].phase = "gone", requests'[c].phase = "gone",
         Holders(c) # {}, Holders(c)' = {}
  PROVE  OneTime!Next
<1>1. ResetCodeState[c] = "claimed" /\ ResetCodeState'[c] = "spent"
  BY StateOfCode DEF StateOf
<1>2. OneTime!SetPassword(c)
  BY <1>1, OneCode DEF OneTime!SetPassword
<1> QED BY <1>2 DEF OneTime!Next

\* Codes that are worth something and then nothing, all in one step.
Voided(c) ==
    /\ requests'[c].phase = "gone" /\ Holders(c)' = {}
    /\ used[c] = 0 /\ used'[c] = 0
    /\ \/ requests[c].phase = "live"
       \/ requests[c].phase = "gone" /\ Holders(c) # {}

LEMMA Voids ==
  ASSUME NEW S \in SUBSET ResetCodes, \A c \in S : Voided(c), \A c \in ResetCodes \ S : Same(c)
  PROVE  OneTime!Next
<1>1. \A c \in S : ResetCodeState[c] \in {"valid", "claimed"} /\ ResetCodeState'[c] = "void"
  BY StateOfCode DEF StateOf, Voided
<1>2. \A c \in ResetCodes \ S : ResetCodeState'[c] = ResetCodeState[c]
  BY SameState
<1>3. ResetCodeState' = [c \in ResetCodes |-> IF c \in S THEN "void" ELSE ResetCodeState[c]]
  BY <1>1, <1>2, StateOfCode
<1>4. [c \in ResetCodes |-> used'[c]] = [c \in ResetCodes |-> used[c]]
  BY DEF Same, Voided
<1>5. OneTime!Void(S)
  BY <1>1, <1>3, <1>4 DEF OneTime!Void
<1> QED BY <1>5 DEF OneTime!Next

\* A call that ends takes the code it holds with it, and nothing else.
LEMMA Dropped ==
  ASSUME TypeOK, ResetInv, NEW p \in Calls, Return(p),
         UNCHANGED used, \A c \in ResetCodes : requests'[c].phase = requests[c].phase
  PROVE  OneTime!Next \/ UNCHANGED abstract
<1> DEFINE S == {c \in ResetCodes : p \in Holders(c)}
<1>1. \A c \in ResetCodes : c \in Codes /\ used'[c] = used[c] /\ Holders(c)' = Holders(c) \ {p}
  BY HoldersStep DEF Codes
<1>2. \A c \in ResetCodes \ S : Same(c)
  BY <1>1 DEF Same
<1>3. ASSUME NEW c \in S PROVE Voided(c)
  <2>1. CodeInv(c) /\ p \in Holders(c) /\ c \in ResetCodes
    BY DEF ResetInv
  <2>2. requests[c].phase = "gone" /\ used[c] = 0 /\ Holders(c) = {p}
    BY <2>1 DEF CodeInv
  <2> QED BY <1>1, <2>1, <2>2 DEF Voided
<1>4. S \in SUBSET ResetCodes
  OBVIOUS
<1> HIDE DEF S
<1> QED BY <1>2, <1>3, <1>4, Voids

LEMMA StepRefines ==
  ASSUME TypeOK, ResetInv, [Next]_vars
  PROVE  OneTime!Next \/ UNCHANGED abstract
<1> DEFINE Goal == OneTime!Next \/ UNCHANGED abstract
<1> SUFFICES Goal
  OBVIOUS
<1>a. \A c \in ResetCodes : c \in Codes /\ c \notin SignUpCodes /\ Named(c) \subseteq {c} /\ CodeInv(c)
  BY ResetNames DEF ResetInv
<1>b. requests \in [Codes -> VerificationRequest] /\ used \in [Codes -> Nat]
  BY DEF TypeOK, RequestStore
\* A step that changes neither calls nor passwords, nor the phase of a reset request.
<1>c. ASSUME UNCHANGED <<call, used>>, \A c \in ResetCodes : requests'[c].phase = requests[c].phase
      PROVE  Goal
  BY <1>c, Stutter DEF Same, Holders
\* A step of a call that holds nothing, before and after.
<1>d. ASSUME NEW p \in Calls, call[p].step \notin {"check", "patch"},
             \/ Return(p)
             \/ \E step \in {"verify", "delete"}, c \in Codes : Goto(p, step, c),
             UNCHANGED used, \A c \in ResetCodes : requests'[c].phase = requests[c].phase
      PROVE  Goal
  <2>1. \A c \in ResetCodes : Holders(c)' = Holders(c) \ {p}
    BY <1>a, <1>d, HoldersStep
  <2>2. \A c \in ResetCodes : p \notin Holders(c)
    BY <1>d DEF Holders
  <2>3. \A c \in ResetCodes : Same(c)
    BY <1>d, <2>1, <2>2 DEF Same
  <2> QED BY <2>3, Stutter
<1>1. CASE UNCHANGED <<requests, call, used>>
  BY <1>1, <1>c
<1>2. ASSUME NEW e \in Emails, NEW c \in Codes, CreateGlobalPasswordResetRequest(e, c)
      PROVE  Goal
  <2>1. /\ c \in ResetCodes /\ requests[c].phase = "free" /\ UNCHANGED <<call, used>>
        /\ requests'[c].phase = "live"
        /\ \A d \in Codes \ {c} : requests'[d] = requests[d]
    BY <1>2, <1>b DEF CreateGlobalPasswordResetRequest, R!Write, history
  <2>2. \A d \in ResetCodes \ {c} : Same(d)
    BY <1>a, <2>1 DEF Same, Holders
  <2> QED BY <2>1, <2>2, Issues
<1>3. ASSUME NEW p \in Calls, NEW c \in Codes, VerifyList(p, c) \/ ResetList(p, c)
      PROVE  Goal
  BY <1>3, <1>d DEF VerifyList, ResetList, Find, requestVars, history
<1>4. ASSUME NEW p \in Calls, VerifyPatch(p)
      PROVE  Goal
  <2>1. \A c \in ResetCodes : requests'[c].phase = requests[c].phase
    BY <1>4, <1>a, <1>b DEF VerifyPatch, R!Write, VerificationRequest
  <2> QED BY <1>4, <1>d, <2>1 DEF VerifyPatch, history
<1>5. ASSUME NEW p \in Calls, ResetDelete(p)
      PROVE  Goal
  <2>1. UNCHANGED used /\ call[p].code \in Codes /\ call[p].step = "delete"
    BY <1>5, CallTypes DEF ResetDelete, history
  <2>2. CASE Return(p) /\ UNCHANGED requestVars
    BY <2>1, <2>2, <1>d DEF requestVars
  <2>3. ASSUME NEW b \in Codes, NEW d \in Named(b), R!Write([requests EXCEPT ![d].phase = "gone"]),
               Goto(p, "check", b)
        PROVE  Goal
    <3>1. d \in Codes /\ requests[d].phase = "live" /\ SameName(b, d)
      BY DEF Named
    <3>2. requests'[d].phase = "gone" /\ \A c \in Codes \ {d} : requests'[c] = requests[c]
      BY <2>3, <3>1, <1>b DEF R!Write, VerificationRequest
    <3>3. \A c \in ResetCodes : Holders(c)' = IF c = b THEN Holders(c) \cup {p} ELSE Holders(c) \ {p}
      BY <2>3, <1>a, HoldersStep
    <3>4. \A c \in ResetCodes : p \notin Holders(c)
      BY <2>1 DEF Holders
    <3>5. \A c \in ResetCodes \ {b} : Holders(c)' = Holders(c)
      BY <3>3, <3>4
    <3>6. \A c \in ResetCodes \ {b} : c # d => Same(c)
      BY <1>a, <2>1, <3>2, <3>5 DEF Same
    <3>7. CASE b \in ResetCodes
      <4>1. d = b
        BY <3>7, <1>a, <2>3
      <4>2. Holders(b)' = Holders(b) \cup {p}
        BY <3>3, <3>7
      <4>3. Holders(b)' # {}
        BY <4>2
      <4>4. used'[b] = used[b] /\ \A c \in ResetCodes \ {b} : Same(c)
        BY <2>1, <3>6, <4>1
      <4>5. OneTime!Next
        BY <3>1, <3>2, <3>7, <4>1, <4>3, <4>4, Claims
      <4> QED BY <4>5
    <3>8. CASE b \notin ResetCodes
      <4>1. d \notin ResetCodes
        BY <3>1, <3>8, <1>a DEF SameName
      <4>2. \A c \in ResetCodes : Same(c)
        BY <3>6, <3>8, <4>1
      <4> QED BY <4>2, Stutter
    <3> QED BY <3>7, <3>8
  <2> QED BY <1>5, <2>1, <2>2, <2>3 DEF ResetDelete
<1>6. ASSUME NEW p \in Calls, ResetCheck(p)
      PROVE  Goal
  <2> DEFINE b == call[p].code
  <2>1. call[p].step = "check" /\ UNCHANGED <<requests, used>>
    BY <1>6 DEF ResetCheck, requestVars, history
  <2>2. CASE Return(p)
    BY <2>1, <2>2, Dropped
  <2>3. CASE Goto(p, "patch", b)
    <3>1. \A c \in ResetCodes :
             Holders(c)' = IF c = b THEN Holders(c) \cup {p} ELSE Holders(c) \ {p}
      BY <2>3, <1>a, HoldersStep
    <3>2. \A c \in ResetCodes : p \in Holders(c) <=> c = b
      BY <2>1 DEF Holders
    <3>3. \A c \in ResetCodes : Same(c)
      BY <2>1, <3>1, <3>2 DEF Same
    <3> QED BY <3>3, Stutter
  <2> QED BY <1>6, <2>2, <2>3 DEF ResetCheck
<1>7. ASSUME NEW p \in Calls, NEW w \in Passwords, ResetPatch(p, w)
      PROVE  Goal
  <2>1. call[p].code \in Codes /\ call[p].step = "patch" /\ UNCHANGED requests /\ Return(p)
    BY <1>7, CallTypes DEF ResetPatch, requestVars
  <2>2. CASE UNCHANGED used
    BY <2>1, <2>2, Dropped
  <2>3. ASSUME NEW b \in Codes, b = call[p].code, used' = [used EXCEPT ![b] = @ + 1]
        PROVE  Goal
    <3>1. \A c \in ResetCodes : Holders(c)' = Holders(c) \ {p}
      BY <2>1, <1>a, HoldersStep
    <3>2. \A c \in ResetCodes : p \in Holders(c) <=> c = b
      BY <2>1, <2>3 DEF Holders
    <3>3. used'[b] = used[b] + 1 /\ \A c \in Codes \ {b} : used'[c] = used[c]
      BY <1>b, <2>3
    <3>4. \A c \in ResetCodes \ {b} : Holders(c)' = Holders(c)
      BY <3>1, <3>2
    <3>5. \A c \in ResetCodes \ {b} : Same(c)
      BY <1>a, <2>1, <3>3, <3>4 DEF Same
    <3>6. CASE b \in ResetCodes
      <4>1. p \in Holders(b) /\ CodeInv(b)
        BY <1>a, <3>2, <3>6
      <4>2. used[b] = 0 /\ requests[b].phase = "gone" /\ Holders(b) = {p}
        BY <4>1 DEF CodeInv
      <4>3. used'[b] = 1
        BY <3>3, <4>2
      <4>4. Holders(b)' = Holders(b) \ {p}
        BY <3>1, <3>6
      <4>5. Holders(b)' = {}
        BY <4>2, <4>4
      <4>6. requests'[b].phase = "gone" /\ Holders(b) # {}
        BY <2>1, <4>2
      <4>7. OneTime!Next
        BY <3>5, <3>6, <4>2, <4>3, <4>5, <4>6, Sets
      <4> QED BY <4>7
    <3>7. CASE b \notin ResetCodes
      BY <3>5, <3>7, Stutter
    <3> QED BY <3>6, <3>7
  <2> QED BY <1>7, <2>1, <2>2, <2>3 DEF ResetPatch
<1>8. ASSUME NEW c \in Codes, CollectRequest(c)
      PROVE  Goal
  <2>1. /\ UNCHANGED <<call, used>> /\ requests[c].phase = "live" /\ requests'[c].phase = "gone"
        /\ \A d \in Codes \ {c} : requests'[d] = requests[d]
    BY <1>8, <1>b DEF CollectRequest, R!Write, history, VerificationRequest
  <2>2. CASE c \in ResetCodes
    <3>1. used[c] = 0 /\ Holders(c) = {}
      BY <1>a, <2>1, <2>2 DEF CodeInv
    <3>2. Voided(c)
      BY <2>1, <3>1 DEF Voided, Holders
    <3>3. \A d \in ResetCodes \ {c} : Same(d)
      BY <1>a, <2>1 DEF Same, Holders
    <3> DEFINE S == {c}
    <3>4. S \in SUBSET ResetCodes /\ (\A d \in S : Voided(d)) /\ \A d \in ResetCodes \ S : Same(d)
      BY <2>2, <3>2, <3>3
    <3> HIDE DEF S
    <3>5. OneTime!Next
      BY <3>4, Voids
    <3> QED BY <3>5
  <2>3. CASE c \notin ResetCodes
    BY <1>a, <1>c, <2>1, <2>3
  <2> QED BY <2>2, <2>3
<1>9. ASSUME ReconcileVerification \/ Cleanup
      PROVE  Goal
  <2>1. UNCHANGED <<call, used>>
    BY <1>9 DEF ReconcileVerification, Cleanup, history
  <2>2. \A c \in ResetCodes : requests'[c].phase = requests[c].phase
    <3>1. CASE ReconcileVerification
      BY <3>1, <1>a, <1>b DEF ReconcileVerification, R!Write, requestVars
    <3>2. CASE Cleanup
      BY <3>2, <1>a, <1>b DEF Cleanup, R!Write, SignUpOf, VerificationRequest
    <3> QED BY <1>9, <3>1, <3>2
  <2> QED BY <1>c, <2>1, <2>2
<1>10. ASSUME NEW p \in Calls, CallError(p)
       PROVE  Goal
  BY <1>10, Dropped DEF CallError, requestVars, history
<1>11. ASSUME Restart
       PROVE  Goal
  <2> DEFINE S == {c \in ResetCodes : Holders(c) # {}}
  <2>1. UNCHANGED <<requests, used>> /\ \A c \in ResetCodes : Holders(c)' = {}
    BY <1>11 DEF Restart, R!Relist, Holders, IdleCall, history
  <2>2. \A c \in S : Voided(c)
    BY <1>a, <2>1 DEF Voided, CodeInv
  <2>3. \A c \in ResetCodes \ S : Same(c)
    BY <2>1 DEF Same
  <2>4. S \in SUBSET ResetCodes
    OBVIOUS
  <2> HIDE DEF S
  <2> QED BY <2>2, <2>3, <2>4, Voids
<1>12. ASSUME Next PROVE Goal
  <2>1. CASE Handler
    BY <2>1, <1>1, <1>2, <1>3, <1>4, <1>5, <1>6, <1>7
    DEF Handler, CreateGlobalUser, Callback, CreateGlobalTokens, UpdateUserPassword,
        requestVars, history
  <2>2. CASE Controller \/ \E u \in Users : StartReconcile(u)
    BY <2>2, <1>1, <1>9
    DEF Controller, StartReconcile, LookUpProvider, MarkVerified, MarkNotReady, Promote,
        ReconcileAuthorization, ReportAuthorized, ReportUnauthorized, requestVars, history
  <2>3. CASE DeliverUser \/ DeliverRequest
    BY <2>3, <1>1 DEF DeliverUser, DeliverRequest, R!Deliver, requestVars, history
  <2>4. CASE Environment
    BY <2>4, <1>1, <1>8, <1>10, <1>11
    DEF Environment, ConfigureProvider, Expire, DeleteUser, Resync, ControllerError, requestVars, history
  <2> QED BY <1>12, <2>1, <2>2, <2>3, <2>4 DEF Next
<1> QED BY <1>1, <1>12 DEF vars

(***************************************************************************)
(* Every behaviour of Accounts is one of OneTimeCode for the reset codes:   *)
(* ResetPassword deletes the request first, and only the call whose         *)
(* deletion succeeds, which is one, may set a password with it, once.       *)
(***************************************************************************)
THEOREM ResetImplementsOneTimeCode == Spec => ImplementsOneTimeCode
<1>1. Init => ResetInv /\ OneTime!Init
  <2> SUFFICES ASSUME Init PROVE OneTime!Init
    BY ResetInvInit
  <2>1. \A c \in ResetCodes : c \in Codes /\ requests[c].phase = "free" /\ used[c] = 0
    BY DEF Init, Codes
  <2>2. \A c \in ResetCodes : ResetCodeState[c] = "unissued"
    BY <2>1, StateOfCode DEF StateOf
  <2>3. ResetCodeState = [c \in ResetCodes |-> "unissued"]
    BY <2>2, StateOfCode
  <2> QED BY <2>1, <2>3 DEF OneTime!Init
<1>2. TypeOK /\ ResetInv /\ [Next]_vars => ResetInv'
  BY ResetInvStep
<1>3. TypeOK /\ ResetInv /\ [Next]_vars => [OneTime!Next]_abstract
  BY StepRefines
<1> QED BY <1>1, <1>2, <1>3, AccountsTyped, PTL DEF Spec, ImplementsOneTimeCode, OneTime!Spec, abstract

=============================================================================
