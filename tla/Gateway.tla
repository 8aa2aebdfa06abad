------------------------------- MODULE Gateway -------------------------------
(***************************************************************************)
(* Processes that start, end and start again, and the requests they answer  *)
(* meanwhile.  A process serves before it has started its informers, and    *)
(* verifies tokens with the keys it got when it started.  Organizations and *)
(* clusters are read from copies, the right is asked from the API server,   *)
(* and both may change between two checks.                                  *)
(*                                                                         *)
(* One request is followed at a time.                                       *)
(***************************************************************************)
EXTENDS Startup, Routes, Functions

CONSTANTS
    Early,      \* bound: handlers that are asked for while a process is starting
    MaxChanges  \* bound: changes around a request, and failed calls

ASSUME GatewayAssumption == MaxChanges \in Nat

VARIABLES
    shows,     \* what the informers show of the organization and the cluster of the path
    granted,   \* whether the subject has the right that is asked for
    token,     \* key that signed the client's access token, 0 without a valid one
    request,
    changes

worldVars == <<shows, granted>>
requestVars == <<worldVars, token, request, changes>>
vars == <<startupVars, requestVars>>

-----------------------------------------------------------------------------
(* The world around a request *)

\* An organization is bare while it has no namespace.
World == [organization: {"none", "bare", "whole"}, cluster: {"none", "whole"}]
Whole == [organization |-> "whole", cluster |-> "whole"]

Request == [op: DOMAIN Handlers, proc: Procs \cup {"none"}, left: Seq(Checks),
            outcome: Outcomes \cup {"none"},
            answer: {0, 200, 201, 202, Refused, 403, 404, 409, 422, Failed, Lost},
            seen: SUBSET BOOLEAN,   \* whether the right was granted, since it arrived
            shown: BOOLEAN,         \* the copies showed both objects all the time
            regular: BOOLEAN]       \* nothing failed, and the request was a proper one

None == [op |-> "unprotectedRoute", proc |-> "none", left |-> <<>>, outcome |-> "none", answer |-> 0,
         seen |-> {}, shown |-> TRUE, regular |-> TRUE]

TypeOK ==
    /\ StartupTypeOK
    /\ shows \in World /\ granted \in BOOLEAN
    /\ token \in Keys /\ changes \in 0 .. MaxChanges
    /\ request \in Request

Init ==
    /\ StartupInit
    /\ shows = Whole /\ granted = TRUE
    /\ token = 0 /\ changes = 0 /\ request = None

Busy == request.left # <<>>

Change == changes < MaxChanges /\ changes' = changes + 1

\* An object of the path is created, completed or deleted, and the informer shows it.
Deliver(kind) ==
    /\ Busy /\ Change
    /\ \E state \in IF kind = "cluster" THEN {"none", "whole"} ELSE {"none", "bare", "whole"} :
          /\ state # shows[kind]
          /\ shows' = [shows EXCEPT ![kind] = state]
    /\ request' = [request EXCEPT !.shown = FALSE]
    /\ UNCHANGED <<granted, token>>

Regrant ==
    /\ Busy /\ Change
    /\ granted' = ~granted
    /\ request' = [request EXCEPT !.seen = BOOLEAN]
    /\ UNCHANGED <<shows, token>>

-----------------------------------------------------------------------------
(* A request *)

\* A client logs in with a process, and has a token that was signed with its key; or the token expires.
Login(p) ==
    /\ request = None /\ Managing(p)
    /\ token' \in {procs[p].access, 0} \ {token}
    /\ UNCHANGED <<worldVars, request, changes>>

\* What the world is like matters from here on only, so it is chosen here.
Arrive(op, p) ==
    /\ request = None /\ Serving(p)
    /\ op \in Early \/ \A q \in Procs : Managing(q)
    /\ shows' \in World /\ granted' \in BOOLEAN
    /\ \A kind \in DOMAIN Whole : shows'[kind] = "whole" \/ kind \in Range(Route(op))
    /\ request' = [None EXCEPT !.op = op, !.proc = p, !.left = Route(op), !.seen = {granted'},
                               !.shown = (shows' = Whole)]
    /\ UNCHANGED <<token, changes>>

Due(check) == Busy /\ Head(request.left) = check
Passed == request' = [request EXCEPT !.left = Tail(@)]
Answered(code) == request' = [request EXCEPT !.left = <<>>, !.answer = code]
Broken(code) == request' = [request EXCEPT !.left = <<>>, !.answer = code, !.regular = FALSE]

Row == Handlers[request.op]
\* The copies are there once the manager runs; until then every read of them fails.
Warm == Managing(request.proc)

Verifies == token # 0 /\ token = procs[request.proc].access

\* requireAuth: a token that does not verify is refused.
Authenticate ==
    /\ Due("token")
    /\ \/ Verifies /\ Passed
       \/ ~Verifies /\ token # 0 /\ Answered(Row.token)
       \/ token = 0 /\ Broken(Row.token)
    /\ UNCHANGED <<worldVars, token, changes>>

\* validateJSON
Validate ==
    /\ Due("schema")
    /\ Passed \/ Broken(422) \/ Broken(Failed)
    /\ UNCHANGED <<worldVars, token, changes>>

\* The copies cannot be read before they are there.
FindOrganization ==
    /\ Due("organization")
    /\ \/ ~Warm /\ Broken(Failed)
       \/ Warm /\ shows.organization = "none" /\ Answered(Refused)
       \/ Warm /\ shows.organization = "bare" /\ Broken(Failed)
       \/ Warm /\ shows.organization = "whole" /\ Passed
    /\ UNCHANGED <<worldVars, token, changes>>

\* IsSubjectAllowed
Review ==
    /\ Due("review")
    /\ \/ granted /\ Passed /\ UNCHANGED changes
       \/ ~granted /\ Answered(Refused) /\ UNCHANGED changes
       \/ Change /\ Broken(Failed)
    /\ UNCHANGED <<worldVars, token>>

FindType ==
    /\ Due("type")
    /\ \/ Warm /\ Passed
       \/ ~Warm /\ Broken(Row.typeError)
    /\ UNCHANGED <<worldVars, token, changes>>

FindCluster ==
    /\ Due("cluster")
    /\ \/ ~Warm /\ Broken(Row.clusterError)
       \/ Warm /\ shows.cluster = "none" /\ Answered(Row.cluster)
       \/ Warm /\ shows.cluster = "whole" /\ Passed
    /\ UNCHANGED <<worldVars, token, changes>>

\* The body is read and parsed.
ReadBody ==
    /\ Due("body")
    /\ Passed \/ Broken(Failed)
    /\ UNCHANGED <<worldVars, token, changes>>

\* The operation itself is modelled elsewhere: here it may come to anything.
Operate ==
    /\ Due("operation")
    /\ \E outcome \in Outcomes :
          request' = [request EXCEPT !.left = <<>>, !.outcome = outcome, !.answer = Row.answers[outcome]]
    /\ UNCHANGED <<worldVars, token, changes>>

Forget == shows' = Whole /\ granted' = TRUE /\ changes' = 0 /\ request' = None

Finish == request.answer # 0 /\ Forget /\ UNCHANGED token

Serve ==
    \/ Authenticate \/ Validate \/ FindOrganization \/ Review \/ FindType \/ FindCluster
    \/ ReadBody \/ Operate \/ Finish

\* The request that a process answers is lost with the process.
Lose(p) ==
    IF request.proc = p /\ procs'[p] = Down
    THEN Forget /\ UNCHANGED token
    ELSE UNCHANGED requestVars

Respond ==
    \/ \E kind \in DOMAIN shows : Deliver(kind)
    \/ Regrant
    \/ \E p \in Procs : Login(p) \/ \E op \in DOMAIN Handlers : Arrive(op, p)
    \/ Serve

Next ==
    \/ \E p \in Procs : (Advance(p) \/ Crash(p)) /\ Lose(p)
    \/ Respond /\ UNCHANGED startupVars

Spec == Init /\ [][Next]_vars

-----------------------------------------------------------------------------
(* Properties *)

(***************************************************************************)
(* An operation on something a subject needs a right to only begins if the  *)
(* subject had the right at some time since the request arrived, whatever   *)
(* was granted, revoked, created, or removed meanwhile.                     *)
(***************************************************************************)
EffectNeedsRight == request.op \in Reviewed /\ request.outcome # "none" => TRUE \in request.seen

(***************************************************************************)
(* A subject without the right gets the same answer, whether the            *)
(* organization or the cluster of the path is there, is not, or appears.    *)
(* Not so while an organization has no namespace: that is a failure.        *)
(***************************************************************************)
NothingRevealed ==
    request.answer # 0 /\ request.op \in Reviewed /\ request.seen = {FALSE} /\ request.regular
        => request.answer \in {Refused, Row.token}

(***************************************************************************)
(* Whoever has a token of any of the processes, and the right, is not told  *)
(* to log in while nothing fails and the copies show what there is: also    *)
(* by another process than the one that signed the token.                   *)
(***************************************************************************)
NotTurnedAway ==
    whole /\ request.answer = Refused /\ request.regular /\ request.shown /\ request.seen = {TRUE}
        => request.outcome = "unauthorized"

=============================================================================
