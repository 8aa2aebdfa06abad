---------------------------- MODULE RequestProofs ----------------------------
(***************************************************************************)
(* Theorems about the requests that Gateway answers, for any number of      *)
(* processes, keys, crashes and changes around a request.                   *)
(***************************************************************************)
EXTENDS GatewayProofs, SequenceTheorems

-----------------------------------------------------------------------------
(* The rows of the handlers *)

Codes == {0, 200, 201, 202, Refused, 403, 404, 409, 422, Failed, Lost}

Rows == [checks: Seq(Checks), answers: [Outcomes -> Codes], token: Codes, cluster: Codes,
         clusterError: Codes, typeError: Codes]

\* Only an error that says so is answered as one of authorization.
RefusesOnlyUnauthorized(answers) ==
    \A outcome \in Outcomes : answers[outcome] = Refused => outcome = "unauthorized"

\* Neither the operation nor the cluster is reached before the review.
Guarded(checks) ==
    \A i \in 1 .. Len(checks) : checks[i] \in {"operation", "cluster"} =>
        \E j \in 1 .. Len(checks) : j < i /\ checks[j] = "review"

\* The answers to the outcomes that have one of their own.
Named(named) ==
    /\ DOMAIN named \subseteq Outcomes /\ "ok" \in DOMAIN named
    /\ \A outcome \in DOMAIN named :
          named[outcome] \in Codes /\ (named[outcome] = Refused => outcome = "unauthorized")

RowOK(row) == row \in Rows /\ RefusesOnlyUnauthorized(row.answers)

LEMMA AnswersTyped ==
  ASSUME NEW named, Named(named)
  PROVE  Answers(named) \in [Outcomes -> Codes] /\ RefusesOnlyUnauthorized(Answers(named))
<1>1. Failed \in Codes /\ Failed # Refused /\ "ok" # "unauthorized"
  BY DEF Codes, Failed, Refused
<1> DEFINE answer(outcome) == IF outcome \in DOMAIN named THEN named[outcome]
                              ELSE IF outcome = "nothing" THEN named["ok"] ELSE Failed
<1>2. \A outcome \in Outcomes :
        answer(outcome) \in Codes /\ (answer(outcome) = Refused => outcome = "unauthorized")
  BY <1>1 DEF Named
<1>3. Answers(named) = [outcome \in Outcomes |-> answer(outcome)]
  BY DEF Answers
<1> HIDE DEF answer
<1> QED BY <1>2, <1>3 DEF RefusesOnlyUnauthorized

LEMMA HandlerTyped ==
  ASSUME NEW checks \in Seq(Checks), NEW named, Named(named)
  PROVE  RowOK(Handler(checks, named)) /\ Handler(checks, named).checks = checks
BY AnswersTyped DEF RowOK, Handler, Rows, Codes, Failed, Refused

\* Every handler is a row of the right type, and the checks of the reviewed ones are guarded.
LEMMA HandlersOK ==
  \A op \in DOMAIN Handlers : /\ RowOK(Handlers[op])
                              /\ op \in Reviewed => Guarded(Handlers[op].checks)
\* The lists of checks there are, and the answers.
<1> DEFINE
      c1 == <<"organization", "review", "cluster", "body", "operation">>
      c2 == <<"organization", "review", "body", "operation">>
      c3 == <<"body", "operation">>
      c4 == <<"organization", "review", "body", "cluster", "body", "operation">>
      c5 == <<"review", "body", "operation">>
      c6 == <<"organization", "review", "cluster", "operation">>
      c7 == <<"organization", "review", "operation">>
      c8 == <<"review", "operation">>
      c9 == <<"operation">>
      c10 == <<"type", "review", "operation">>
      a1 == [ok |-> 201, nothing |-> Lost, conflict |-> 409, invalid |-> 422]
      a2 == [ok |-> 201, conflict |-> 409, invalid |-> 422]
      a3 == [ok |-> 201, invalid |-> 422, unauthorized |-> Refused, forbidden |-> 403]
      a4 == [ok |-> 202, forbidden |-> 403, notFound |-> 404, invalid |-> 422]
      a5 == [ok |-> 202, notFound |-> 404, unauthorized |-> Refused, invalid |-> 422]
      a6 == [ok |-> 202, unauthorized |-> Refused, invalid |-> 422]
      a7 == [ok |-> 202, notFound |-> 404]
      a8 == [ok |-> 200, notFound |-> 404]
      a9 == [ok |-> 200, notFound |-> 404, unauthorized |-> Refused]
      a10 == [ok |-> 200]
      a11 == [ok |-> 200, notFound |-> 404, invalid |-> Lost]
      a12 == [ok |-> 200, conflict |-> 409, invalid |-> 422, notFound |-> 404, forbidden
             |-> 403, unauthorized |-> Refused]
<1>1. {c1, c2, c3, c4, c5, c6, c7, c8, c9, c10} \subseteq Seq(Checks)
  BY DEF Checks
<1>2. Guarded(c1) /\ Guarded(c2) /\ Guarded(c4) /\ Guarded(c5) /\ Guarded(c6) /\
      Guarded(c7) /\ Guarded(c8) /\ Guarded(c10)
  BY DEF Guarded
<1>3. Named(a1) /\ Named(a2) /\ Named(a3) /\ Named(a4) /\ Named(a5) /\ Named(a6) /\
      Named(a7) /\ Named(a8) /\ Named(a9) /\ Named(a10) /\ Named(a11) /\ Named(a12)
  BY DEF Named, Outcomes, Errors, Codes, Refused, Lost
<1>4. /\ CreateClusterResource = Handler(c1, a1)
      /\ CreateOrganizationResource = Handler(c2, a2)
      /\ CreateGlobalResource = Handler(c3, a3)
      /\ UpdateClusterResource = Handler(c4, a4)
      /\ UpdateOrganizationResource = Handler(c2, a4)
      /\ UpdateGlobalResource = Handler(c5, a5)
      /\ UpdateNamelessResource = Handler(c3, a6)
      /\ DeleteClusterResource = [Handler(c6, a7) EXCEPT !.cluster = Refused]
      /\ DeleteOrganizationResource = Handler(c7, a7)
      /\ DeleteGlobalResource = Handler(c8, a7)
      /\ GetClusterResource = Handler(c6, a8)
      /\ GetOrganizationResource = Handler(c7, a8)
      /\ GetGlobalResource = Handler(c8, a8)
      /\ GetNamelessResource = Handler(c9, a9)
      /\ ListClusterResource = [Handler(c6, a10) EXCEPT !.cluster = Refused, !.clusterError = Refused]
      /\ ListOrganizationResource = Handler(c7, a10)
      /\ ListGlobalResource = Handler(c9, a10)
      /\ GetNamespacedResource = [Handler(c10, a8) EXCEPT !.token = Failed, !.typeError = Refused]
      /\ ListNamespacedResource = [Handler(c10, a11) EXCEPT !.token = Failed]
      /\ unprotectedRoute = Handler(c9, a12)
  BY DEF CreateClusterResource, CreateOrganizationResource, CreateGlobalResource,
         UpdateClusterResource, UpdateOrganizationResource, UpdateGlobalResource,
         UpdateNamelessResource, DeleteClusterResource, DeleteOrganizationResource,
         DeleteGlobalResource, GetClusterResource, GetOrganizationResource,
         GetGlobalResource, GetNamelessResource, ListClusterResource,
         ListOrganizationResource, ListGlobalResource, GetNamespacedResource,
         ListNamespacedResource, unprotectedRoute
<1>a. Refused \in Codes /\ Failed \in Codes
  BY DEF Codes, Refused, Failed
<1> HIDE DEF c1, c2, c3, c4, c5, c6, c7, c8, c9, c10,
             a1, a2, a3, a4, a5, a6, a7, a8, a9, a10, a11, a12
<1>5. /\ RowOK(CreateClusterResource) /\ Guarded(CreateClusterResource.checks)
      /\ RowOK(CreateOrganizationResource) /\ Guarded(CreateOrganizationResource.checks)
      /\ RowOK(CreateGlobalResource)
      /\ RowOK(UpdateClusterResource) /\ Guarded(UpdateClusterResource.checks)
      /\ RowOK(UpdateOrganizationResource) /\ Guarded(UpdateOrganizationResource.checks)
      /\ RowOK(UpdateGlobalResource) /\ Guarded(UpdateGlobalResource.checks)
      /\ RowOK(UpdateNamelessResource)
      /\ RowOK(DeleteOrganizationResource) /\ Guarded(DeleteOrganizationResource.checks)
      /\ RowOK(DeleteGlobalResource) /\ Guarded(DeleteGlobalResource.checks)
      /\ RowOK(GetClusterResource) /\ Guarded(GetClusterResource.checks)
      /\ RowOK(GetOrganizationResource) /\ Guarded(GetOrganizationResource.checks)
      /\ RowOK(GetGlobalResource) /\ Guarded(GetGlobalResource.checks)
      /\ RowOK(GetNamelessResource)
      /\ RowOK(ListOrganizationResource) /\ Guarded(ListOrganizationResource.checks)
      /\ RowOK(ListGlobalResource)
      /\ RowOK(unprotectedRoute)
  BY <1>1, <1>2, <1>3, <1>4, HandlerTyped
<1>6. RowOK(DeleteClusterResource) /\ Guarded(DeleteClusterResource.checks)
  <2> DEFINE row == Handler(c6, a7)
  <2>1. RowOK(row) /\ row.checks = c6 /\ DeleteClusterResource = [row EXCEPT !.cluster = Refused]
    BY <1>1, <1>3, <1>4, HandlerTyped
  <2> HIDE DEF row
  <2> QED BY <1>2, <1>a, <2>1 DEF RowOK, Rows
<1>7. RowOK(ListClusterResource) /\ Guarded(ListClusterResource.checks)
  <2> DEFINE row == Handler(c6, a10)
  <2>1. RowOK(row) /\ row.checks = c6 /\ ListClusterResource = [row EXCEPT !.cluster = Refused, !.clusterError = Refused]
    BY <1>1, <1>3, <1>4, HandlerTyped
  <2> HIDE DEF row
  <2> QED BY <1>2, <1>a, <2>1 DEF RowOK, Rows
<1>8. RowOK(GetNamespacedResource) /\ Guarded(GetNamespacedResource.checks)
  <2> DEFINE row == Handler(c10, a8)
  <2>1. RowOK(row) /\ row.checks = c10 /\ GetNamespacedResource = [row EXCEPT !.token = Failed, !.typeError = Refused]
    BY <1>1, <1>3, <1>4, HandlerTyped
  <2> HIDE DEF row
  <2> QED BY <1>2, <1>a, <2>1 DEF RowOK, Rows
<1>9. RowOK(ListNamespacedResource) /\ Guarded(ListNamespacedResource.checks)
  <2> DEFINE row == Handler(c10, a11)
  <2>1. RowOK(row) /\ row.checks = c10 /\ ListNamespacedResource = [row EXCEPT !.token = Failed]
    BY <1>1, <1>3, <1>4, HandlerTyped
  <2> HIDE DEF row
  <2> QED BY <1>2, <1>a, <2>1 DEF RowOK, Rows
<1>10. DOMAIN Handlers = {"CreateClusterResource", "CreateOrganizationResource",
       "CreateGlobalResource", "CreateAccount", "UpdateClusterResource",
       "UpdateOrganizationResource", "UpdateGlobalResource", "UpdateNamelessResource",
       "DeleteClusterResource", "DeleteOrganizationResource", "DeleteGlobalResource",
       "GetClusterResource", "GetOrganizationResource", "GetGlobalResource",
       "GetNamelessResource", "ListClusterResource", "ListOrganizationResource",
       "ListGlobalResource", "GetNamespacedResource", "ListNamespacedResource",
       "unprotectedRoute"}
  BY DEF Handlers
<1>11. /\ Handlers["CreateClusterResource"] = CreateClusterResource
       /\ Handlers["CreateOrganizationResource"] = CreateOrganizationResource
       /\ Handlers["CreateGlobalResource"] = CreateGlobalResource
       /\ Handlers["CreateAccount"] = CreateGlobalResource
       /\ Handlers["UpdateClusterResource"] = UpdateClusterResource
       /\ Handlers["UpdateOrganizationResource"] = UpdateOrganizationResource
       /\ Handlers["UpdateGlobalResource"] = UpdateGlobalResource
       /\ Handlers["UpdateNamelessResource"] = UpdateNamelessResource
       /\ Handlers["DeleteClusterResource"] = DeleteClusterResource
       /\ Handlers["DeleteOrganizationResource"] = DeleteOrganizationResource
       /\ Handlers["DeleteGlobalResource"] = DeleteGlobalResource
       /\ Handlers["GetClusterResource"] = GetClusterResource
       /\ Handlers["GetOrganizationResource"] = GetOrganizationResource
       /\ Handlers["GetGlobalResource"] = GetGlobalResource
       /\ Handlers["GetNamelessResource"] = GetNamelessResource
       /\ Handlers["ListClusterResource"] = ListClusterResource
       /\ Handlers["ListOrganizationResource"] = ListOrganizationResource
       /\ Handlers["ListGlobalResource"] = ListGlobalResource
       /\ Handlers["GetNamespacedResource"] = GetNamespacedResource
       /\ Handlers["ListNamespacedResource"] = ListNamespacedResource
       /\ Handlers["unprotectedRoute"] = unprotectedRoute
  BY DEF Handlers
<1> QED BY <1>5, <1>6, <1>7, <1>8, <1>9, <1>10, <1>11 DEF Reviewed, Public

-----------------------------------------------------------------------------
(* The way of a request *)

LEMMA GuardedConcat ==
  ASSUME NEW s \in Seq(Checks), NEW t \in Seq(Checks), Guarded(t),
         \A i \in 1 .. Len(s) : s[i] \notin {"operation", "cluster"}
  PROVE  Guarded(s \o t)
<1>1. /\ Len(s \o t) = Len(s) + Len(t) /\ Len(s) \in Nat /\ Len(t) \in Nat
      /\ \A i \in 1 .. Len(s) + Len(t) :
           (s \o t)[i] = IF i <= Len(s) THEN s[i] ELSE t[i - Len(s)]
  BY ConcatProperties, LenProperties
<1> SUFFICES ASSUME NEW i \in 1 .. Len(s) + Len(t), (s \o t)[i] \in {"operation", "cluster"}
             PROVE  \E j \in 1 .. Len(s) + Len(t) : j < i /\ (s \o t)[j] = "review"
  BY <1>1 DEF Guarded
<1>2. i > Len(s) /\ i - Len(s) \in 1 .. Len(t) /\ (s \o t)[i] = t[i - Len(s)]
  BY <1>1
<1>3. PICK j \in 1 .. Len(t) : j < i - Len(s) /\ t[j] = "review"
  BY <1>2 DEF Guarded
<1>4. j + Len(s) \in 1 .. Len(s) + Len(t) /\ j + Len(s) < i /\ ~(j + Len(s) <= Len(s))
      /\ (j + Len(s)) - Len(s) = j
  BY <1>1, <1>3
<1>5. (s \o t)[j + Len(s)] = "review"
  BY <1>1, <1>3, <1>4
<1> QED BY <1>4, <1>5

LEMMA GuardedTail ==
  ASSUME NEW s \in Seq(Checks), s # << >>, Guarded(s)
  PROVE  /\ Head(s) \notin {"operation", "cluster"}
         /\ Head(s) # "review" => Guarded(Tail(s))
<1>1. /\ Tail(s) \in Seq(Checks) /\ Len(Tail(s)) = Len(s) - 1 /\ Len(s) \in Nat \ {0}
      /\ \A i \in 1 .. Len(Tail(s)) : Tail(s)[i] = s[i + 1]
      /\ Head(s) = s[1]
  BY HeadTailProperties, EmptySeq, LenProperties
<1>2. Head(s) \notin {"operation", "cluster"}
  <2>1. 1 \in 1 .. Len(s) /\ ~\E j \in 1 .. Len(s) : j < 1
    BY <1>1
  <2> QED BY <1>1, <2>1 DEF Guarded
<1>3. ASSUME Head(s) # "review" PROVE Guarded(Tail(s))
  <2> SUFFICES ASSUME NEW i \in 1 .. Len(s) - 1, Tail(s)[i] \in {"operation", "cluster"}
               PROVE  \E j \in 1 .. Len(s) - 1 : j < i /\ Tail(s)[j] = "review"
    BY <1>1 DEF Guarded
  <2>1. i + 1 \in 1 .. Len(s) /\ s[i + 1] \in {"operation", "cluster"}
    BY <1>1
  <2>2. PICK j \in 1 .. Len(s) : j < i + 1 /\ s[j] = "review"
    BY <2>1 DEF Guarded
  <2>3. j # 1
    BY <1>1, <1>3, <2>2
  <2>4. j - 1 \in 1 .. Len(s) - 1 /\ j - 1 < i /\ (j - 1) + 1 = j
    BY <1>1, <2>2, <2>3
  <2>5. Tail(s)[j - 1] = "review"
    BY <1>1, <2>2, <2>4
  <2> QED BY <2>4, <2>5
<1> QED BY <1>2, <1>3

\* What a request passes through, whatever it asks for.
LEMMA RouteOK ==
  \A op \in DOMAIN Handlers : /\ Route(op) \in Seq(Checks)
                              /\ op \in Reviewed => Guarded(Route(op))
<1> SUFFICES ASSUME NEW op \in DOMAIN Handlers
             PROVE  Route(op) \in Seq(Checks) /\ (op \in Reviewed => Guarded(Route(op)))
  OBVIOUS
<1> DEFINE s == IF op \in Public THEN << >> ELSE <<"token">>
           t == IF op \in Described THEN <<"schema">> ELSE << >>
           c == Handlers[op].checks
<1>a. \A check \in {"token", "schema"} :
         /\ <<check>> \in Seq(Checks)
         /\ \A i \in 1 .. Len(<<check>>) : <<check>>[i] \notin {"operation", "cluster"}
  BY DEF Checks
<1>b. << >> \in Seq(Checks) /\ Len(<< >>) = 0
  BY EmptySeq
<1>1. /\ s \in Seq(Checks) /\ t \in Seq(Checks)
      /\ \A i \in 1 .. Len(s) : s[i] \notin {"operation", "cluster"}
      /\ \A i \in 1 .. Len(t) : t[i] \notin {"operation", "cluster"}
  <2>1. s \in {<< >>, <<"token">>} /\ t \in {<< >>, <<"schema">>}
    OBVIOUS
  <2> HIDE DEF s, t
  <2>2. \A r \in {<< >>, <<"token">>, <<"schema">>} :
          r \in Seq(Checks) /\ \A i \in 1 .. Len(r) : r[i] \notin {"operation", "cluster"}
    <3> SUFFICES ASSUME NEW r \in {<< >>, <<"token">>, <<"schema">>}
                 PROVE  r \in Seq(Checks) /\ \A i \in 1 .. Len(r) : r[i] \notin {"operation", "cluster"}
      OBVIOUS
    <3>1. CASE r = << >>
      BY <1>b, <3>1
    <3>2. CASE r = <<"token">>
      BY <1>a, <3>2
    <3>3. CASE r = <<"schema">>
      BY <1>a, <3>3
    <3> QED BY <3>1, <3>2, <3>3
  <2> QED BY <2>1, <2>2
<1>2. c \in Seq(Checks) /\ (op \in Reviewed => Guarded(c))
  <2>1. PICK row : row = Handlers[op]
    OBVIOUS
  <2>2. RowOK(row) /\ (op \in Reviewed => Guarded(row.checks))
    BY <2>1, HandlersOK
  <2>3. row.checks \in Seq(Checks)
    BY <2>2 DEF RowOK, Rows
  <2> QED BY <2>1, <2>2, <2>3
<1>3. Route(op) = (s \o t) \o c
  BY DEF Route
<1> HIDE DEF s, t, c
<1>4. s \o t \in Seq(Checks) /\ t \o c \in Seq(Checks) /\ (s \o t) \o c \in Seq(Checks)
      /\ (s \o t) \o c = s \o (t \o c)
  BY <1>1, <1>2, ConcatProperties, ConcatAssociative
<1>5. ASSUME op \in Reviewed PROVE Guarded(s \o (t \o c))
  <2>1. Guarded(t \o c)
    BY <1>1, <1>2, <1>5, GuardedConcat
  <2> QED BY <1>1, <1>4, <2>1, GuardedConcat
<1> QED BY <1>3, <1>4, <1>5

-----------------------------------------------------------------------------
(* What one step makes of a request *)

\* What is known of the row of a request.
LEMMA RowTyped == ASSUME request \in Request PROVE RowOK(Row)
BY HandlersOK DEF Row, Request

\* The sets that the fields of a request are in, by name.
Ops == DOMAIN Handlers
Places == Procs \cup {"none"}
Ways == Seq(Checks)
Results == Outcomes \cup {"none"}
Sights == SUBSET BOOLEAN

LEMMA RequestIs ==
  Request = [op: Ops, proc: Places, left: Ways, outcome: Results, answer: Codes, seen: Sights,
             shown: BOOLEAN, regular: BOOLEAN]
BY DEF Request, Ops, Places, Ways, Results, Sights, Codes

LEMMA PassedFields ==
  ASSUME request \in Request, Busy, Passed
  PROVE  /\ request' \in Request /\ request'.left = Tail(request.left)
         /\ request'.op = request.op /\ request'.proc = request.proc
         /\ request'.outcome = request.outcome /\ request'.answer = request.answer
         /\ request'.seen = request.seen /\ request'.shown = request.shown
         /\ request'.regular = request.regular
<1>1. request.left \in Seq(Checks) /\ request.left # << >>
  BY DEF Request, Busy
<1>2. Tail(request.left) \in Ways
  BY <1>1, HeadTailProperties DEF Ways
<1> QED BY <1>2, RequestIs DEF Passed

LEMMA AnsweredFields ==
  ASSUME request \in Request, NEW code \in Codes, Answered(code)
  PROVE  /\ request' \in Request /\ request'.left = << >> /\ request'.answer = code
         /\ request'.op = request.op /\ request'.proc = request.proc
         /\ request'.outcome = request.outcome
         /\ request'.seen = request.seen /\ request'.shown = request.shown
         /\ request'.regular = request.regular
<1>1. << >> \in Ways
  BY EmptySeq DEF Ways
<1> QED BY <1>1, RequestIs DEF Answered

LEMMA BrokenFields ==
  ASSUME request \in Request, NEW code \in Codes, Broken(code)
  PROVE  /\ request' \in Request /\ request'.left = << >> /\ request'.answer = code
         /\ request'.op = request.op /\ request'.outcome = request.outcome
         /\ request'.seen = request.seen /\ ~request'.regular
<1>1. << >> \in Ways
  BY EmptySeq DEF Ways
<1> QED BY <1>1, RequestIs DEF Broken

\* The end of a request, with the process or with its answer.
LEMMA ForgetFields ==
  ASSUME Forget
  PROVE  /\ request' = None /\ request' \in Request /\ ~Busy' /\ shows' \in World
         /\ granted' \in BOOLEAN /\ changes' \in 0 .. MaxChanges
         /\ request'.answer = 0 /\ request'.outcome = "none"
<1>1. << >> \in Seq(Checks)
  BY EmptySeq
<1>2. "unprotectedRoute" \in DOMAIN Handlers
  BY DEF Handlers
<1>3. None \in Request
  BY <1>1, <1>2 DEF None, Request
<1>4. 0 \in 0 .. MaxChanges
  BY GatewayAssumption
<1> QED BY <1>3, <1>4 DEF Forget, None, Busy, World, Whole

\* What a check may do to a request: let it pass, answer it, or fail.
Checked ==
  \/ Passed
  \/ \E code \in Codes : Answered(code)
  \/ \E code \in Codes : Broken(code)

LEMMA Checking ==
  ASSUME request \in Request,
         Authenticate \/ Validate \/ FindOrganization \/ Review \/ FindType \/ FindCluster \/ ReadBody
  PROVE  Busy /\ Checked
<1>1. RowOK(Row)
  BY RowTyped
<1>2. Row.token \in Codes /\ Row.cluster \in Codes /\ Row.clusterError \in Codes
      /\ Row.typeError \in Codes
  BY <1>1 DEF RowOK, Rows
<1>3. {Refused, Failed, 422} \subseteq Codes
  BY DEF Codes
<1> QED BY <1>2, <1>3 DEF Authenticate, Validate, FindOrganization, Review, FindType, FindCluster,
        ReadBody, Due, Checked

LEMMA Operating ==
  ASSUME request \in Request, Operate
  PROVE  /\ Busy /\ Head(request.left) = "operation"
         /\ request' \in Request /\ request'.left = << >> /\ request'.outcome \in Outcomes
         /\ request'.answer = Row.answers[request'.outcome]
         /\ request'.op = request.op /\ request'.seen = request.seen
         /\ request'.shown = request.shown
         /\ UNCHANGED <<worldVars, token, changes>>
<1>1. RowOK(Row)
  BY RowTyped
<1>2. PICK outcome \in Outcomes :
        request' = [request EXCEPT !.left = << >>, !.outcome = outcome, !.answer = Row.answers[outcome]]
  BY DEF Operate
<1>3. PICK code : code = Row.answers[outcome]
  OBVIOUS
<1>4. code \in Codes
  BY <1>1, <1>3 DEF RowOK, Rows
<1>5. << >> \in Ways /\ outcome \in Results
  BY EmptySeq DEF Ways, Results
<1>6. request' = [request EXCEPT !.left = << >>, !.outcome = outcome, !.answer = code]
  BY <1>2, <1>3
<1>7. request' \in Request /\ request'.left = << >> /\ request'.outcome = outcome
      /\ request'.answer = code /\ request'.op = request.op /\ request'.seen = request.seen
      /\ request'.shown = request.shown
  BY <1>4, <1>5, <1>6, RequestIs
<1> QED BY <1>3, <1>7 DEF Operate, Due

\* The arrival of a request.
LEMMA Arriving ==
  ASSUME NEW op \in DOMAIN Handlers, NEW p \in Procs, Arrive(op, p)
  PROVE  /\ request' \in Request /\ request'.op = op /\ request'.proc = p
         /\ request'.left = Route(op) /\ request'.outcome = "none" /\ request'.answer = 0
         /\ request'.seen = {granted'} /\ (request'.shown => shows' = Whole)
         /\ shows' \in World /\ granted' \in BOOLEAN /\ UNCHANGED <<token, changes>>
<1>1. Route(op) \in Seq(Checks)
  BY RouteOK
<1>2. PICK route \in Seq(Checks), shown \in BOOLEAN :
        /\ route = Route(op) /\ shown = (shows' = Whole)
        /\ request' = [None EXCEPT !.op = op, !.proc = p, !.left = route, !.seen = {granted'},
                                   !.shown = shown]
  BY <1>1 DEF Arrive
<1>3. granted' \in BOOLEAN /\ shows' \in World /\ UNCHANGED <<token, changes>>
  BY DEF Arrive
<1>4. /\ request'.op = op /\ request'.proc = p /\ request'.left = route
      /\ request'.outcome = "none" /\ request'.answer = 0
      /\ request'.seen = {granted'} /\ request'.shown = shown
  BY <1>2 DEF None
<1>5. request' \in Request
  <2>1. op \in Ops /\ p \in Places /\ route \in Ways /\ {granted'} \in Sights /\ shown \in BOOLEAN
        /\ "none" \in Results /\ 0 \in Codes
    BY <1>2, <1>3 DEF Ops, Places, Ways, Sights, Results, Codes
  <2>2. request' = [op |-> op, proc |-> p, left |-> route, outcome |-> "none", answer |-> 0,
                    seen |-> {granted'}, shown |-> shown, regular |-> TRUE]
    BY <1>2 DEF None
  <2> QED BY <2>1, <2>2, RequestIs
<1> QED BY <1>2, <1>3, <1>4, <1>5

\* A change of the world while a request is answered.
LEMMA Delivering ==
  ASSUME request \in Request, shows \in World, NEW kind \in DOMAIN shows, Deliver(kind)
  PROVE  /\ Busy /\ shows' \in World
         /\ request' \in Request /\ request'.left = request.left /\ request'.op = request.op
         /\ request'.proc = request.proc /\ request'.outcome = request.outcome
         /\ request'.answer = request.answer /\ request'.seen = request.seen /\ ~request'.shown
         /\ UNCHANGED <<granted, token>> /\ Change
<1>1. kind \in {"organization", "cluster"}
  BY DEF World
<1>2. PICK state : /\ state \in IF kind = "cluster" THEN {"none", "whole"} ELSE {"none", "bare", "whole"}
                   /\ shows' = [shows EXCEPT ![kind] = state]
  BY DEF Deliver
<1>3. shows' \in World
  <2>1. CASE kind = "organization"
    BY <1>2, <2>1 DEF World
  <2>2. CASE kind = "cluster"
    BY <1>2, <2>2 DEF World
  <2> QED BY <1>1, <2>1, <2>2
<1>4. request' = [request EXCEPT !.shown = FALSE] /\ Busy /\ UNCHANGED <<granted, token>> /\ Change
  BY DEF Deliver
<1> QED BY <1>3, <1>4, RequestIs

LEMMA Regranting ==
  ASSUME request \in Request, Regrant
  PROVE  /\ Busy /\ request' \in Request /\ request'.left = request.left /\ request'.op = request.op
         /\ request'.proc = request.proc /\ request'.outcome = request.outcome
         /\ request'.answer = request.answer /\ request'.seen = BOOLEAN
         /\ request'.shown = request.shown
         /\ UNCHANGED <<shows, token>> /\ granted' \in BOOLEAN /\ Change
<1>1. BOOLEAN \in Sights
  BY DEF Sights
<1> QED BY <1>1, RequestIs DEF Regrant

-----------------------------------------------------------------------------
(* Types *)

LEMMA Losing ==
  ASSUME TypeOK, NEW p \in Procs, Lose(p)
  PROVE  /\ shows' \in World /\ granted' \in BOOLEAN /\ changes' \in 0 .. MaxChanges
         /\ request' \in Request /\ token' = token
<1>1. CASE request.proc = p /\ procs'[p] = Down
  BY <1>1, ForgetFields DEF Lose
<1>2. CASE UNCHANGED requestVars
  BY <1>2 DEF TypeOK, requestVars, worldVars
<1> QED BY <1>1, <1>2 DEF Lose

LEMMA TypesStart == Init => TypeOK
<1> SUFFICES ASSUME Init PROVE TypeOK
  OBVIOUS
<1>1. StartupTypeOK
  BY KeysStart DEF KeysInv
<1>2. shows \in World /\ granted \in BOOLEAN /\ request = None
  BY DEF Init, World, Whole
<1>3. None \in Request
  <2>1. << >> \in Seq(Checks)
    BY EmptySeq
  <2>2. "unprotectedRoute" \in DOMAIN Handlers
    BY DEF Handlers
  <2> QED BY <2>1, <2>2 DEF None, Request
<1>4. token \in Keys /\ changes \in 0 .. MaxChanges
  BY StartupAssumption, GatewayAssumption DEF Init, Keys
<1> QED BY <1>1, <1>2, <1>3, <1>4 DEF TypeOK

LEMMA TypesKept == TypeOK /\ [Next]_vars => TypeOK'
<1> SUFFICES ASSUME TypeOK, [Next]_vars PROVE TypeOK'
  OBVIOUS
<1>0. /\ StartupTypeOK /\ shows \in World /\ granted \in BOOLEAN /\ token \in Keys
      /\ changes \in 0 .. MaxChanges /\ request \in Request
  BY DEF TypeOK
<1>c. Change => changes' \in 0 .. MaxChanges
  BY <1>0, GatewayAssumption DEF Change
\* A step of a process.
<1>1. ASSUME NEW p \in Procs, Step(p), Lose(p) PROVE TypeOK'
  <2>1. StartupTypeOK'
    BY <1>0, <1>1, Stepped
  <2> QED BY <1>0, <1>1, <2>1, Losing DEF TypeOK
\* Everything else leaves the processes alone.
<1>2. ASSUME UNCHANGED startupVars, shows' \in World, granted' \in BOOLEAN, token' \in Keys,
             changes' \in 0 .. MaxChanges, request' \in Request
      PROVE  TypeOK'
  <2>1. StartupTypeOK'
    BY <1>0, <1>2 DEF startupVars, StartupTypeOK
  <2> QED BY <1>2, <2>1 DEF TypeOK
<1>3. CASE UNCHANGED vars
  BY <1>0, <1>2, <1>3 DEF vars, requestVars, worldVars
<1>4. ASSUME UNCHANGED startupVars, NEW kind \in DOMAIN shows, Deliver(kind) PROVE TypeOK'
  BY <1>0, <1>2, <1>4, <1>c, Delivering
<1>5. ASSUME UNCHANGED startupVars, Regrant PROVE TypeOK'
  BY <1>0, <1>2, <1>5, <1>c, Regranting
<1>6. ASSUME UNCHANGED startupVars, NEW p \in Procs, Login(p) PROVE TypeOK'
  <2>1. procs[p].access \in Keys /\ 0 \in Keys
    <3>1. procs[p] \in Process
      BY <1>0 DEF StartupTypeOK
    <3>2. procs[p].access \in Keys
      BY <3>1 DEF Process
    <3>3. 0 \in Keys
      BY StartupAssumption DEF Keys
    <3> QED BY <3>2, <3>3
  <2>2. token' \in Keys /\ UNCHANGED <<worldVars, request, changes>>
    BY <1>6, <2>1 DEF Login
  <2> QED BY <1>0, <1>2, <1>6, <2>2 DEF worldVars
<1>7. ASSUME UNCHANGED startupVars, NEW p \in Procs, NEW op \in DOMAIN Handlers, Arrive(op, p)
      PROVE  TypeOK'
  BY <1>0, <1>2, <1>7, Arriving
<1>8. ASSUME UNCHANGED startupVars, Authenticate \/ Validate \/ FindOrganization \/ Review
             \/ FindType \/ FindCluster \/ ReadBody
      PROVE  TypeOK'
  <2>1. request' \in Request
    BY <1>0, <1>8, Checking, PassedFields, AnsweredFields, BrokenFields DEF Checked
  <2>2. UNCHANGED <<worldVars, token>> /\ (changes' = changes \/ Change)
    BY <1>8 DEF Authenticate, Validate, FindOrganization, Review, FindType, FindCluster, ReadBody
  <2> QED BY <1>0, <1>2, <1>8, <1>c, <2>1, <2>2 DEF worldVars
<1>9. ASSUME UNCHANGED startupVars, Operate PROVE TypeOK'
  BY <1>0, <1>2, <1>9, Operating DEF worldVars
<1>10. ASSUME UNCHANGED startupVars, Finish PROVE TypeOK'
  BY <1>0, <1>2, <1>10, ForgetFields DEF Finish
<1> QED BY <1>1, <1>3, <1>4, <1>5, <1>6, <1>7, <1>8, <1>9, <1>10 DEF Next, Respond, Serve, Step

(***************************************************************************)
(* Requests, tokens and processes keep their types, whatever is answered,   *)
(* lost, granted or shown meanwhile.                                        *)
(***************************************************************************)
THEOREM RequestsTyped == Spec => []TypeOK
BY TypesStart, TypesKept, PTL DEF Spec

-----------------------------------------------------------------------------
(* The review comes before the operation and before the cluster *)

(***************************************************************************)
(* While a request is on its way nothing was answered yet, and what the     *)
(* review would say now was noted.  As long as the subject never had the    *)
(* right, the review is still ahead of the operation and of the cluster.    *)
(***************************************************************************)
OnItsWay ==
    /\ request.answer = 0 /\ request.outcome = "none"
    /\ granted \in request.seen
    /\ request.shown => shows = Whole
    /\ request.op \in Reviewed /\ TRUE \notin request.seen => Guarded(request.left)

RequestInv == (Busy => OnItsWay) /\ EffectNeedsRight /\ NothingRevealed

\* Nothing is claimed of a request that did not come to anything.
LEMMA Quiet ==
  ASSUME request'.outcome = "none", request'.answer = 0
  PROVE  EffectNeedsRight' /\ NothingRevealed'
BY DEF EffectNeedsRight, NothingRevealed

LEMMA RequestStart == Init => RequestInv
BY DEF Init, RequestInv, Busy, None, EffectNeedsRight, NothingRevealed

\* A check that lets the request pass.
LEMMA PassedReview ==
  ASSUME TypeOK, RequestInv, Busy, Passed, UNCHANGED worldVars,
         Head(request.left) = "review" => granted
  PROVE  RequestInv'
<1>1. request \in Request /\ OnItsWay
  BY DEF TypeOK, RequestInv
<1>2. ASSUME request'.op \in Reviewed, TRUE \notin request'.seen PROVE Guarded(request'.left)
  <2>1. Guarded(request.left) /\ TRUE \notin request.seen
    BY <1>1, <1>2, PassedFields DEF OnItsWay
  <2>2. Head(request.left) # "review"
    BY <1>1, <2>1 DEF OnItsWay, TypeOK
  <2>3. request.left \in Seq(Checks) /\ request.left # << >>
    BY <1>1 DEF Request, Busy
  <2> QED BY <1>1, <2>1, <2>2, <2>3, PassedFields, GuardedTail
<1>3. OnItsWay'
  BY <1>1, <1>2, PassedFields DEF OnItsWay, worldVars
<1> QED BY <1>1, <1>3, PassedFields, Quiet DEF RequestInv, OnItsWay

\* A check that answers, in a way that is the same for whoever lacks the right.
LEMMA AnsweredReview ==
  ASSUME TypeOK, RequestInv, Busy, NEW code \in Codes, Answered(code),
         request.op \in Reviewed /\ request.seen = {FALSE} /\ request.regular
            => code \in {Refused, Row.token}
  PROVE  RequestInv'
<1>1. request \in Request /\ OnItsWay
  BY DEF TypeOK, RequestInv
<1>2. ~Busy' /\ request'.outcome = "none" /\ Row' = Row
  BY <1>1, AnsweredFields DEF Busy, OnItsWay, Row
<1> QED BY <1>1, <1>2, AnsweredFields DEF RequestInv, EffectNeedsRight, NothingRevealed

\* A check that fails.
LEMMA BrokenReview ==
  ASSUME TypeOK, RequestInv, Busy, NEW code \in Codes, Broken(code)
  PROVE  RequestInv'
<1>1. request \in Request /\ OnItsWay
  BY DEF TypeOK, RequestInv
<1>2. ~Busy' /\ request'.outcome = "none"
  BY <1>1, BrokenFields DEF Busy, OnItsWay
<1> QED BY <1>1, <1>2, BrokenFields DEF RequestInv, EffectNeedsRight, NothingRevealed

LEMMA RequestKept == TypeOK /\ RequestInv /\ [Next]_vars => RequestInv'
<1> SUFFICES ASSUME TypeOK, RequestInv, [Next]_vars PROVE RequestInv'
  OBVIOUS
<1>0. request \in Request /\ shows \in World /\ granted \in BOOLEAN /\ (Busy => OnItsWay)
  BY DEF TypeOK, RequestInv
<1>r. RowOK(Row)
  BY <1>0, RowTyped
<1>c. Row.token \in Codes /\ Row.cluster \in Codes /\ Row.clusterError \in Codes
      /\ Row.typeError \in Codes /\ Refused \in Codes /\ Failed \in Codes /\ 422 \in Codes
  <2>1. Row.token \in Codes /\ Row.cluster \in Codes /\ Row.clusterError \in Codes
        /\ Row.typeError \in Codes
    BY <1>r DEF RowOK, Rows
  <2> QED BY <2>1 DEF Codes
\* Where the subject had no right, what is due is neither the operation nor the cluster.
<1>g. ASSUME Busy, request.op \in Reviewed, TRUE \notin request.seen
      PROVE  Head(request.left) \notin {"operation", "cluster"}
  <2>1. request.left \in Seq(Checks) /\ request.left # << >> /\ Guarded(request.left)
    BY <1>0, <1>g DEF Request, Busy, OnItsWay
  <2> QED BY <2>1, GuardedTail
<1>1. CASE UNCHANGED requestVars
  BY <1>1 DEF requestVars, worldVars, RequestInv, OnItsWay, Busy, EffectNeedsRight, NothingRevealed, Row
<1>2. CASE Forget
  BY <1>2, ForgetFields, Quiet DEF RequestInv
<1>3. ASSUME NEW kind \in DOMAIN shows, Deliver(kind) PROVE RequestInv'
  <2>1. OnItsWay'
    BY <1>0, <1>3, Delivering DEF OnItsWay
  <2> QED BY <1>0, <1>3, <2>1, Quiet DEF RequestInv, OnItsWay
<1>4. CASE Regrant
  <2>1. OnItsWay'
    BY <1>0, <1>4, Regranting DEF OnItsWay
  <2> QED BY <1>0, <1>4, <2>1, Quiet DEF RequestInv, OnItsWay
<1>5. ASSUME NEW p \in Procs, Login(p) PROVE RequestInv'
  BY <1>1, <1>5 DEF Login, worldVars, RequestInv, OnItsWay, Busy, EffectNeedsRight, NothingRevealed, Row
<1>6. ASSUME NEW p \in Procs, NEW op \in DOMAIN Handlers, Arrive(op, p) PROVE RequestInv'
  <2>1. op \in Reviewed => Guarded(Route(op))
    BY RouteOK
  <2>2. OnItsWay'
    BY <1>6, <2>1, Arriving DEF OnItsWay
  <2> QED BY <1>6, <2>2, Arriving, Quiet DEF RequestInv
<1>7. CASE Authenticate
  <2>1. UNCHANGED worldVars /\ Busy /\ Head(request.left) = "token"
    BY <1>7 DEF Authenticate, Due
  <2>2. Passed \/ Answered(Row.token) \/ Broken(Row.token)
    BY <1>7 DEF Authenticate
  <2> QED BY <1>c, <2>1, <2>2, PassedReview, AnsweredReview, BrokenReview
<1>8. CASE Validate \/ ReadBody \/ FindType
  <2>1. UNCHANGED worldVars /\ Busy /\ Head(request.left) # "review"
    BY <1>8 DEF Validate, ReadBody, FindType, Due
  <2>2. Passed \/ Broken(422) \/ Broken(Failed) \/ Broken(Row.typeError)
    BY <1>8 DEF Validate, ReadBody, FindType
  <2> QED BY <1>c, <2>1, <2>2, PassedReview, BrokenReview
<1>9. CASE FindOrganization
  <2>1. UNCHANGED worldVars /\ Busy /\ Head(request.left) # "review"
    BY <1>9 DEF FindOrganization, Due
  <2>2. Passed \/ Answered(Refused) \/ Broken(Failed)
    BY <1>9 DEF FindOrganization
  <2> QED BY <1>c, <2>1, <2>2, PassedReview, AnsweredReview, BrokenReview
<1>10. CASE Review
  <2>1. UNCHANGED worldVars /\ Busy
    BY <1>10 DEF Review, Due, worldVars
  <2>2. (granted /\ Passed) \/ Answered(Refused) \/ Broken(Failed)
    BY <1>10 DEF Review
  <2> QED BY <1>c, <2>1, <2>2, PassedReview, AnsweredReview, BrokenReview
<1>11. CASE FindCluster
  <2>1. UNCHANGED worldVars /\ Busy /\ Head(request.left) = "cluster"
    BY <1>11 DEF FindCluster, Due
  <2>2. Passed \/ Answered(Row.cluster) \/ Broken(Row.clusterError)
    BY <1>11 DEF FindCluster
  <2>3. ~(request.op \in Reviewed /\ request.seen = {FALSE})
    BY <1>g, <2>1
  <2> QED BY <1>c, <2>1, <2>2, <2>3, PassedReview, AnsweredReview, BrokenReview
<1>12. CASE Operate
  <2>1. Busy /\ Head(request.left) = "operation"
    BY <1>0, <1>12, Operating
  <2>2. ~(request.op \in Reviewed /\ TRUE \notin request.seen)
    BY <1>g, <2>1
  <2>3. ~Busy' /\ request'.op = request.op /\ request'.seen = request.seen
    BY <1>0, <1>12, Operating DEF Busy
  <2>4. request'.seen # {FALSE} \/ request'.op \notin Reviewed
    BY <2>2, <2>3
  <2> QED BY <2>2, <2>3, <2>4 DEF RequestInv, EffectNeedsRight, NothingRevealed
<1> QED BY <1>1, <1>2, <1>3, <1>4, <1>5, <1>6, <1>7, <1>8, <1>9, <1>10, <1>11, <1>12
        DEF Next, Respond, Serve, Finish, Lose, vars

(***************************************************************************)
(* EffectNeedsRight: every handler that asks for a right asks before it     *)
(* operates, and what it is told was so at some time since the request      *)
(* arrived.                                                                 *)
(***************************************************************************)
THEOREM RightComesFirst == Spec => []EffectNeedsRight
<1>1. RequestInv => EffectNeedsRight
  BY DEF RequestInv
<1> QED BY <1>1, RequestStart, RequestKept, RequestsTyped, PTL DEF Spec

(***************************************************************************)
(* NothingRevealed: the review also comes before the cluster is looked up,  *)
(* and an organization that is not there is answered like a right that is   *)
(* not there.                                                               *)
(***************************************************************************)
THEOREM AnswersAlike == Spec => []NothingRevealed
<1>1. RequestInv => NothingRevealed
  BY DEF RequestInv
<1> QED BY <1>1, RequestStart, RequestKept, RequestsTyped, PTL DEF Spec

-----------------------------------------------------------------------------
(* Tokens of any process are good with every other *)

(***************************************************************************)
(* A token that is there was signed with the stored key, and the process    *)
(* that answers serves, so that it verifies with that key.                  *)
(***************************************************************************)
TokenInv ==
    /\ token # 0 => secret.exists /\ token = secret.access
    /\ Busy => request.proc \in Procs /\ Serving(request.proc)

TurnInv == whole => TokenInv /\ NotTurnedAway

LEMMA TurnStart == Init => TurnInv
BY DEF Init, TurnInv, TokenInv, Busy, None, NotTurnedAway, Refused

\* A process that serves goes on serving or goes down.
LEMMA ServesOn ==
  ASSUME StartupTypeOK, NEW p \in Procs, Serving(p), Step(p)
  PROVE  Serving(p)' \/ procs'[p] = Down
<1>0. procs \in [Procs -> Process] /\ procs[p] \in Process
  BY DEF StartupTypeOK
<1>1. ASSUME NEW process, Move(p, process) PROVE procs'[p] = process
  BY <1>0, <1>1 DEF Move
<1>2. CASE Crash(p)
  BY <1>1, <1>2 DEF Crash, Exit
<1>3. CASE ReadRole(p)
  <2>1. procs'[p] = [procs[p] EXCEPT !.step = "write role", !.found = procs[p].role \in roles]
    BY <1>1, <1>3 DEF ReadRole
  <2> QED BY <1>0, <2>1 DEF Serving, Process
<1>4. CASE WriteRole(p)
  <2> DEFINE role == procs[p].role
             next == IF role < 4
                     THEN [procs[p] EXCEPT !.step = "read role", !.found = FALSE, !.role = role + 1]
                     ELSE [procs[p] EXCEPT !.step = "manage", !.found = FALSE]
  <2>1. Move(p, next) \/ Exit(p)
    BY <1>4 DEF WriteRole
  <2>2. next.step \in {"read role", "manage"}
    BY <1>0 DEF Process
  <2> HIDE DEF next
  <2> QED BY <1>1, <2>1, <2>2 DEF Serving, Exit
<1>5. ~(Boot(p) \/ ReadKeys(p) \/ WriteKeys(p) \/ ReadPublic(p) \/ WritePublic(p) \/ Listen(p))
  <2>1. procs[p].step \notin {"down", "read keys", "write keys", "read public", "write public", "serve"}
    BY DEF Serving
  <2> QED BY ONLY <2>1 DEF At, Boot, ReadKeys, WriteKeys, ReadPublic, WritePublic, Listen
<1> QED BY <1>2, <1>3, <1>4, <1>5 DEF Step, Advance

\* A step of a process leaves the tokens good, and no request at a process that went down.
LEMMA StepTurn ==
  ASSUME TypeOK, KeysInv, TurnInv, NEW p \in Procs, Step(p), Lose(p)
  PROVE  TurnInv'
<1>1. whole' = whole
  BY DEF Step, Advance, Boot, ReadKeys, WriteKeys, ReadPublic, WritePublic, Listen,
         ReadRole, WriteRole, Crash
<1> SUFFICES ASSUME whole PROVE TokenInv' /\ NotTurnedAway'
  BY <1>1 DEF TurnInv
<1>2. TokenInv /\ NotTurnedAway /\ StartupTypeOK
  BY DEF TurnInv, TypeOK
<1>3. token' = token /\ (secret.exists => secret' = secret)
  BY Losing, SecretWrittenOnce
<1>4. token' # 0 => secret'.exists /\ token' = secret'.access
  BY <1>2, <1>3 DEF TokenInv
<1>5. CASE Forget
  <2>1. ~Busy' /\ request'.answer = 0
    BY <1>5, ForgetFields
  <2> QED BY <1>4, <2>1 DEF TokenInv, NotTurnedAway, Refused
<1>6. CASE UNCHANGED requestVars /\ ~(request.proc = p /\ procs'[p] = Down)
  <2>1. request' = request
    BY <1>6 DEF requestVars
  <2>2. ASSUME Busy, NEW q, q = request.proc PROVE q \in Procs /\ Serving(q)'
    <3>1. q \in Procs /\ Serving(q)
      BY <1>2, <2>2 DEF TokenInv
    <3>2. CASE q = p
      BY <1>2, <1>6, <2>2, <3>1, <3>2, ServesOn
    <3>3. CASE q # p
      <4>1. procs'[q] = procs[q]
        BY <1>2, <3>1, <3>3, Stepped
      <4> QED BY <3>1, <4>1 DEF Serving
    <3> QED BY <3>1, <3>2, <3>3
  <2>3. Busy' => request'.proc \in Procs /\ procs'[request'.proc].step \in {"read role", "write role", "manage"}
    BY <2>1, <2>2 DEF Busy, Serving
  <2>4. TokenInv'
    BY <1>4, <2>3 DEF TokenInv, Serving
  <2>5. NotTurnedAway'
    BY <1>1, <1>2, <2>1 DEF NotTurnedAway
  <2> QED BY <2>4, <2>5
<1> QED BY <1>5, <1>6 DEF Lose

LEMMA TurnKept ==
  TypeOK /\ KeysInv /\ RequestInv /\ TurnInv /\ [Next]_vars => TurnInv'
<1> SUFFICES ASSUME TypeOK, KeysInv, RequestInv, TurnInv, [Next]_vars PROVE TurnInv'
  OBVIOUS
<1>1. ASSUME NEW p \in Procs, Step(p), Lose(p) PROVE TurnInv'
  BY <1>1, StepTurn
<1>2. CASE UNCHANGED vars
  BY <1>2 DEF vars, startupVars, requestVars, worldVars, TurnInv, TokenInv, NotTurnedAway, Busy, Serving
<1>3. ASSUME Respond, UNCHANGED startupVars PROVE TurnInv'
  <2> SUFFICES ASSUME whole PROVE TokenInv' /\ NotTurnedAway'
    BY <1>3 DEF TurnInv, startupVars
  <2>0. /\ TokenInv /\ NotTurnedAway /\ request \in Request /\ shows \in World
        /\ (Busy => OnItsWay) /\ UNCHANGED <<secret, procs, whole>>
    BY <1>3 DEF TurnInv, TypeOK, RequestInv, startupVars
  <2>r. RowOK(Row)
    BY <2>0, RowTyped
  <2>c. Row.token \in Codes /\ Row.cluster \in Codes /\ Row.clusterError \in Codes
        /\ Row.typeError \in Codes /\ Refused \in Codes /\ Failed \in Codes /\ 422 \in Codes
        /\ Refused # 0
    <3>1. Row.token \in Codes /\ Row.cluster \in Codes /\ Row.clusterError \in Codes
          /\ Row.typeError \in Codes
      BY <2>r DEF RowOK, Rows
    <3> QED BY <3>1 DEF Codes, Refused
  \* Who serves verifies with the stored key.
  <2>k. ASSUME NEW p \in Procs, Serving(p) PROVE secret.exists /\ procs[p].access = secret.access
    BY <2>k DEF KeysInv, ProcessInv, HasStored
  \* A request that goes on, or ends without being refused, at the same process.
  <2>1. ASSUME token' = token, request'.proc = request.proc, Busy' => Busy,
               request'.answer # Refused \/ ~request'.regular \/ ~request'.shown
                  \/ request'.seen # {TRUE} \/ request'.outcome = "unauthorized"
        PROVE  TokenInv' /\ NotTurnedAway'
    BY <2>0, <2>1 DEF TokenInv, NotTurnedAway, Serving
  <2>2. ASSUME token' = token, ~Busy',
               request'.answer # Refused \/ ~request'.regular \/ ~request'.shown
                  \/ request'.seen # {TRUE} \/ request'.outcome = "unauthorized"
        PROVE  TokenInv' /\ NotTurnedAway'
    BY <2>0, <2>2 DEF TokenInv, NotTurnedAway
  \* Nothing was answered before.
  <2>3. ASSUME Busy, Passed, token' = token PROVE TokenInv' /\ NotTurnedAway'
    BY <2>0, <2>1, <2>3, <2>c, PassedFields DEF OnItsWay
  <2>4. ASSUME Busy, NEW code \in Codes, Broken(code), token' = token
        PROVE  TokenInv' /\ NotTurnedAway'
    <3>1. ~Busy' /\ ~request'.regular
      BY <2>0, <2>4, BrokenFields DEF Busy
    <3> QED BY <2>2, <2>4, <3>1
  <2>5. ASSUME Busy, NEW code \in Codes, Answered(code), token' = token,
               ~request.shown \/ request.seen # {TRUE}
        PROVE  TokenInv' /\ NotTurnedAway'
    <3>1. ~Busy' /\ (~request'.shown \/ request'.seen # {TRUE})
      BY <2>0, <2>5, AnsweredFields DEF Busy
    <3> QED BY <2>2, <2>5, <3>1
  <2>6. ASSUME NEW kind \in DOMAIN shows, Deliver(kind) PROVE TokenInv' /\ NotTurnedAway'
    <3>1. request'.proc = request.proc /\ ~request'.shown /\ token' = token /\ (Busy' => Busy)
      BY <2>0, <2>6, Delivering DEF Busy
    <3> QED BY <2>1, <3>1
  <2>7. CASE Regrant
    <3>1. request'.proc = request.proc /\ request'.seen # {TRUE} /\ token' = token /\ (Busy' => Busy)
      BY <2>0, <2>7, Regranting DEF Busy
    <3> QED BY <2>1, <3>1
  <2>8. ASSUME NEW p \in Procs, Login(p) PROVE TokenInv' /\ NotTurnedAway'
    <3>1. request' = request /\ token' \in {procs[p].access, 0} /\ Managing(p)
      BY <2>8 DEF Login
    <3>2. Serving(p)
      BY <3>1 DEF Managing, At, Serving
    <3>3. token' # 0 => secret.exists /\ token' = secret.access
      BY <2>k, <3>1, <3>2
    <3> QED BY <2>0, <3>1, <3>3 DEF TokenInv, NotTurnedAway, Busy, Serving
  <2>9. ASSUME NEW p \in Procs, NEW op \in DOMAIN Handlers, Arrive(op, p)
        PROVE  TokenInv' /\ NotTurnedAway'
    <3>1. Serving(p) /\ request'.proc = p /\ request'.answer = 0 /\ token' = token
      BY <2>9, Arriving DEF Arrive
    <3> QED BY <2>0, <2>9, <2>c, <3>1 DEF TokenInv, NotTurnedAway, Serving
  <2>10. CASE Authenticate
    <3>1. Busy /\ token' = token
      BY <2>10 DEF Authenticate, Due
    <3>2. token # 0 => Verifies
      <4>1. request.proc \in Procs /\ Serving(request.proc)
        BY <2>0, <3>1 DEF TokenInv
      <4> QED BY <2>0, <2>k, <4>1 DEF TokenInv, Verifies
    <3>3. Passed \/ Broken(Row.token)
      BY <2>10, <3>2 DEF Authenticate
    <3> QED BY <2>3, <2>4, <2>c, <3>1, <3>3
  <2>11. CASE Validate \/ ReadBody \/ FindType
    <3>1. Busy /\ token' = token
      BY <2>11 DEF Validate, ReadBody, FindType, Due
    <3>2. Passed \/ Broken(422) \/ Broken(Failed) \/ Broken(Row.typeError)
      BY <2>11 DEF Validate, ReadBody, FindType
    <3> QED BY <2>3, <2>4, <2>c, <3>1, <3>2
  <2>12. CASE FindOrganization
    <3>1. Busy /\ token' = token
      BY <2>12 DEF FindOrganization, Due
    <3>2. \/ Passed
          \/ shows.organization = "none" /\ Answered(Refused)
          \/ Broken(Failed)
      BY <2>12 DEF FindOrganization
    <3>3. shows.organization = "none" => ~request.shown
      BY <2>0, <3>1 DEF OnItsWay, Whole
    <3> QED BY <2>3, <2>4, <2>5, <2>c, <3>1, <3>2, <3>3
  <2>13. CASE Review
    <3>1. Busy /\ token' = token
      BY <2>13 DEF Review, Due
    <3>2. Passed \/ (~granted /\ Answered(Refused)) \/ Broken(Failed)
      BY <2>13 DEF Review
    <3>3. ~granted => request.seen # {TRUE}
      BY <2>0, <3>1 DEF OnItsWay
    <3> QED BY <2>3, <2>4, <2>5, <2>c, <3>1, <3>2, <3>3
  <2>14. CASE FindCluster
    <3>1. Busy /\ token' = token
      BY <2>14 DEF FindCluster, Due
    <3>2. \/ Passed
          \/ shows.cluster = "none" /\ Answered(Row.cluster)
          \/ Broken(Row.clusterError)
      BY <2>14 DEF FindCluster
    <3>3. shows.cluster = "none" => ~request.shown
      BY <2>0, <3>1 DEF OnItsWay, Whole
    <3> QED BY <2>3, <2>4, <2>5, <2>c, <3>1, <3>2, <3>3
  <2>15. CASE Operate
    <3>1. ~Busy' /\ token' = token /\ request'.outcome \in Outcomes
          /\ request'.answer = Row.answers[request'.outcome]
      BY <2>0, <2>15, Operating DEF Busy
    <3>2. request'.answer = Refused => request'.outcome = "unauthorized"
      BY <2>r, <3>1 DEF RowOK, RefusesOnlyUnauthorized
    <3> QED BY <2>2, <3>1, <3>2
  <2>16. CASE Finish
    <3>1. ~Busy' /\ request'.answer = 0 /\ token' = token
      BY <2>16, ForgetFields DEF Finish
    <3> QED BY <2>2, <2>c, <3>1
  <2> QED BY <1>3, <2>6, <2>7, <2>8, <2>9, <2>10, <2>11, <2>12, <2>13, <2>14, <2>15, <2>16
          DEF Respond, Serve
<1> QED BY <1>1, <1>2, <1>3 DEF Next, Step

(***************************************************************************)
(* NotTurnedAway: a token of one process verifies with every other, because *)
(* they all have the stored keys, and a refusal then has another reason.    *)
(***************************************************************************)
THEOREM TokensAreGood == Spec => []NotTurnedAway
<1>1. TypeOK /\ KeysInv /\ TurnInv => NotTurnedAway
  BY DEF TurnInv, NotTurnedAway
<1>2. Spec => []RequestInv
  BY RequestStart, RequestKept, RequestsTyped, PTL DEF Spec
<1>3. Spec => []KeysInv
  BY KeysStart, KeysKept, PTL DEF Spec
<1> QED BY <1>1, <1>2, <1>3, TurnStart, TurnKept, RequestsTyped, PTL DEF Spec

=============================================================================
