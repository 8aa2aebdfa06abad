-------------------------------- MODULE Routes --------------------------------
(***************************************************************************)
(* What a request passes through on its way to an operation: the            *)
(* middleware, and the generic handlers around every operation.  A handler  *)
(* is a row of checks, each of which may answer the request, with the       *)
(* operation last, and the answers it gives.  Names in the path are never   *)
(* empty: the route would not match.                                        *)
(***************************************************************************)
EXTENDS Naturals, Sequences

\* What an operation comes to: a result, neither a result nor an error, or an error of some kind.
Errors == {"conflict", "invalid", "notFound", "forbidden", "unauthorized", "error"}
Outcomes == {"ok", "nothing"} \cup Errors

Checks == {"token", "schema", "organization", "review", "type", "cluster", "body", "operation"}

Refused == 401
Failed == 500
Lost == 599   \* the handler panics and the connection is closed

\* The answer to each outcome; to an error that is not named, and to every other failure, 500.
Answers(named) ==
    [outcome \in Outcomes |-> IF outcome \in DOMAIN named THEN named[outcome]
                              ELSE IF outcome = "nothing" THEN named["ok"] ELSE Failed]

(***************************************************************************)
(* A handler: its checks in order, its answers, and where they differ from  *)
(* the rest of the handlers: to a bad token, to a cluster that is not       *)
(* shown, to an error while it is read and while the type is looked up.     *)
(***************************************************************************)
Handler(checks, answers) ==
    [checks |-> checks, answers |-> Answers(answers), token |-> Refused, cluster |-> 404,
     clusterError |-> Failed, typeError |-> Failed]

\* The result is looked into, also where there is none.
CreateClusterResource ==
    Handler(<<"organization", "review", "cluster", "body", "operation">>,
            [ok |-> 201, nothing |-> Lost, conflict |-> 409, invalid |-> 422])

CreateOrganizationResource ==
    Handler(<<"organization", "review", "body", "operation">>,
            [ok |-> 201, conflict |-> 409, invalid |-> 422])

CreateGlobalResource ==
    Handler(<<"body", "operation">>,
            [ok |-> 201, invalid |-> 422, unauthorized |-> Refused, forbidden |-> 403])

\* Mutant: the review is left out.
UpdateClusterResource_NoReview ==
    Handler(<<"organization", "body", "cluster", "body", "operation">>,
            [ok |-> 202, forbidden |-> 403, notFound |-> 404, invalid |-> 422])

\* The body is read before the cluster, and parsed after.
UpdateClusterResource ==
    Handler(<<"organization", "review", "body", "cluster", "body", "operation">>,
            [ok |-> 202, forbidden |-> 403, notFound |-> 404, invalid |-> 422])

UpdateOrganizationResource ==
    Handler(<<"organization", "review", "body", "operation">>,
            [ok |-> 202, forbidden |-> 403, notFound |-> 404, invalid |-> 422])

UpdateGlobalResource ==
    Handler(<<"review", "body", "operation">>,
            [ok |-> 202, notFound |-> 404, unauthorized |-> Refused, invalid |-> 422])

UpdateNamelessResource ==
    Handler(<<"body", "operation">>, [ok |-> 202, unauthorized |-> Refused, invalid |-> 422])

DeleteClusterResource ==
    [Handler(<<"organization", "review", "cluster", "operation">>, [ok |-> 202, notFound |-> 404])
     EXCEPT !.cluster = Refused]

DeleteOrganizationResource ==
    Handler(<<"organization", "review", "operation">>, [ok |-> 202, notFound |-> 404])

DeleteGlobalResource == Handler(<<"review", "operation">>, [ok |-> 202, notFound |-> 404])

\* Mutant: the cluster is looked up before the review.
GetClusterResource_ClusterFirst ==
    Handler(<<"organization", "cluster", "review", "operation">>, [ok |-> 200, notFound |-> 404])

GetClusterResource ==
    Handler(<<"organization", "review", "cluster", "operation">>, [ok |-> 200, notFound |-> 404])

GetOrganizationResource ==
    Handler(<<"organization", "review", "operation">>, [ok |-> 200, notFound |-> 404])

GetGlobalResource == Handler(<<"review", "operation">>, [ok |-> 200, notFound |-> 404])

GetNamelessResource ==
    Handler(<<"operation">>, [ok |-> 200, notFound |-> 404, unauthorized |-> Refused])

ListClusterResource ==
    [Handler(<<"organization", "review", "cluster", "operation">>, [ok |-> 200])
     EXCEPT !.cluster = Refused, !.clusterError = Refused]

ListOrganizationResource == Handler(<<"organization", "review", "operation">>, [ok |-> 200])

ListGlobalResource == Handler(<<"operation">>, [ok |-> 200])

\* API v2; the types of the objects it is asked for exist.
GetNamespacedResource ==
    [Handler(<<"type", "review", "operation">>, [ok |-> 200, notFound |-> 404])
     EXCEPT !.token = Failed, !.typeError = Refused]

\* A selector that is not valid makes it panic.
ListNamespacedResource ==
    [Handler(<<"type", "review", "operation">>, [ok |-> 200, notFound |-> 404, invalid |-> Lost])
     EXCEPT !.token = Failed]

\* The answer is the code of the error itself.
unprotectedRoute ==
    Handler(<<"operation">>, [ok |-> 200, conflict |-> 409, invalid |-> 422, notFound |-> 404,
                              forbidden |-> 403, unauthorized |-> Refused])

Handlers ==
    [CreateClusterResource |-> CreateClusterResource,
     CreateOrganizationResource |-> CreateOrganizationResource,
     CreateGlobalResource |-> CreateGlobalResource,
     CreateAccount |-> CreateGlobalResource,
     UpdateClusterResource |-> UpdateClusterResource,
     UpdateOrganizationResource |-> UpdateOrganizationResource,
     UpdateGlobalResource |-> UpdateGlobalResource,
     UpdateNamelessResource |-> UpdateNamelessResource,
     DeleteClusterResource |-> DeleteClusterResource,
     DeleteOrganizationResource |-> DeleteOrganizationResource,
     DeleteGlobalResource |-> DeleteGlobalResource,
     GetClusterResource |-> GetClusterResource,
     GetOrganizationResource |-> GetOrganizationResource,
     GetGlobalResource |-> GetGlobalResource,
     GetNamelessResource |-> GetNamelessResource,
     ListClusterResource |-> ListClusterResource,
     ListOrganizationResource |-> ListOrganizationResource,
     ListGlobalResource |-> ListGlobalResource,
     GetNamespacedResource |-> GetNamespacedResource,
     ListNamespacedResource |-> ListNamespacedResource,
     unprotectedRoute |-> unprotectedRoute]

-----------------------------------------------------------------------------
(* Routes *)

\* Handlers of the routes that take no token: log in, sign up, verify, reset a password.
Public == {"CreateAccount", "UpdateNamelessResource", "unprotectedRoute"}

\* Those of which a route, at least, checks the body against a schema.
Described == {"CreateClusterResource", "CreateOrganizationResource", "CreateGlobalResource", "CreateAccount",
              "UpdateClusterResource", "UpdateOrganizationResource", "UpdateGlobalResource",
              "UpdateNamelessResource"}

\* What a request passes through, in order.
Route(op) ==
    (IF op \in Public THEN <<>> ELSE <<"token">>)
        \o (IF op \in Described THEN <<"schema">> ELSE <<>>) \o Handlers[op].checks

\* Handlers that ask whether the subject has the right to the resource.
Reviewed == DOMAIN Handlers \ (Public \cup {"CreateGlobalResource", "GetNamelessResource", "ListGlobalResource"})

=============================================================================
