------------------------------- MODULE Gateway -------------------------------
(***************************************************************************)
(* The API gateway: one HTTP request on its way through the middleware,    *)
(* the mux, its handler and the gRPC call to a service, whose side of the  *)
(* call goes on by itself.  Requests share nothing in the gateway, so one  *)
(* is enough.  Every response has a status and may have a correlation id;  *)
(* of bodies only the correlation id of an error is kept.                  *)
(***************************************************************************)
EXTENDS Grpc, Routes, Integers, FiniteSets

CONSTANT Faults \* the faults the environment may inject

FaultKinds == {"disconnect", \* the HTTP client goes away
               "send",       \* a call cannot be sent
               "crash"}      \* a service dies during a call

ASSUME FaultsAssumption == Faults \subseteq FaultKinds

AllRoutes == Probes \cup PublicRoutes \cup ProtectedRoutes

Handlers ==
  AccountHandlers ++ UserHandlers ++ VehicleHandlers ++ DriverHandlers ++
  RideHandlers ++ RideChangeHandlers ++ PaymentHandlers ++ PaymentChangeHandlers ++
  MailHandlers ++ NotificationHandlers
-----------------------------------------------------------------------------
VARIABLES
  pc,       \* where the request is
  request,  \* what the client sent
  context,  \* what the request's context carries: correlation id and user
  route,    \* the route the mux found
  call,     \* the gRPC call the handler made
  service,  \* the service's side of the call
  code,     \* how the call ended for the gateway
  response, \* what the client is answered
  recorded, \* the status that statusWriter keeps for the log
  log       \* the line that Logging writes

vars == <<pc, request, context, route, call, service, code, response, recorded, log>>

Stage == {"idle", "CORS", "CorrelationID", "mux", "Auth", "handler", "invoke", "wait",
          "write", "log", "done"}

Method == {"GET", "HEAD", "POST", "PUT", "PATCH", "DELETE", "OPTIONS"}

\* A request for a route names something where the pattern has a wildcard.
Instance(path) == [i \in DOMAIN path |-> IF path[i] \in Wildcard THEN "7" ELSE path[i]]
Path == {Instance(r.path) : r \in AllRoutes} \cup {<<"nowhere">>}

\* A body that is not JSON of the right shape, one without the members that
\* handlers look for, and those with the user, another such member, or both.
Body == {"broken", "bare", "user", "member", "full"}

\* The token of the Authorization header, and whether the request comes with
\* a correlation id of its own.
Request == [method : Method, path : Path, body : Body,
            token : {"none", "bad", "good"}, own : BOOLEAN]

Id == {"none", "own", "new"}
Named == {"none", "token", "body"}
Code == {"none", "OK", "InvalidArgument", "NotFound", "AlreadyExists", "Unauthenticated",
         "FailedPrecondition", "Unimplemented", "Internal", "Unavailable",
         "DeadlineExceeded", "Canceled"}
Status == {200, 201, 204, 400, 401, 403, 404, 405, 409, 500}

NoRequest == [method |-> "GET", path |-> <<"nowhere">>, body |-> "broken",
              token |-> "none", own |-> FALSE]
NoRoute == Route("none", <<>>, "none", FALSE)
NoCall == [path |-> <<"none", "none">>, user |-> "none", id |-> "none"]
NoLog == [status |-> 0, id |-> "none"]

Init ==
  /\ pc = "idle"
  /\ request = NoRequest
  /\ context = [id |-> "none", user |-> "none"]
  /\ route = NoRoute
  /\ call = NoCall
  /\ service = [pc |-> "idle", code |-> "none", ran |-> 0, changed |-> FALSE]
  /\ code = "none"
  /\ response = [status |-> 0, id |-> "none", error |-> "none"]
  /\ recorded = 200
  /\ log = NoLog

\* The first status written is the one the client gets; the last one is
\* recorded.  error is the correlation id of the error's body.
WriteHeader(status, error) ==
  /\ recorded' = status
  /\ response' = IF response.status # 0 THEN response
                 ELSE [response EXCEPT !.status = status, !.error = error]
-----------------------------------------------------------------------------
Arrive ==
  /\ pc = "idle"
  /\ request' \in Request
  /\ pc' = "CORS"
  /\ UNCHANGED <<context, route, call, service, code, response, recorded, log>>

\* A preflight is answered here, before it has a correlation id, and not logged.
CORS ==
  /\ pc = "CORS"
  /\ IF request.method = "OPTIONS"
     THEN /\ response' = [response EXCEPT !.status = 204]
          /\ pc' = "done"
     ELSE pc' = "CorrelationID" /\ UNCHANGED response
  /\ UNCHANGED <<request, context, route, call, service, code, recorded, log>>

\* The id of the client is not used.
CorrelationID_AlwaysNew ==
  /\ pc = "CorrelationID"
  /\ context' = [context EXCEPT !.id = "new"]
  /\ response' = [response EXCEPT !.id = context'.id]
  /\ pc' = "mux"
  /\ UNCHANGED <<request, route, call, service, code, recorded, log>>

CorrelationID ==
  /\ pc = "CorrelationID"
  /\ context' = [context EXCEPT !.id = IF request.own THEN "own" ELSE "new"]
  /\ response' = [response EXCEPT !.id = context'.id]
  /\ pc' = "mux"
  /\ UNCHANGED <<request, route, call, service, code, recorded, log>>

\* A pattern with GET matches HEAD too; a pattern is as specific as another if
\* that one has the same segment or a wildcard wherever it has one.
Serves(pattern, method) ==
  method = pattern \/ (pattern = "GET" /\ method = "HEAD")

Covers(pattern, path) ==
  /\ Len(pattern) = Len(path)
  /\ \A i \in DOMAIN path : pattern[i] = path[i] \/ pattern[i] \in Wildcard

Matching(r) == {p \in AllRoutes : Serves(p.method, r.method) /\ Covers(p.path, r.path)}

\* Any pattern that matches.
MostSpecific_Any(found) == found

MostSpecific(found) == {p \in found : \A q \in found : Covers(q.path, p.path)}

\* The mux answers 404, or 405 when the path has a route for another method.
\* Handlers of the probes are the gateway's own.
Mux ==
  /\ pc = "mux"
  /\ LET found == Matching(request)
     IN  \/ /\ found = {}
            /\ WriteHeader(IF \E p \in AllRoutes : Covers(p.path, request.path)
                           THEN 405 ELSE 404, "none")
            /\ pc' = "log"
            /\ UNCHANGED route
         \/ \E p \in MostSpecific(found) :
              /\ route' = p
              /\ IF p \in Probes
                 THEN WriteHeader(200, "none") /\ pc' = "log"
                 ELSE /\ pc' = IF p.protected THEN "Auth" ELSE "handler"
                      /\ UNCHANGED <<response, recorded>>
  /\ UNCHANGED <<request, context, call, service, code, log>>

Auth ==
  /\ pc = "Auth"
  /\ IF request.token = "good"
     THEN /\ context' = [context EXCEPT !.user = "token"]
          /\ pc' = "handler"
          /\ UNCHANGED <<response, recorded>>
     ELSE /\ WriteHeader(401, context.id)
          /\ pc' = "log"
          /\ UNCHANGED context
  /\ UNCHANGED <<request, route, call, service, code, log>>
-----------------------------------------------------------------------------
\* The handlers.

\* Whom a call of handler h is about.
Caller(h) ==
  IF h.user = "none" THEN "none"
  ELSE IF h.user \in {"default", "known"} /\ request.body \in {"user", "full"} THEN "body"
  ELSE context.user

\* What a handler refuses before the call, with which status; 0 for nothing.
\* These refusals have no correlation id.
Refusal(h) ==
  IF h.user = "own" /\ context.user = "none" THEN 401
  ELSE IF \/ h.body \in {"json", "member"} /\ request.body = "broken"
          \/ h.body = "member" /\ request.body \notin {"member", "full"}
          \/ h.user = "known" /\ Caller(h) = "none"
       THEN 400
  ELSE 0

\* The handler decodes the body before the call has its timer, and the server has
\* no timer for reading one.
ReadsBody == Handlers[route.handler].body # "none"

\* What a body that never ends keeps waiting.
AwaitsBody == pc = "handler" /\ ReadsBody

\* The body, if one is read, has ended, or broken off, when this step is taken.
Handle ==
  /\ pc = "handler"
  /\ LET h == Handlers[route.handler]
     IN  IF Refusal(h) # 0
         THEN WriteHeader(Refusal(h), "none") /\ pc' = "log" /\ UNCHANGED call
         ELSE /\ call' = [path |-> Clients[h.method], user |-> Caller(h), id |-> context.id]
              /\ pc' = "invoke"
              /\ UNCHANGED <<response, recorded>>
  /\ UNCHANGED <<request, context, route, service, code, log>>

\* A request that cannot be encoded, or a service that cannot be reached.
Invoke ==
  /\ pc = "invoke"
  /\ \/ /\ service' = [service EXCEPT !.pc = "sent"]
        /\ pc' = "wait"
        /\ UNCHANGED code
     \/ /\ "send" \in Faults
        /\ code' \in {"Internal", "Unavailable"}
        /\ pc' = "write"
        /\ UNCHANGED service
  /\ UNCHANGED <<request, context, route, call, response, recorded, log>>

\* The service answers, or its connection breaks.
Receive ==
  /\ pc = "wait"
  /\ service.pc \in {"answered", "dead"}
  /\ code' = IF service.pc = "dead" THEN "Unavailable" ELSE service.code
  /\ pc' = "write"
  /\ UNCHANGED <<request, context, route, call, service, response, recorded, log>>

\* A context without a timeout.
Timeout_Never == FALSE /\ UNCHANGED vars

\* The timeout of Handlers.ctx ends the call, whatever the service does.
Timeout ==
  /\ pc = "wait"
  /\ code' = "DeadlineExceeded"
  /\ pc' = "write"
  /\ UNCHANGED <<request, context, route, call, service, response, recorded, log>>

\* So does the client's end of its connection.
Disconnect ==
  /\ "disconnect" \in Faults
  /\ pc = "wait"
  /\ code' = "Canceled"
  /\ pc' = "write"
  /\ UNCHANGED <<request, context, route, call, service, response, recorded, log>>

\* No status but that of an error with a case of its own.
StatusOf_NoDefault(c) ==
  CASE c = "NotFound" -> 404
    [] c \in {"AlreadyExists", "FailedPrecondition"} -> 409
    [] c = "InvalidArgument" -> 400
    [] c = "Unauthenticated" -> 401
    [] c = "PermissionDenied" -> 403
    [] OTHER -> 0

\* writeGRPCError.
StatusOf(c) ==
  CASE c = "NotFound" -> 404
    [] c \in {"AlreadyExists", "FailedPrecondition"} -> 409
    [] c = "InvalidArgument" -> 400
    [] c = "Unauthenticated" -> 401
    [] c = "PermissionDenied" -> 403
    [] OTHER -> 500

\* The error of the call is not looked at.
Write_NoError ==
  /\ pc = "write"
  /\ WriteHeader(Handlers[route.handler].success, "none")
  /\ pc' = "log"
  /\ UNCHANGED <<request, context, route, call, service, code, log>>

Write ==
  /\ pc = "write"
  /\ IF code = "OK"
     THEN WriteHeader(Handlers[route.handler].success, "none")
     ELSE WriteHeader(StatusOf(code), context.id)
  /\ pc' = "log"
  /\ UNCHANGED <<request, context, route, call, service, code, log>>

Logging ==
  /\ pc = "log"
  /\ log' = [status |-> recorded, id |-> context.id]
  /\ pc' = "done"
  /\ UNCHANGED <<request, context, route, call, service, code, response, recorded>>
-----------------------------------------------------------------------------
\* The services.

\* The method of the call runs, unless its request cannot be decoded.  An error
\* with a case of its own comes before any change, except where NotFoundLate
\* says otherwise; any other error may come at any time.
Serve ==
  /\ service.pc = "sent"
  /\ LET outcomes == ServiceDescs[call.path]
         method == call.path[2]
     IN  \E outcome \in DOMAIN outcomes, changed \in BOOLEAN :
           /\ changed => method \notin Queries
           /\ changed => \/ outcome \in {"done", "other"}
                         \/ outcome = "notFound" /\ method \in NotFoundLate
           /\ service' = [pc |-> "ran", code |-> outcomes[outcome],
                          ran |-> service.ran + (IF outcome = "decode" THEN 0 ELSE 1),
                          changed |-> changed]
  /\ UNCHANGED <<pc, request, context, route, call, code, response, recorded, log>>

Answer ==
  /\ service.pc = "ran"
  /\ service' = [service EXCEPT !.pc = "answered"]
  /\ UNCHANGED <<pc, request, context, route, call, code, response, recorded, log>>

ServiceCrash ==
  /\ "crash" \in Faults
  /\ service.pc \in {"sent", "ran"}
  /\ service' = [service EXCEPT !.pc = "dead"]
  /\ UNCHANGED <<pc, request, context, route, call, code, response, recorded, log>>
-----------------------------------------------------------------------------
\* What the gateway does by itself; a body depends on the client.
Proceed ==
  \/ CORS \/ CorrelationID \/ Mux \/ Auth \/ (Handle /\ ~ReadsBody)
  \/ Invoke \/ Receive \/ Timeout \/ Write \/ Logging

Next ==
  Arrive \/ Proceed \/ Handle \/ Disconnect \/ Serve \/ Answer \/ ServiceCrash

\* The gateway's own steps and its timer; the client and the services owe nothing.
Fairness == WF_vars(Proceed)

Spec == Init /\ [][Next]_vars /\ Fairness
-----------------------------------------------------------------------------
\* Properties.

Answered == pc \in {"log", "done"}
Called == call # NoCall
Handler == Handlers[route.handler]

\* Every variable has its type; a logged status is one that HTTP knows.
TypeOK ==
  /\ pc \in Stage
  /\ request \in Request
  /\ context \in [id : Id, user : Named]
  /\ route \in AllRoutes \cup {NoRoute}
  /\ call \in [path : DOMAIN ServiceDescs, user : Named, id : Id] \cup {NoCall}
  /\ service \in [pc : {"idle", "sent", "ran", "answered", "dead"}, code : Code,
                  ran : 0 .. 1, changed : BOOLEAN]
  /\ code \in Code
  /\ response \in [status : Status \cup {0}, id : Id, error : Id]
  /\ recorded \in Status
  /\ log \in [status : Status, id : Id] \cup {NoLog}

\* A success is one: the method of the handler has run, once, and succeeded, even
\* though the timer, the client or a crash may end the call at any time.
SuccessIsExecuted ==
  Answered /\ Called /\ response.status < 300 =>
    /\ service.ran = 1
    /\ call.path[2] = Handler.method
    /\ service.code = "OK"

\* Whatever patterns overlap, the request for a route reaches its own handler.
OwnHandler ==
  route # NoRoute =>
    \A p \in AllRoutes :
      request.method = p.method /\ request.path = Instance(p.path) => route = p

\* A request has one identity on its whole way.  Its correlation id, the
\* client's if it sent one, is in the response, in the metadata of the call, in
\* the log, with the status the client got, and in the body of an error unless
\* that has none.  A call that is about the client names a user, through
\* whichever of the two tables, the routes and the handlers, the request came.
OneIdentity ==
  /\ request.own => response.id \in {"none", "own"}
  /\ response.error \in {"none", response.id}
  /\ Called => call.id = response.id /\ (Handler.user # "none" => call.user # "none")
  /\ log # NoLog => log = [status |-> response.status, id |-> response.id]

\* An answer that refuses a request for what the service knows, and not for
\* a failure, comes from a call that changed nothing, unless the row has been
\* deleted meanwhile.
RefusalChangedNothing ==
  Answered /\ response.status \in {401, 404, 409} /\ call.path[2] \notin NotFoundLate
    => ~service.changed

\* Every request is answered and logged, even if its service never answers, unless
\* its handler waits for the end of a body.  Once that has been read, whatever the
\* client and the service do, the answer comes.
EveryRequestAnswered ==
  /\ pc = "CORS" ~> pc = "done" \/ AwaitsBody
  /\ pc \in {"invoke", "log"} ~> pc = "done"
=============================================================================
