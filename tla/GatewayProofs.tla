--------------------------- MODULE GatewayProofs ---------------------------
(***************************************************************************)
(* Theorems about Gateway, for any faults.  The first part reads the       *)
(* tables: routes, handlers, clients and what the services report.         *)
(***************************************************************************)
EXTENDS Gateway, TLAPS
-----------------------------------------------------------------------------
\* Tables.

\* If all entries of two tables are in S, those of the merged one are.
LEMMA MergeRange ==
  ASSUME NEW f, NEW g, NEW S,
         \A x \in DOMAIN f : f[x] \in S, \A x \in DOMAIN g : g[x] \in S
  PROVE  \A x \in DOMAIN (f ++ g) : (f ++ g)[x] \in S
BY DEF ++

\* What a handler is.
Methods == UserMethod \cup DriverMethod \cup RideMethod \cup PaymentMethod \cup NotificationMethod

HandlerType ==
  [method : Methods, body : {"json", "member", "optional", "none"},
   user : {"own", "token", "default", "known", "none"}, success : {200, 201}]

\* Every entry of the handlers' tables is a handler of a method that exists.
LEMMA HandlerTables ==
  /\ \A n \in DOMAIN AccountHandlers : AccountHandlers[n] \in HandlerType
  /\ \A n \in DOMAIN UserHandlers : UserHandlers[n] \in HandlerType
  /\ \A n \in DOMAIN VehicleHandlers : VehicleHandlers[n] \in HandlerType
  /\ \A n \in DOMAIN DriverHandlers : DriverHandlers[n] \in HandlerType
  /\ \A n \in DOMAIN RideHandlers : RideHandlers[n] \in HandlerType
  /\ \A n \in DOMAIN RideChangeHandlers : RideChangeHandlers[n] \in HandlerType
  /\ \A n \in DOMAIN PaymentHandlers : PaymentHandlers[n] \in HandlerType
  /\ \A n \in DOMAIN PaymentChangeHandlers : PaymentChangeHandlers[n] \in HandlerType
  /\ \A n \in DOMAIN MailHandlers : MailHandlers[n] \in HandlerType
  /\ \A n \in DOMAIN NotificationHandlers : NotificationHandlers[n] \in HandlerType
<1>. USE DEF HandlerType, Methods, Calls, Bare, Command, Creation
<1>1. \A n \in DOMAIN AccountHandlers : AccountHandlers[n] \in HandlerType
  BY DEF AccountHandlers, UserMethod
<1>2. \A n \in DOMAIN UserHandlers : UserHandlers[n] \in HandlerType
  BY DEF UserHandlers, UserMethod
<1>3. \A n \in DOMAIN VehicleHandlers : VehicleHandlers[n] \in HandlerType
  BY DEF VehicleHandlers, DriverMethod
<1>4. \A n \in DOMAIN DriverHandlers : DriverHandlers[n] \in HandlerType
  BY DEF DriverHandlers, DriverMethod
<1>5. \A n \in DOMAIN RideHandlers : RideHandlers[n] \in HandlerType
  BY DEF RideHandlers, RideMethod
<1>6. \A n \in DOMAIN RideChangeHandlers : RideChangeHandlers[n] \in HandlerType
  BY DEF RideChangeHandlers, RideMethod
<1>7. \A n \in DOMAIN PaymentHandlers : PaymentHandlers[n] \in HandlerType
  BY DEF PaymentHandlers, PaymentMethod
<1>8. \A n \in DOMAIN PaymentChangeHandlers : PaymentChangeHandlers[n] \in HandlerType
  BY DEF PaymentChangeHandlers, PaymentMethod
<1>9. \A n \in DOMAIN MailHandlers : MailHandlers[n] \in HandlerType
  BY DEF MailHandlers, NotificationMethod
<1>10. \A n \in DOMAIN NotificationHandlers : NotificationHandlers[n] \in HandlerType
  BY DEF NotificationHandlers, NotificationMethod
<1>. QED
  BY <1>1, <1>2, <1>3, <1>4, <1>5, <1>6, <1>7, <1>8, <1>9, <1>10

LEMMA HandlersType == \A n \in DOMAIN Handlers : Handlers[n] \in HandlerType
BY HandlerTables, MergeRange DEF Handlers

\* What is looked up in the merged table.
LEMMA MergeDomain ==
  \A f, g, x : x \in DOMAIN (f ++ g) <=> x \in DOMAIN f \/ x \in DOMAIN g
BY DEF ++

\* The handlers of the routes that need no token.
PublicHandlers ==
  {"Register", "Login", "Logout", "ValidateSession", "VerifyEmail", "ResetPassword",
   "EstimateRide", "FindNearestDrivers", "ListDrivers", "ListAvailableDrivers",
   "GetDriverLocation", "AssignDriver", "ListActiveRides", "ListDriverRides",
   "GetRideHistory", "GetPayment", "GetPaymentReceipt", "ValidatePaymentMethod",
   "ListFailedPayments"}

LEMMA PublicRouteHandlers == \A r \in PublicRoutes : r.handler \in PublicHandlers
BY DEF PublicRoutes, Route, PublicHandlers

\* Every route but the probes leads to a handler.
LEMMA RouteHandlers ==
  \A r \in PublicRoutes \cup ProtectedRoutes : r.handler \in DOMAIN Handlers
<1>1. \A n \in DOMAIN AccountHandlers \cup DOMAIN UserHandlers \cup DOMAIN VehicleHandlers
               \cup DOMAIN DriverHandlers \cup DOMAIN RideHandlers
               \cup DOMAIN RideChangeHandlers \cup DOMAIN PaymentHandlers
               \cup DOMAIN PaymentChangeHandlers \cup DOMAIN MailHandlers
               \cup DOMAIN NotificationHandlers : n \in DOMAIN Handlers
  BY MergeDomain DEF Handlers
<1>2. \A n \in {"Register", "Login", "Logout", "ValidateSession", "Me", "GetUserByEmail"} :
        n \in DOMAIN AccountHandlers
  BY DEF AccountHandlers
<1>3. \A n \in {"ListUsers", "UpdateMe", "ChangePassword", "ResetPassword", "VerifyEmail",
                "ResendVerification", "DeactivateUser", "UpdateUserRole"} :
        n \in DOMAIN UserHandlers
  BY DEF UserHandlers
<1>4. \A n \in {"RegisterDriver", "AddVehicle", "UpdateVehicle", "DeleteVehicle",
                "UpdateDriverStatus", "UpdateDriverLocation"} : n \in DOMAIN VehicleHandlers
  BY DEF VehicleHandlers
<1>5. \A n \in {"GetDriverLocation", "FindNearestDrivers", "ListDrivers",
                "ListAvailableDrivers", "AssignDriver", "GetDriverStatusHistory",
                "SetDriverRating"} : n \in DOMAIN DriverHandlers
  BY DEF DriverHandlers
<1>6. \A n \in {"CreateRide", "ScheduleRide", "EstimateRide", "ListActiveRides",
                "ListDriverRides", "GetRide", "GetRideHistory"} : n \in DOMAIN RideHandlers
  BY DEF RideHandlers
<1>7. \A n \in {"MyRides", "AcceptRide", "RejectRide", "UpdateRideStatus", "CancelRide",
                "CompleteRide", "RateRide"} : n \in DOMAIN RideChangeHandlers
  BY DEF RideChangeHandlers
<1>8. \A n \in {"CreatePayment", "GetPaymentByRide", "GetPayment", "MyPayments",
                "ListFailedPayments", "GetPaymentReceipt"} : n \in DOMAIN PaymentHandlers
  BY DEF PaymentHandlers
<1>9. \A n \in {"ValidatePaymentMethod", "ProcessPayment", "RefundPayment",
                "CreateRefundRequest"} : n \in DOMAIN PaymentChangeHandlers
  BY DEF PaymentChangeHandlers
<1>10. \A n \in {"SendEmail", "SendRideReceipt"} : n \in DOMAIN MailHandlers
  BY DEF MailHandlers
<1>11. \A n \in {"MyNotifications", "UnreadNotifications", "CountUnreadNotifications",
                 "MarkNotificationRead", "MarkAllNotificationsRead", "ResendNotification",
                 "DeleteNotification"} : n \in DOMAIN NotificationHandlers
  BY DEF NotificationHandlers
<1>12. \A r \in ProtectedRoutes :
         r.handler \in {"Me", "UpdateMe", "ListUsers", "GetUserByEmail", "ChangePassword",
                        "ResendVerification", "DeactivateUser", "UpdateUserRole",
                        "RegisterDriver", "AddVehicle", "UpdateVehicle", "DeleteVehicle",
                        "UpdateDriverStatus", "UpdateDriverLocation", "GetDriverStatusHistory",
                        "SetDriverRating", "CreateRide", "ScheduleRide", "MyRides", "GetRide",
                        "AcceptRide", "RejectRide", "UpdateRideStatus", "CancelRide",
                        "CompleteRide", "RateRide", "CreatePayment", "GetPaymentByRide",
                        "MyPayments", "ProcessPayment", "CreateRefundRequest", "RefundPayment",
                        "SendEmail", "SendRideReceipt", "MyNotifications",
                        "UnreadNotifications", "CountUnreadNotifications",
                        "MarkNotificationRead", "MarkAllNotificationsRead",
                        "ResendNotification", "DeleteNotification"}
  BY SMTT(30) DEF ProtectedRoutes, Route
<1>13. \A r \in PublicRoutes : r.handler \in DOMAIN Handlers
  BY <1>1, <1>2, <1>3, <1>5, <1>6, <1>8, <1>9, PublicRouteHandlers DEF PublicHandlers
<1>14. \A r \in ProtectedRoutes : r.handler \in DOMAIN Handlers
  <2>1. \A n \in {"Me", "UpdateMe", "ListUsers", "GetUserByEmail", "ChangePassword",
                  "ResendVerification", "DeactivateUser", "UpdateUserRole", "RegisterDriver",
                  "AddVehicle", "UpdateVehicle", "DeleteVehicle", "UpdateDriverStatus",
                  "UpdateDriverLocation", "GetDriverStatusHistory", "SetDriverRating"} :
          n \in DOMAIN Handlers
    BY <1>1, <1>2, <1>3, <1>4, <1>5
  <2>2. \A n \in {"CreateRide", "ScheduleRide", "MyRides", "GetRide", "AcceptRide",
                  "RejectRide", "UpdateRideStatus", "CancelRide", "CompleteRide", "RateRide",
                  "CreatePayment", "GetPaymentByRide", "MyPayments", "ProcessPayment",
                  "CreateRefundRequest", "RefundPayment"} : n \in DOMAIN Handlers
    BY <1>1, <1>6, <1>7, <1>8, <1>9
  <2>3. \A n \in {"SendEmail", "SendRideReceipt", "MyNotifications", "UnreadNotifications",
                  "CountUnreadNotifications", "MarkNotificationRead",
                  "MarkAllNotificationsRead", "ResendNotification", "DeleteNotification"} :
          n \in DOMAIN Handlers
    BY <1>1, <1>10, <1>11
  <2>. QED
    BY <1>12, <2>1, <2>2, <2>3
<1>. QED
  BY <1>13, <1>14

\* The handlers in a table that serve a request without a token name no user.
Anonymous(table) ==
  \A n \in DOMAIN table : n \in PublicHandlers => table[n].user = "none"

LEMMA HandlersAnonymous == Anonymous(Handlers)
<1>1. \A f, g : Anonymous(f) /\ Anonymous(g) => Anonymous(f ++ g)
  BY DEF Anonymous, ++
<1>. USE DEF Anonymous, PublicHandlers, Calls, Bare, Command, Creation
<1>2. Anonymous(AccountHandlers)
  BY DEF AccountHandlers
<1>3. Anonymous(UserHandlers)
  BY DEF UserHandlers
<1>4. Anonymous(VehicleHandlers)
  BY DEF VehicleHandlers
<1>5. Anonymous(DriverHandlers)
  BY DEF DriverHandlers
<1>6. Anonymous(RideHandlers)
  BY DEF RideHandlers
<1>7. Anonymous(RideChangeHandlers)
  BY DEF RideChangeHandlers
<1>8. Anonymous(PaymentHandlers)
  BY DEF PaymentHandlers
<1>9. Anonymous(PaymentChangeHandlers)
  BY DEF PaymentChangeHandlers
<1>10. Anonymous(MailHandlers)
  BY DEF MailHandlers
<1>11. Anonymous(NotificationHandlers)
  BY DEF NotificationHandlers
<1>. HIDE DEF Anonymous
<1>. QED
  BY <1>1, <1>2, <1>3, <1>4, <1>5, <1>6, <1>7, <1>8, <1>9, <1>10, <1>11 DEF Handlers
-----------------------------------------------------------------------------
\* What the services report.

\* An error without a case of its own is one of these.
Failure == {"Internal", "InvalidArgument", "Unimplemented"}

\* A method reports no success for a request that it could not decode, a success
\* when it is done, and for any other error a failure.
Sane(method) ==
  /\ \A o \in DOMAIN method : method[o] \in Code
  /\ "decode" \in DOMAIN method => method["decode"] # "OK"
  /\ "done" \in DOMAIN method => method["done"] = "OK"
  /\ "other" \in DOMAIN method => method["other"] \in Failure

SaneTable(table) == \A m \in DOMAIN table : Sane(table[m])

LEMMA SaneMerge == \A f, g : Sane(f) /\ Sane(g) => Sane(f ++ g)
BY DEF Sane, ++

LEMMA SaneTableMerge == \A f, g : SaneTable(f) /\ SaneTable(g) => SaneTable(f ++ g)
BY DEF SaneTable, ++

\* The ways a handler builds its report.
LEMMA SaneReports ==
  /\ Sane(Reports("Internal")) /\ Sane(Reports("InvalidArgument"))
  /\ Sane(NotFound("Internal")) /\ Sane(NotFound("InvalidArgument"))
  /\ Sane([done |-> "OK"]) /\ Sane(Unimplemented)
  /\ Sane([taken |-> "AlreadyExists"]) /\ Sane([credentials |-> "Unauthenticated"])
  /\ Sane([notFound |-> "OK"]) /\ Sane([noDriver |-> "OK"])
  /\ \A f : Sane(f) => Sane(Precondition(f)) /\ Sane(Decoded(f))
<1>1. Sane(Reports("Internal")) /\ Sane(Reports("InvalidArgument"))
  BY DEF Reports, Sane, Code, Failure
<1>2. Sane([notFound |-> "NotFound"])
  BY DEF Sane, Code
<1>3. Sane(NotFound("Internal")) /\ Sane(NotFound("InvalidArgument"))
  BY <1>1, <1>2, SaneMerge DEF NotFound
<1>4. Sane([done |-> "OK"]) /\ Sane(Unimplemented)
  BY DEF Sane, Code, Failure, Unimplemented
<1>5. Sane([taken |-> "AlreadyExists"]) /\ Sane([credentials |-> "Unauthenticated"])
  BY DEF Sane, Code
<1>6. Sane([notFound |-> "OK"]) /\ Sane([noDriver |-> "OK"])
  BY DEF Sane, Code
<1>7. Sane([precondition |-> "FailedPrecondition"]) /\ Sane([decode |-> "Internal"])
  BY DEF Sane, Code
<1>8. \A f : Sane(f) => Sane(Precondition(f)) /\ Sane(Decoded(f))
  BY <1>7, SaneMerge DEF Precondition, Decoded
<1>. QED
  BY <1>1, <1>3, <1>4, <1>5, <1>6, <1>8

\* Every method of every service has a sane report.
LEMMA ServicesSane == SaneTable(ServiceDescs)
<1>1. SaneTable(UserHandler)
  BY SaneReports, SaneMerge DEF UserHandler, SaneTable
<1>2. SaneTable(DriverHandler)
  BY SaneReports, SaneMerge DEF DriverHandler, SaneTable
<1>3. SaneTable(RideHandler)
  BY SaneReports, SaneMerge DEF RideHandler, SaneTable
<1>4. SaneTable(PaymentHandler)
  BY SaneReports, SaneMerge DEF PaymentHandler, SaneTable
<1>5. SaneTable(NotificationHandler)
  BY SaneReports, SaneMerge DEF NotificationHandler, SaneTable
<1>6. /\ SaneTable([m \in UserMethod |-> Unimplemented])
      /\ SaneTable([m \in DriverMethod |-> Unimplemented])
      /\ SaneTable([m \in RideMethod |-> Unimplemented])
      /\ SaneTable([m \in PaymentMethod |-> Unimplemented])
      /\ SaneTable([m \in NotificationMethod |-> Unimplemented])
  BY SaneReports DEF SaneTable
<1>7. /\ SaneTable(UserServiceServer) /\ SaneTable(DriverServiceServer)
      /\ SaneTable(RideServiceServer) /\ SaneTable(PaymentServiceServer)
      /\ SaneTable(NotificationServiceServer)
  BY <1>1, <1>2, <1>3, <1>4, <1>5, <1>6, SaneTableMerge
  DEF UserServiceServer, DriverServiceServer, RideServiceServer, PaymentServiceServer,
      NotificationServiceServer
<1>8. /\ UserMethod \subseteq DOMAIN UserServiceServer
      /\ DriverMethod \subseteq DOMAIN DriverServiceServer
      /\ RideMethod \subseteq DOMAIN RideServiceServer
      /\ PaymentMethod \subseteq DOMAIN PaymentServiceServer
      /\ NotificationMethod \subseteq DOMAIN NotificationServiceServer
  BY MergeDomain DEF UserServiceServer, DriverServiceServer, RideServiceServer,
     PaymentServiceServer, NotificationServiceServer
<1>9. /\ SaneTable(UserService_ServiceDesc) /\ SaneTable(DriverService_ServiceDesc)
      /\ SaneTable(RideService_ServiceDesc) /\ SaneTable(PaymentService_ServiceDesc)
      /\ SaneTable(NotificationService_ServiceDesc)
  <2>1. SaneTable(UserService_ServiceDesc)
    BY <1>7, <1>8, SaneReports
    DEF SaneTable, UserService_ServiceDesc, UserService_Handlers, UserServiceClient
  <2>2. SaneTable(DriverService_ServiceDesc)
    BY <1>7, <1>8, SaneReports
    DEF SaneTable, DriverService_ServiceDesc, DriverService_Handlers, DriverServiceClient
  <2>3. SaneTable(RideService_ServiceDesc)
    BY <1>7, <1>8, SaneReports
    DEF SaneTable, RideService_ServiceDesc, RideService_Handlers, RideServiceClient
  <2>4. SaneTable(PaymentService_ServiceDesc)
    BY <1>7, <1>8, SaneReports
    DEF SaneTable, PaymentService_ServiceDesc, PaymentService_Handlers, PaymentServiceClient
  <2>5. SaneTable(NotificationService_ServiceDesc)
    BY <1>7, <1>8, SaneReports
    DEF SaneTable, NotificationService_ServiceDesc, NotificationService_Handlers,
        NotificationServiceClient
  <2>. QED
    BY <2>1, <2>2, <2>3, <2>4, <2>5
<1>. QED
  BY <1>9, SaneTableMerge DEF ServiceDescs

\* The client of every method calls it, and a service serves the call.
LEMMA ClientsServed ==
  \A m \in Methods :
    /\ Clients[m] \in DOMAIN ServiceDescs
    /\ Clients[m] # NoCall.path
    /\ Clients[m][2] = m
<1>. DEFINE Served(c) == c \in DOMAIN ServiceDescs
            Paths(m) == {<<"user", m>>, <<"driver", m>>, <<"ride", m>>, <<"payment", m>>,
                         <<"notification", m>>}
            Good(clients) == \A m \in DOMAIN clients :
                               /\ Served(clients[m])
                               /\ clients[m] \in Paths(m)
<1>1. /\ \A m \in UserMethod : <<"user", m>> \in DOMAIN UserService_ServiceDesc
      /\ \A m \in DriverMethod : <<"driver", m>> \in DOMAIN DriverService_ServiceDesc
      /\ \A m \in RideMethod : <<"ride", m>> \in DOMAIN RideService_ServiceDesc
      /\ \A m \in PaymentMethod : <<"payment", m>> \in DOMAIN PaymentService_ServiceDesc
      /\ \A m \in NotificationMethod :
           <<"notification", m>> \in DOMAIN NotificationService_ServiceDesc
  BY DEF UserService_ServiceDesc, DriverService_ServiceDesc, RideService_ServiceDesc,
     PaymentService_ServiceDesc, NotificationService_ServiceDesc, UserServiceClient,
     DriverServiceClient, RideServiceClient, PaymentServiceClient, NotificationServiceClient
<1>2. \A c \in DOMAIN UserService_ServiceDesc \cup DOMAIN DriverService_ServiceDesc
               \cup DOMAIN RideService_ServiceDesc \cup DOMAIN PaymentService_ServiceDesc
               \cup DOMAIN NotificationService_ServiceDesc : Served(c)
  BY MergeDomain DEF ServiceDescs
<1>3. /\ Good(UserServiceClient) /\ Good(DriverServiceClient) /\ Good(RideServiceClient)
      /\ Good(PaymentServiceClient) /\ Good(NotificationServiceClient)
  <2>. HIDE DEF Served
  <2>. QED
    BY <1>1, <1>2 DEF UserServiceClient, DriverServiceClient, RideServiceClient,
       PaymentServiceClient, NotificationServiceClient
<1>4. \A f, g : Good(f) /\ Good(g) => Good(f ++ g)
  <2>. HIDE DEF Served, Paths
  <2>. QED
    BY DEF ++
<1>5. Good(Clients)
  <2>. HIDE DEF Good
  <2>. QED
    BY <1>3, <1>4 DEF Clients
<1>6. \A m \in Methods : m \in DOMAIN Clients
  BY MergeDomain DEF Methods, Clients, UserServiceClient, DriverServiceClient,
     RideServiceClient, PaymentServiceClient, NotificationServiceClient
<1>7. \A m \in Methods : Clients[m] \in Paths(m)
  BY <1>5, <1>6
<1>8. \A m \in Methods : Clients[m][2] = m /\ Clients[m][1] # "none"
  BY <1>7
<1>. QED
  BY <1>5, <1>6, <1>8 DEF NoCall
-----------------------------------------------------------------------------
\* The inductive invariant.

ServiceRoutes == PublicRoutes \cup ProtectedRoutes

\* The codes of refusals, each with an HTTP status of its own.
Refused == {"NotFound", "AlreadyExists", "FailedPrecondition", "Unauthenticated"}

\* A request reaches a handler by a route of a service, and only the handler calls.
Routed ==
  /\ pc \in {"idle", "CORS", "CorrelationID", "mux", "Auth", "handler"} => call = NoCall
  /\ pc \in {"Auth", "handler"} => route \in ServiceRoutes
  /\ pc \in {"invoke", "wait", "write"} => call # NoCall
  /\ call # NoCall => route \in ServiceRoutes

\* The service has nothing to do before the call, and nothing done before it runs.
Started ==
  /\ call = NoCall \/ pc = "invoke" => service.pc = "idle"
  /\ service.pc \in {"idle", "sent"} => service.ran = 0 /\ ~service.changed

\* The call is the handler's.  Only a route without Auth has no user of the token.
Made ==
  /\ pc = "handler" => context.user = "token" \/ route \in PublicRoutes
  /\ call # NoCall =>
       /\ call.path = Clients[Handler.method]
       /\ call.id = context.id
       /\ Handler.user # "none" => call.user # "none"

\* What the service reports of what it has done, and how much the gateway knows of it.
Reported ==
  /\ service.pc \in {"ran", "answered"} =>
       /\ service.code = "OK" => service.ran = 1
       /\ service.changed /\ call.path[2] \notin NotFoundLate
            => service.code \in {"OK"} \cup Failure
  /\ code \in {"OK"} \cup Refused => service.pc = "answered" /\ service.code = code
  /\ code # "none" => pc \in {"write", "log", "done"}

\* There is one answer, and it tells how the call ended.
Written ==
  /\ ~Answered => response.status = 0 /\ response.error = "none" /\ log = NoLog
  /\ pc = "log" => recorded = response.status /\ log = NoLog
  /\ log # NoLog => log = [status |-> response.status, id |-> response.id]
  /\ Answered /\ Called =>
       response.status = IF code = "OK" THEN Handler.success ELSE StatusOf(code)
  /\ Answered /\ ~Called => response.status \in {200, 204, 400, 401, 404, 405}

\* The correlation id is given once.
Identified ==
  /\ response.id = context.id
  /\ response.error \in {"none", context.id}
  /\ context.id \in {"none", IF request.own THEN "own" ELSE "new"}
  /\ pc \in {"idle", "CORS", "CorrelationID"} => context.id = "none"

GatewayInv == TypeOK /\ Routed /\ Started /\ Made /\ Reported /\ Written /\ Identified

\* What the tables say of the handler and the call of a route.
LEMMA RouteCalls ==
  \A p \in ServiceRoutes :
    LET h == Handlers[p.handler]
    IN  /\ h.success \in {200, 201}
        /\ h.user \in {"own", "token", "default", "known", "none"}
        /\ p \in PublicRoutes => h.user = "none"
        /\ Clients[h.method] \in DOMAIN ServiceDescs
        /\ Clients[h.method] # NoCall.path
        /\ Clients[h.method][2] = h.method
<1>1. \A p \in ServiceRoutes : Handlers[p.handler] \in HandlerType
  BY RouteHandlers, HandlersType DEF ServiceRoutes
<1>2. \A p \in ServiceRoutes : /\ Handlers[p.handler].method \in Methods
                               /\ Handlers[p.handler].success \in {200, 201}
                               /\ Handlers[p.handler].user
                                    \in {"own", "token", "default", "known", "none"}
  BY <1>1 DEF HandlerType
<1>3. \A p \in PublicRoutes : Handlers[p.handler].user = "none"
  BY HandlersAnonymous, RouteHandlers, PublicRouteHandlers DEF Anonymous
<1>. QED
  BY <1>2, <1>3, ClientsServed

LEMMA InitInv == Init => GatewayInv
<1>. SUFFICES ASSUME Init PROVE GatewayInv
  OBVIOUS
<1>1. request \in Request
  BY DEF Init, Request, NoRequest, Method, Path, Body
<1>2. TypeOK
  BY <1>1 DEF Init, TypeOK, Stage, Id, Named, Code, Status, NoLog
<1>. QED
  BY <1>2 DEF Init, GatewayInv, Routed, Started, Made, Reported, Written, Identified,
     Answered, Called, Refused, NoLog

\* The steps up to the handler.
LEMMA ArriveInv == GatewayInv /\ Arrive => GatewayInv'
BY DEF Arrive, GatewayInv, TypeOK, Stage, Routed, Started, Made, Reported, Written, Identified,
   Answered, Called, Handler

LEMMA CORSInv == GatewayInv /\ CORS => GatewayInv'
BY DEF CORS, GatewayInv, TypeOK, Stage, Status, Routed, Started, Made, Reported, Written,
   Identified, Answered, Called, Handler

LEMMA CorrelationIDInv == GatewayInv /\ CorrelationID => GatewayInv'
BY DEF CorrelationID, GatewayInv, TypeOK, Stage, Id, Routed, Started, Made, Reported, Written,
   Identified, Answered, Called, Handler

\* What is written before any other answer is the answer.
LEMMA WriteHeaderOnce ==
  ASSUME TypeOK, Written, ~Answered, NEW status, NEW error, WriteHeader(status, error)
  PROVE  /\ recorded' = status
         /\ response' = [status |-> status, id |-> response.id, error |-> error]
<1>1. response.status = 0 /\ response \in [status : Status \cup {0}, id : Id, error : Id]
  BY DEF TypeOK, Written
<1>2. response' = [response EXCEPT !.status = status, !.error = error]
  BY <1>1 DEF WriteHeader
<1>. QED
  BY <1>1, <1>2 DEF WriteHeader

LEMMA ProtectedTable == \A p \in ProtectedRoutes : p.protected = TRUE
BY SMTT(30) DEF ProtectedRoutes, Route

LEMMA MuxInv == GatewayInv /\ Mux => GatewayInv'
<1>. SUFFICES ASSUME GatewayInv, Mux PROVE GatewayInv'
  OBVIOUS
<1>0. /\ pc = "mux" /\ ~Answered /\ call = NoCall /\ service.pc = "idle" /\ TypeOK /\ Written
      /\ UNCHANGED <<request, context, call, service, code, log>>
  BY DEF Mux, GatewayInv, Routed, Started, Answered
<1>1. CASE UNCHANGED route /\ pc' = "log"
           /\ \E status \in {404, 405} : WriteHeader(status, "none")
  <2>1. PICK status \in {404, 405} : WriteHeader(status, "none")
    BY <1>1
  <2>2. /\ recorded' = status
        /\ response' = [status |-> status, id |-> response.id, error |-> "none"]
    BY <1>0, <2>1, WriteHeaderOnce
  <2>. QED
    BY <1>0, <1>1, <2>2 DEF GatewayInv, TypeOK, Stage, Status, Id, Routed, Started, Made, Reported, Written, Identified,
     Answered, Called, Handler
<1>2. CASE \E p \in AllRoutes : p \in Probes /\ route' = p /\ WriteHeader(200, "none") /\ pc' = "log"
  <2>1. /\ recorded' = 200
        /\ response' = [status |-> 200, id |-> response.id, error |-> "none"]
    BY <1>0, <1>2, WriteHeaderOnce
  <2>. QED
    BY <1>0, <1>2, <2>1 DEF GatewayInv, TypeOK, Stage, Status, Id, Routed, Started, Made, Reported, Written, Identified,
     Answered, Called, Handler
<1>3. CASE \E p \in AllRoutes \ Probes :
             /\ route' = p
             /\ pc' = IF p.protected THEN "Auth" ELSE "handler"
             /\ UNCHANGED <<response, recorded>>
  <2>1. PICK p \in ServiceRoutes : /\ route' = p
                                   /\ pc' = IF p.protected THEN "Auth" ELSE "handler"
                                   /\ UNCHANGED <<response, recorded>>
    BY <1>3 DEF AllRoutes, ServiceRoutes
  <2>2. pc' \in {"Auth", "handler"} /\ (pc' = "handler" => p \in PublicRoutes)
    BY <2>1, ProtectedTable DEF ServiceRoutes
  <2>3. p \in AllRoutes
    BY DEF AllRoutes, ServiceRoutes
  <2>. QED
    BY <1>0, <2>1, <2>2, <2>3 DEF GatewayInv, TypeOK, Stage, Status, Id, Routed, Started, Made, Reported, Written, Identified,
     Answered, Called, Handler
<1>. QED
  BY <1>1, <1>2, <1>3 DEF Mux, MostSpecific, Matching

LEMMA AuthInv == GatewayInv /\ Auth => GatewayInv'
<1>. SUFFICES ASSUME GatewayInv, Auth PROVE GatewayInv'
  OBVIOUS
<1>0. /\ pc = "Auth" /\ ~Answered /\ call = NoCall /\ TypeOK /\ Written
      /\ UNCHANGED <<request, route, call, service, code, log>>
  BY DEF Auth, GatewayInv, Routed, Answered
<1>1. CASE pc' = "log" /\ UNCHANGED context /\ WriteHeader(401, context.id)
  <2>1. /\ recorded' = 401
        /\ response' = [status |-> 401, id |-> response.id, error |-> context.id]
    BY <1>0, <1>1, WriteHeaderOnce
  <2>. QED
    BY <1>0, <1>1, <2>1 DEF GatewayInv, TypeOK, Stage, Status, Id, Routed, Started, Made, Reported, Written, Identified,
     Answered, Called, Handler
<1>2. CASE /\ context' = [context EXCEPT !.user = "token"]
           /\ pc' = "handler"
           /\ UNCHANGED <<response, recorded>>
  BY <1>0, <1>2 DEF GatewayInv, Named, TypeOK, Stage, Status, Id, Routed, Started, Made, Reported, Written, Identified,
     Answered, Called, Handler
<1>. QED
  BY <1>1, <1>2 DEF Auth

LEMMA HandleInv == GatewayInv /\ Handle => GatewayInv'
<1>. SUFFICES ASSUME GatewayInv, Handle PROVE GatewayInv'
  OBVIOUS
<1>. DEFINE h == Handlers[route.handler]
<1>0. /\ pc = "handler" /\ ~Answered /\ call = NoCall /\ TypeOK /\ Written
      /\ route \in ServiceRoutes
      /\ UNCHANGED <<request, context, route, service, code, log>>
  BY DEF Handle, GatewayInv, Routed, Answered
<1>1. CASE Refusal(h) # 0 /\ WriteHeader(Refusal(h), "none") /\ pc' = "log" /\ UNCHANGED call
  <2>1. Refusal(h) \in {400, 401}
    BY <1>1 DEF Refusal
  <2>2. /\ recorded' = Refusal(h)
        /\ response' = [status |-> Refusal(h), id |-> response.id, error |-> "none"]
    BY <1>0, <1>1, WriteHeaderOnce
  <2>. HIDE DEF h
  <2>. QED
    BY <1>0, <1>1, <2>1, <2>2 DEF GatewayInv, TypeOK, Stage, Status, Id, Routed, Started, Made, Reported, Written, Identified,
     Answered, Called, Handler
<1>2. CASE /\ Refusal(h) = 0
           /\ call' = [path |-> Clients[h.method], user |-> Caller(h), id |-> context.id]
           /\ pc' = "invoke"
           /\ UNCHANGED <<response, recorded>>
  <2>1. /\ h.user \in {"own", "token", "default", "known", "none"}
        /\ route \in PublicRoutes => h.user = "none"
        /\ Clients[h.method] \in DOMAIN ServiceDescs
        /\ Clients[h.method] # NoCall.path
    BY <1>0, RouteCalls
  <2>2. context.user \in Named /\ context.id \in Id
    BY <1>0 DEF TypeOK
  <2>3. context.user = "token" \/ h.user = "none"
    BY <1>0, <2>1 DEF GatewayInv, Made
  <2>4. Caller(h) \in Named
    BY <2>2 DEF Caller, Named
  <2>5. h.user # "none" => Caller(h) # "none"
    BY <1>2, <2>1, <2>3 DEF Caller, Refusal
  <2>6. call' # NoCall /\ call' \in [path : DOMAIN ServiceDescs, user : Named, id : Id]
    BY <1>2, <2>1, <2>2, <2>4 DEF NoCall
  <2>7. /\ call'.path = Clients[h.method]
        /\ call'.id = context.id
        /\ h.user # "none" => call'.user # "none"
    BY <1>2, <2>5
  <2>8. Handler' = h
    BY <1>0 DEF Handler
  <2>. HIDE DEF h
  <2>9. Made'
    BY <1>0, <1>2, <2>7, <2>8 DEF Made
  <2>. QED
    BY <1>0, <1>2, <2>6, <2>9 DEF GatewayInv, TypeOK, Stage, Status, Id, Routed, Started, Reported, Written, Identified,
     Answered, Called, Handler
<1>. QED
  BY <1>1, <1>2 DEF Handle

\* The call.
LEMMA InvokeInv == GatewayInv /\ Invoke => GatewayInv'
BY DEF Invoke, GatewayInv, TypeOK, Stage, Code, Routed, Started, Made, Reported,
   Written, Identified, Answered, Called, Handler, Refused

LEMMA ReceiveInv == GatewayInv /\ Receive => GatewayInv'
BY DEF Receive, GatewayInv, TypeOK, Stage, Code, Routed, Started, Made, Reported,
   Written, Identified, Answered, Called, Handler, Refused

LEMMA EndInv == GatewayInv /\ (Timeout \/ Disconnect) => GatewayInv'
BY DEF Timeout, Disconnect, GatewayInv, TypeOK, Stage, Code, Routed, Started, Made, Reported,
   Written, Identified, Answered, Called, Handler, Refused

\* The status of an error is none of a success.
LEMMA StatusOfError ==
  \A c \in Code \ {"OK"} : /\ StatusOf(c) \in {400, 401, 404, 409, 500}
                           /\ StatusOf(c) \in {401, 404, 409} => c \in Refused
BY DEF StatusOf, Code, Refused

LEMMA WriteInv == GatewayInv /\ Write => GatewayInv'
<1>. SUFFICES ASSUME GatewayInv, Write PROVE GatewayInv'
  OBVIOUS
<1>. DEFINE status == IF code = "OK" THEN Handler.success ELSE StatusOf(code)
<1>0. /\ pc = "write" /\ pc' = "log" /\ ~Answered /\ call # NoCall /\ TypeOK /\ Written
      /\ route \in ServiceRoutes
      /\ UNCHANGED <<request, context, route, call, service, code, log>>
  BY DEF Write, GatewayInv, Routed, Answered
<1>1. PICK error \in {"none", context.id} : WriteHeader(status, error)
  BY DEF Write, Handler
<1>2. /\ recorded' = status
      /\ response' = [status |-> status, id |-> response.id, error |-> error]
  BY <1>0, <1>1, WriteHeaderOnce
<1>3. status \in Status
  <2>1. Handler.success \in {200, 201}
    BY <1>0, RouteCalls DEF Handler
  <2>2. code \in Code
    BY <1>0 DEF TypeOK
  <2>. QED
    BY <2>1, <2>2, StatusOfError DEF Status
<1>4. status' = status
  BY <1>0 DEF Handler
<1>5. TypeOK'
  <2>1. error \in Id /\ response.id \in Id
    BY <1>0 DEF TypeOK, Id
  <2>. HIDE DEF status
  <2>. QED
    BY <1>0, <1>2, <1>3, <2>1 DEF TypeOK, Stage
<1>6. Written'
  <2>. HIDE DEF status
  <2>1. response'.status = status'
    BY <1>2, <1>4
  <2>. QED
    BY <1>0, <1>2, <2>1 DEF Written, Answered, Called, status
<1>7. Made'
  BY <1>0 DEF GatewayInv, Made, Handler
<1>. HIDE DEF status
<1>8. Routed' /\ Started' /\ Reported' /\ Identified'
  BY <1>0, <1>2 DEF GatewayInv, Routed, Started, Reported, Identified
<1>. QED
  BY <1>5, <1>6, <1>7, <1>8 DEF GatewayInv

LEMMA LoggingInv == GatewayInv /\ Logging => GatewayInv'
BY DEF Logging, GatewayInv, TypeOK, Stage, Status, Id, Routed, Started, Made, Reported,
   Written, Identified, Answered, Called, Handler

\* The service's side.
LEMMA ServeInv == GatewayInv /\ Serve => GatewayInv'
BY ServicesSane
DEF Serve, GatewayInv, TypeOK, Stage, Code, Routed, Started, Made, Reported, Written, Identified,
   Answered, Called, Handler, Refused, SaneTable, Sane

LEMMA AnswerInv == GatewayInv /\ (Answer \/ ServiceCrash) => GatewayInv'
BY DEF Answer, ServiceCrash, GatewayInv, TypeOK, Stage, Routed, Started, Made, Reported,
   Written, Identified, Answered, Called, Handler, Refused

LEMMA NextInv == GatewayInv /\ [Next]_vars => GatewayInv'
<1>. SUFFICES ASSUME GatewayInv, [Next]_vars PROVE GatewayInv'
  OBVIOUS
<1>1. CASE UNCHANGED vars
  BY <1>1 DEF vars, GatewayInv, TypeOK, Routed, Started, Made, Reported, Written, Identified,
     Answered, Called, Handler
<1>2. CASE Arrive
  BY <1>2, ArriveInv
<1>3. CASE Proceed
  BY <1>3, CORSInv, CorrelationIDInv, MuxInv, AuthInv, HandleInv, InvokeInv, ReceiveInv, EndInv,
     WriteInv, LoggingInv DEF Proceed
<1>4. CASE Handle \/ Disconnect \/ Serve \/ Answer \/ ServiceCrash
  BY <1>4, HandleInv, EndInv, ServeInv, AnswerInv
<1>. QED
  BY <1>1, <1>2, <1>3, <1>4 DEF Next

LEMMA SpecInv == Spec => []GatewayInv
BY InitInv, NextInv, PTL DEF Spec
-----------------------------------------------------------------------------
\* Whatever the faults, every variable has its type; all that the tables name, a
\* handler's method, its client's path, a service's codes, exists.
THEOREM TypeCorrect == Spec => []TypeOK
<1>1. GatewayInv => TypeOK
  BY DEF GatewayInv
<1>. QED
  BY <1>1, SpecInv, PTL

\* A success is answered only if the handler's method has run, once, and succeeded.
THEOREM SuccessCorrect == Spec => []SuccessIsExecuted
<1>1. GatewayInv => SuccessIsExecuted
  BY StatusOfError, RouteCalls
  DEF GatewayInv, SuccessIsExecuted, TypeOK, Routed, Made, Reported, Written, Called, Handler
<1>. QED
  BY <1>1, SpecInv, PTL

\* The response, the call, the log and an error's body have one correlation id, and a
\* call about the client names a user.
THEOREM IdentityCorrect == Spec => []OneIdentity
<1>1. GatewayInv => OneIdentity
  BY DEF GatewayInv, OneIdentity, TypeOK, Made, Written, Identified, Called
<1>. QED
  BY <1>1, SpecInv, PTL

\* A request refused for what the service knows has changed nothing there.
THEOREM RefusalCorrect == Spec => []RefusalChangedNothing
<1>1. GatewayInv => RefusalChangedNothing
  BY StatusOfError, RouteCalls
  DEF GatewayInv, RefusalChangedNothing, TypeOK, Routed, Started, Reported, Written, Called,
      Handler, Refused, Failure
<1>. QED
  BY <1>1, SpecInv, PTL
-----------------------------------------------------------------------------
\* The mux.

\* Segments that nothing but a wildcard tells apart.
Alike(s, t) == s = t \/ (s \in Wildcard /\ t \in Wildcard)

\* Two patterns for the same method and, up to the names of wildcards, the same path.
SameShape(p, q) ==
  /\ p.method = q.method
  /\ Len(p.path) = Len(q.path)
  /\ Alike(p.path[1], q.path[1])
  /\ Len(p.path) >= 2 => Alike(p.path[2], q.path[2])
  /\ Len(p.path) >= 3 => Alike(p.path[3], q.path[3])

\* No two registrations clash: the mux would panic when the gateway starts.
LEMMA NoTwoAlike == \A p, q \in AllRoutes : SameShape(p, q) => p = q
<1>. DEFINE Fields(p) == [method |-> p.method, path |-> p.path, handler |-> p.handler,
                          protected |-> p.protected]
<1>1. /\ \A p, q \in Probes : SameShape(p, q) => p = q
      /\ \A p \in Probes, q \in ServiceRoutes : ~SameShape(p, q) /\ ~SameShape(q, p)
  <2>1. \A p \in ServiceRoutes : p.path[1] \notin {"/health", "/metrics"}
    BY SMTT(30) DEF ServiceRoutes, PublicRoutes, ProtectedRoutes, Route
  <2>2. \A p \in Probes : p.path[1] \in {"/health", "/metrics"}
    BY DEF Probes, Route
  <2>3. \A p, q \in Probes : p.path[1] = q.path[1] => p = q
    <3>. DEFINE health == Route("GET", <<"/health">>, "health", FALSE)
                metrics == Route("GET", <<"/metrics">>, "metrics", FALSE)
    <3>1. \A p \in Probes : p = health \/ p = metrics
      BY DEF Probes
    <3>2. health.path[1] = "/health" /\ metrics.path[1] = "/metrics"
      BY DEF Route
    <3>. HIDE DEF health, metrics
    <3>. QED
      BY <3>1, <3>2
  <2>4. \A s \in {"/health", "/metrics"} : \A t : Alike(s, t) \/ Alike(t, s) => s = t
    BY DEF Alike, Wildcard
  <2>5. \A p, q : SameShape(p, q) => Alike(p.path[1], q.path[1])
    BY DEF SameShape
  <2>6. \A p, q \in Probes : SameShape(p, q) => p = q
    BY <2>2, <2>3, <2>4, <2>5
  <2>7. \A p \in Probes, q \in ServiceRoutes : ~SameShape(p, q) /\ ~SameShape(q, p)
    BY <2>1, <2>2, <2>4, <2>5
  <2>. QED
    BY <2>6, <2>7
<1>2. \A p, q \in PublicRoutes : SameShape(p, q) => p = q
  <2>1. \A p, q \in PublicRoutes : SameShape(p, q) => p.handler = q.handler
    BY SMTT(60) DEF PublicRoutes, Route, SameShape, Alike, Wildcard
  <2>2. \A p, q \in PublicRoutes : p.handler = q.handler => p.method = q.method
    BY SMTT(60) DEF PublicRoutes, Route
  <2>3. \A p, q \in PublicRoutes : p.handler = q.handler => p.path = q.path
    BY SMTT(60) DEF PublicRoutes, Route
  <2>4. \A p \in PublicRoutes : p.protected = FALSE /\ p = Fields(p)
    BY SMTT(60) DEF PublicRoutes, Route
  <2>. QED
    BY <2>1, <2>2, <2>3, <2>4
<1>3. \A p, q \in ProtectedRoutes : SameShape(p, q) => p = q
  <2>1. \A p, q \in ProtectedRoutes : SameShape(p, q) => p.handler = q.handler
    BY SMTT(100) DEF ProtectedRoutes, Route, SameShape, Alike, Wildcard
  <2>2. \A p, q \in ProtectedRoutes : p.handler = q.handler => p.method = q.method
    BY SMTT(60) DEF ProtectedRoutes, Route
  <2>3. \A p, q \in ProtectedRoutes : p.handler = q.handler => p.path = q.path
    BY SMTT(60) DEF ProtectedRoutes, Route
  <2>4. \A p \in ProtectedRoutes : p.protected = TRUE /\ p = Fields(p)
    BY SMTT(60) DEF ProtectedRoutes, Route
  <2>. QED
    BY <2>1, <2>2, <2>3, <2>4
<1>4. \A p \in PublicRoutes, q \in ProtectedRoutes : ~SameShape(p, q) /\ ~SameShape(q, p)
  <2>1. \A p \in PublicRoutes, q \in ProtectedRoutes : ~SameShape(p, q)
    BY SMTT(100) DEF PublicRoutes, ProtectedRoutes, Route, SameShape, Alike, Wildcard
  <2>2. \A p, q : SameShape(q, p) => SameShape(p, q)
    BY DEF SameShape, Alike
  <2>. QED
    BY <2>1, <2>2
<1>. QED
  BY <1>1, <1>2, <1>3, <1>4 DEF AllRoutes, ServiceRoutes

\* What the patterns are made of.
LEMMA Patterns ==
  \A p \in AllRoutes : /\ p.method # "HEAD"
                       /\ Len(p.path) \in 1 .. 3
                       /\ DOMAIN p.path = 1 .. Len(p.path)
                       /\ \A i \in DOMAIN p.path : p.path[i] # "7"
<1>1. \A p \in PublicRoutes : p.method # "HEAD" /\ Len(p.path) \in 1 .. 3
                              /\ DOMAIN p.path = 1 .. Len(p.path)
  BY SMTT(30) DEF PublicRoutes, Route
<1>2. \A p \in ProtectedRoutes : p.method # "HEAD" /\ Len(p.path) \in 1 .. 3
                                 /\ DOMAIN p.path = 1 .. Len(p.path)
  BY SMTT(30) DEF ProtectedRoutes, Route
<1>3. \A p \in Probes : p.method # "HEAD" /\ Len(p.path) \in 1 .. 3
                        /\ DOMAIN p.path = 1 .. Len(p.path)
                        /\ \A i \in DOMAIN p.path : p.path[i] # "7"
  BY DEF Probes, Route
<1>4. \A p \in PublicRoutes : \A i \in DOMAIN p.path : p.path[i] # "7"
  BY SMTT(30) DEF PublicRoutes, Route
<1>5. \A p \in ProtectedRoutes : \A i \in DOMAIN p.path : p.path[i] # "7"
  BY SMTT(30) DEF ProtectedRoutes, Route
<1>. QED
  BY <1>1, <1>2, <1>3, <1>4, <1>5 DEF AllRoutes

\* Of the patterns that match a request for a route, its own is the only most
\* specific one.
LEMMA OwnPattern ==
  ASSUME NEW r, NEW p \in AllRoutes, r.method = p.method, r.path = Instance(p.path),
         NEW q \in MostSpecific(Matching(r))
  PROVE  q = p
<1>1. /\ Len(p.path) \in 1 .. 3 /\ DOMAIN p.path = 1 .. Len(p.path)
      /\ q \in AllRoutes /\ Serves(q.method, p.method) /\ Covers(q.path, r.path)
  BY Patterns DEF MostSpecific, Matching
<1>2. /\ DOMAIN q.path = 1 .. Len(q.path) /\ Len(q.path) \in 1 .. 3
      /\ \A i \in DOMAIN q.path : q.path[i] # "7"
  BY <1>1, Patterns
<1>3. /\ DOMAIN r.path = 1 .. Len(p.path)
      /\ Len(r.path) = Len(p.path)
      /\ \A i \in DOMAIN r.path :
           r.path[i] = IF p.path[i] \in Wildcard THEN "7" ELSE p.path[i]
  BY <1>1 DEF Instance
<1>4. Covers(p.path, r.path)
  BY <1>3 DEF Covers
<1>5. p \in Matching(r)
  BY <1>4 DEF Matching, Serves
<1>6. Covers(p.path, q.path)
  BY <1>5 DEF MostSpecific
<1>7. Len(p.path) = Len(q.path) /\ \A i \in DOMAIN q.path : Alike(p.path[i], q.path[i])
  BY <1>1, <1>2, <1>3, <1>6 DEF Covers, Alike, Wildcard
<1>8. p.method = q.method
  BY <1>1, Patterns DEF Serves
<1>9. SameShape(p, q)
  BY <1>1, <1>2, <1>7, <1>8 DEF SameShape
<1>. QED
  BY <1>1, <1>9, NoTwoAlike

\* The route is the mux's choice for the request.
Chosen ==
  /\ pc \in {"idle", "CORS", "CorrelationID", "mux"} => route = NoRoute
  /\ route # NoRoute => route \in MostSpecific(Matching(request))

LEMMA SpecChosen == Spec => []Chosen
<1>1. Init => Chosen
  BY DEF Init, Chosen
<1>2. Chosen /\ [Next]_vars => Chosen'
  <2>1. Chosen /\ Mux => Chosen'
    BY DEF Chosen, Mux
  <2>2. Chosen /\ Arrive => Chosen'
    BY DEF Chosen, Arrive
  <2>3. Chosen /\ UNCHANGED <<request, route>>
          /\ (pc' = pc \/ pc' \notin {"idle", "CORS", "CorrelationID", "mux"}
              \/ pc \in {"idle", "CORS", "CorrelationID", "mux"}) => Chosen'
    BY DEF Chosen
  <2>4. Chosen /\ Next => Chosen'
    BY <2>1, <2>2, <2>3
    DEF Next, Proceed, CORS, CorrelationID, Auth, Handle, Invoke, Receive, Timeout, Disconnect,
        Write, Logging, Serve, Answer, ServiceCrash
  <2>. QED
    BY <2>3, <2>4 DEF vars
<1>. QED
  BY <1>1, <1>2, PTL DEF Spec

\* Whichever patterns overlap, a request for a route is served by that route.
THEOREM OwnHandlerCorrect == Spec => []OwnHandler
<1>1. Chosen => OwnHandler
  BY OwnPattern DEF Chosen, OwnHandler
<1>. QED
  BY <1>1, SpecChosen, PTL
=============================================================================
