-------------------------------- MODULE Grpc --------------------------------
(***************************************************************************)
(* The five gRPC services as their callers see them: for each, its methods *)
(* and the stubs generated from its .proto (the client, the server and its *)
(* registration, the handlers and the table that dispatches to them), what *)
(* its delivery/grpc handler reports for each error of the use case, and   *)
(* the methods that only read.                                             *)
(*                                                                         *)
(* What a method reports is a function from the outcome of its use case to *)
(* a status code: "done" is no error, "other" any error without a case of  *)
(* its own.  A path is the service and the method of a full method name.   *)
(***************************************************************************)

\* Two tables in one; where both have an entry, the first one's.
f ++ g == [x \in DOMAIN f \cup DOMAIN g |-> IF x \in DOMAIN f THEN f[x] ELSE g[x]]

\* No error, or one that only the default case handles.
Reports(code) == [done |-> "OK", other |-> code]

\* The error NotFound has a case, whatever the error is.
NotFound_Always(code) == Reports("NotFound") ++ [notFound |-> "NotFound"]

\* The error NotFound has a case.
NotFound(code) == Reports(code) ++ [notFound |-> "NotFound"]

Unimplemented == [other |-> "Unimplemented"]

\* A generated handler decodes the request before it calls the method.
Decoded(method) == method ++ [decode |-> "Internal"]
-----------------------------------------------------------------------------
\* user.v1.UserService.

UserMethod ==
  {"RegisterUser", "LoginUser", "LogoutUser", "ValidateSession", "GetUserProfile",
   "GetUserByEmail", "ListUsers", "UpdateUserProfile", "ChangePassword", "ResetPassword",
   "VerifyUserEmail", "ResendVerification", "DeactivateUser", "UpdateUserRole"}

UserServiceClient == [m \in UserMethod |-> <<"user", m>>]

UserHandler ==
  [RegisterUser       |-> Reports("InvalidArgument") ++ [taken |-> "AlreadyExists"],
   LoginUser          |-> Reports("Internal") ++ [credentials |-> "Unauthenticated"],
   LogoutUser         |-> Reports("Internal"),
   ValidateSession    |-> Reports("Internal") ++ [notFound |-> "OK"],
   GetUserProfile     |-> NotFound("Internal"),
   GetUserByEmail     |-> NotFound("InvalidArgument"),
   ListUsers          |-> Reports("InvalidArgument"),
   UpdateUserProfile  |-> NotFound("Internal"),
   ChangePassword     |-> NotFound("InvalidArgument") ++ [credentials |-> "Unauthenticated"],
   ResetPassword      |-> NotFound("InvalidArgument"),
   VerifyUserEmail    |-> Reports("Internal"),
   ResendVerification |-> NotFound("Internal"),
   DeactivateUser     |-> NotFound("Internal"),
   UpdateUserRole     |-> NotFound("InvalidArgument")]

\* A method that the handler lacks is that of UnimplementedUserServiceServer.
UserServiceServer ==
  UserHandler ++ [m \in UserMethod |-> Unimplemented]

UserService_Handlers == [m \in UserMethod |-> Decoded(UserServiceServer[m])]

UserService_ServiceDesc ==
  [p \in {UserServiceClient[m] : m \in UserMethod} |-> UserService_Handlers[p[2]]]

UserQueries ==
  {"LoginUser", "LogoutUser", "ValidateSession", "GetUserProfile", "GetUserByEmail",
   "ListUsers"}
-----------------------------------------------------------------------------
\* driver.v1.DriverService.

DriverMethod ==
  {"RegisterDriver", "AddVehicle", "UpdateVehicle", "DeleteVehicle", "UpdateDriverStatus",
   "UpdateDriverLocation", "GetDriverLocation", "FindNearestDrivers", "ListDrivers",
   "ListAvailableDrivers", "AssignDriverToRide", "GetDriver", "GetDriverStatusHistory",
   "SetDriverRating"}

DriverServiceClient == [m \in DriverMethod |-> <<"driver", m>>]

\* AssignDriverToRide reports that no driver is free in its response.
DriverHandler ==
  [RegisterDriver         |-> Reports("InvalidArgument"),
   AddVehicle             |-> Reports("InvalidArgument"),
   UpdateVehicle          |-> NotFound("InvalidArgument"),
   DeleteVehicle          |-> NotFound("Internal"),
   UpdateDriverStatus     |-> NotFound("InvalidArgument"),
   UpdateDriverLocation   |-> NotFound("Internal"),
   GetDriverLocation      |-> NotFound("Internal"),
   FindNearestDrivers     |-> Reports("Internal"),
   ListDrivers            |-> Reports("InvalidArgument"),
   ListAvailableDrivers   |-> Reports("Internal"),
   AssignDriverToRide     |-> Reports("Internal") ++ [noDriver |-> "OK"],
   GetDriver              |-> NotFound("Internal"),
   GetDriverStatusHistory |-> Reports("Internal"),
   SetDriverRating        |-> NotFound("Internal")]

DriverServiceServer ==
  DriverHandler ++ [m \in DriverMethod |-> Unimplemented]

DriverService_Handlers == [m \in DriverMethod |-> Decoded(DriverServiceServer[m])]

DriverService_ServiceDesc ==
  [p \in {DriverServiceClient[m] : m \in DriverMethod} |-> DriverService_Handlers[p[2]]]

DriverQueries ==
  {"GetDriverLocation", "FindNearestDrivers", "ListDrivers", "ListAvailableDrivers"}

DriverRecords == {"GetDriver", "GetDriverStatusHistory"}
-----------------------------------------------------------------------------
\* ride.v1.RideService.

RideMethod ==
  {"CreateRide", "EstimateRidePrice", "GetRide", "ListUserRides", "ListActiveRides",
   "ListDriverRides", "GetRideHistory", "ScheduleRide", "AcceptRide", "RejectRide",
   "UpdateRideStatus", "CancelRide", "CompleteRide", "RateRide"}

RideServiceClient == [m \in RideMethod |-> <<"ride", m>>]

\* A case for the errors of the ride's lifecycle.
Precondition(method) == method ++ [precondition |-> "FailedPrecondition"]

RideHandler ==
  [CreateRide        |-> Precondition(Reports("Internal")),
   EstimateRidePrice |-> [done |-> "OK"],
   GetRide           |-> NotFound("Internal"),
   ListUserRides     |-> Reports("Internal"),
   ListActiveRides   |-> Reports("Internal"),
   ListDriverRides   |-> Reports("Internal"),
   GetRideHistory    |-> Reports("Internal"),
   ScheduleRide      |-> Reports("Internal"),
   AcceptRide        |-> Precondition(NotFound("Internal")),
   RejectRide        |-> NotFound("Internal"),
   UpdateRideStatus  |-> Precondition(NotFound("Internal")),
   CancelRide        |-> Reports("Internal"),
   CompleteRide      |-> Reports("Internal"),
   RateRide          |-> NotFound("Internal")]

RideServiceServer ==
  RideHandler ++ [m \in RideMethod |-> Unimplemented]

RideService_Handlers == [m \in RideMethod |-> Decoded(RideServiceServer[m])]

RideService_ServiceDesc ==
  [p \in {RideServiceClient[m] : m \in RideMethod} |-> RideService_Handlers[p[2]]]

RideQueries ==
  {"EstimateRidePrice", "GetRide", "ListUserRides", "ListActiveRides", "ListDriverRides",
   "GetRideHistory"}
-----------------------------------------------------------------------------
\* payment.v1.PaymentService.

PaymentMethod ==
  {"CreatePayment", "GetPaymentByRide", "GetPayment", "ListUserPayments",
   "ListFailedPayments", "GetPaymentReceipt", "ValidatePaymentMethod", "ProcessPayment",
   "CreateRefundRequest", "RefundPayment"}

PaymentServiceClient == [m \in PaymentMethod |-> <<"payment", m>>]

PaymentHandler ==
  [CreatePayment         |-> Reports("Internal"),
   GetPaymentByRide      |-> NotFound("Internal"),
   GetPayment            |-> NotFound("Internal"),
   ListUserPayments      |-> Reports("Internal"),
   ListFailedPayments    |-> Reports("Internal"),
   GetPaymentReceipt     |-> NotFound("Internal"),
   ValidatePaymentMethod |-> [done |-> "OK"],
   ProcessPayment        |-> Precondition(NotFound("Internal")),
   CreateRefundRequest   |-> NotFound("Internal"),
   RefundPayment         |-> Precondition(Reports("Internal"))]

PaymentServiceServer ==
  PaymentHandler ++ [m \in PaymentMethod |-> Unimplemented]

PaymentService_Handlers == [m \in PaymentMethod |-> Decoded(PaymentServiceServer[m])]

PaymentService_ServiceDesc ==
  [p \in {PaymentServiceClient[m] : m \in PaymentMethod} |-> PaymentService_Handlers[p[2]]]

PaymentQueries ==
  {"GetPaymentByRide", "GetPayment", "ListUserPayments", "ListFailedPayments",
   "GetPaymentReceipt", "ValidatePaymentMethod"}
-----------------------------------------------------------------------------
\* notification.v1.NotificationService.

NotificationMethod ==
  {"SendEmailNotification", "SendRideReceipt", "GetNotificationHistory",
   "ListUnreadNotifications", "CountUnreadNotifications", "MarkNotificationAsRead",
   "MarkAllNotificationsAsRead", "ResendNotification", "DeleteNotification"}

NotificationServiceClient == [m \in NotificationMethod |-> <<"notification", m>>]

NotificationHandler ==
  [SendEmailNotification      |-> Reports("Internal"),
   SendRideReceipt            |-> Reports("Internal"),
   GetNotificationHistory     |-> Reports("Internal"),
   ListUnreadNotifications    |-> Reports("Internal"),
   CountUnreadNotifications   |-> Reports("Internal"),
   MarkNotificationAsRead     |-> NotFound("Internal"),
   MarkAllNotificationsAsRead |-> Reports("Internal"),
   ResendNotification         |-> NotFound("Internal"),
   DeleteNotification         |-> NotFound("Internal")]

NotificationServiceServer ==
  NotificationHandler ++ [m \in NotificationMethod |-> Unimplemented]

NotificationService_Handlers ==
  [m \in NotificationMethod |-> Decoded(NotificationServiceServer[m])]

NotificationService_ServiceDesc ==
  [p \in {NotificationServiceClient[m] : m \in NotificationMethod} |->
     NotificationService_Handlers[p[2]]]

NotificationQueries ==
  {"GetNotificationHistory", "ListUnreadNotifications", "CountUnreadNotifications"}

\* The row is read again after it was changed, or after the mail was sent: not
\* finding it then means that it has been deleted meanwhile.
NotFoundLate == {"MarkNotificationAsRead", "ResendNotification"}
-----------------------------------------------------------------------------
\* The gateway's clients, and what their calls meet.

Clients ==
  UserServiceClient ++ DriverServiceClient ++ RideServiceClient ++
  PaymentServiceClient ++ NotificationServiceClient

ServiceDescs ==
  UserService_ServiceDesc ++ DriverService_ServiceDesc ++ RideService_ServiceDesc ++
  PaymentService_ServiceDesc ++ NotificationService_ServiceDesc

Queries ==
  UserQueries \cup DriverQueries \cup DriverRecords \cup RideQueries \cup
  PaymentQueries \cup NotificationQueries
=============================================================================
