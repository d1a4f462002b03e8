------------------------------- MODULE Routes -------------------------------
(***************************************************************************)
(* The tables of the API gateway: the patterns its mux serves, and what    *)
(* each handler does with a request before and after its gRPC call.        *)
(*                                                                         *)
(* A path is the sequence of its segments, without the leading "api"; a    *)
(* wildcard {id} is written <id>.                                          *)
(***************************************************************************)
EXTENDS Sequences

Wildcard == {"<id>", "<driver_id>", "<ride_id>"}

Route(method, path, handler, protected) ==
  [method |-> method, path |-> path, handler |-> handler, protected |-> protected]

\* GET /health and GET /metrics, which no service answers.
Probes ==
  {Route("GET", <<"/health">>, "health", FALSE), Route("GET", <<"/metrics">>, "metrics", FALSE)}

PublicRoutes ==
  LET Get(path, handler) == Route("GET", path, handler, FALSE)
      Post(path, handler) == Route("POST", path, handler, FALSE)
  IN  {Post(<<"auth", "register">>, "Register"),
       Post(<<"auth", "login">>, "Login"),
       Post(<<"auth", "logout">>, "Logout"),
       Post(<<"auth", "validate">>, "ValidateSession"),
       Post(<<"users", "verify-email">>, "VerifyEmail"),
       Post(<<"users", "reset-password">>, "ResetPassword"),
       Post(<<"rides", "estimate">>, "EstimateRide"),
       Get(<<"drivers", "nearest">>, "FindNearestDrivers"),
       Get(<<"drivers">>, "ListDrivers"),
       Get(<<"drivers", "available">>, "ListAvailableDrivers"),
       Get(<<"drivers", "<id>", "location">>, "GetDriverLocation"),
       Post(<<"drivers", "assign">>, "AssignDriver"),
       Get(<<"rides", "active">>, "ListActiveRides"),
       Get(<<"drivers", "<driver_id>", "rides">>, "ListDriverRides"),
       Get(<<"rides", "<id>", "history">>, "GetRideHistory"),
       Get(<<"payments", "<id>">>, "GetPayment"),
       Get(<<"payments", "<id>", "receipt">>, "GetPaymentReceipt"),
       Post(<<"payments", "validate-method">>, "ValidatePaymentMethod"),
       Get(<<"payments", "failed">>, "ListFailedPayments")}

ProtectedRoutes ==
  LET Get(path, handler) == Route("GET", path, handler, TRUE)
      Post(path, handler) == Route("POST", path, handler, TRUE)
      Put(path, handler) == Route("PUT", path, handler, TRUE)
      Patch(path, handler) == Route("PATCH", path, handler, TRUE)
      Delete(path, handler) == Route("DELETE", path, handler, TRUE)
  IN  {Get(<<"users", "me">>, "Me"),
       Put(<<"users", "me">>, "UpdateMe"),
       Get(<<"users">>, "ListUsers"),
       Get(<<"users", "by-email">>, "GetUserByEmail"),
       Post(<<"users", "change-password">>, "ChangePassword"),
       Post(<<"users", "resend-verification">>, "ResendVerification"),
       Post(<<"users", "<id>", "deactivate">>, "DeactivateUser"),
       Patch(<<"users", "<id>", "role">>, "UpdateUserRole"),
       Post(<<"drivers", "register">>, "RegisterDriver"),
       Post(<<"drivers", "vehicle">>, "AddVehicle"),
       Put(<<"drivers", "vehicle", "<id>">>, "UpdateVehicle"),
       Delete(<<"drivers", "vehicle", "<id>">>, "DeleteVehicle"),
       Patch(<<"drivers", "status">>, "UpdateDriverStatus"),
       Patch(<<"drivers", "location">>, "UpdateDriverLocation"),
       Get(<<"drivers", "<id>", "status-history">>, "GetDriverStatusHistory"),
       Post(<<"drivers", "<id>", "rating">>, "SetDriverRating"),
       Post(<<"rides">>, "CreateRide"),
       Post(<<"rides", "schedule">>, "ScheduleRide"),
       Get(<<"rides", "my">>, "MyRides"),
       Get(<<"rides", "<id>">>, "GetRide"),
       Post(<<"rides", "<id>", "accept">>, "AcceptRide"),
       Post(<<"rides", "<id>", "reject">>, "RejectRide"),
       Patch(<<"rides", "<id>", "status">>, "UpdateRideStatus"),
       Post(<<"rides", "<id>", "cancel">>, "CancelRide"),
       Post(<<"rides", "<id>", "complete">>, "CompleteRide"),
       Post(<<"rides", "<id>", "rate">>, "RateRide"),
       Post(<<"payments">>, "CreatePayment"),
       Get(<<"rides", "<ride_id>", "payment">>, "GetPaymentByRide"),
       Get(<<"payments", "my">>, "MyPayments"),
       Post(<<"payments", "process">>, "ProcessPayment"),
       Post(<<"payments", "refund-request">>, "CreateRefundRequest"),
       Post(<<"payments", "refund">>, "RefundPayment"),
       Post(<<"notifications", "email">>, "SendEmail"),
       Post(<<"notifications", "ride-receipt">>, "SendRideReceipt"),
       Get(<<"notifications", "my">>, "MyNotifications"),
       Get(<<"notifications", "unread">>, "UnreadNotifications"),
       Get(<<"notifications", "unread", "count">>, "CountUnreadNotifications"),
       Patch(<<"notifications", "<id>", "read">>, "MarkNotificationRead"),
       Patch(<<"notifications", "read-all">>, "MarkAllNotificationsRead"),
       Post(<<"notifications", "<id>", "resend">>, "ResendNotification"),
       Delete(<<"notifications", "<id>">>, "DeleteNotification")}
-----------------------------------------------------------------------------
\* A handler: the method it calls; how it reads the body, which may be required
\* ("json"), required with a member ("member"), read if it can be ("optional")
\* or not read ("none"); the user it names, which may be that of the token, or
\* a refusal without one ("own"), that of the token as it is ("token"), that of
\* the body and else of the token ("default"), or a refusal with neither
\* ("known"), or nobody ("none"); and the status of its success.

Calls(method, body, user, success) ==
  [method |-> method, body |-> body, user |-> user, success |-> success]

Bare(method, user) == Calls(method, "none", user, 200)
Command(method, user) == Calls(method, "json", user, 200)
Creation(method, user) == Calls(method, "json", user, 201)

AccountHandlers ==
  [Register        |-> Creation("RegisterUser", "none"),
   Login           |-> Command("LoginUser", "none"),
   Logout          |-> Calls("LogoutUser", "optional", "none", 200),
   ValidateSession |-> Command("ValidateSession", "none"),
   Me              |-> Bare("GetUserProfile", "own"),
   GetUserByEmail  |-> Bare("GetUserByEmail", "none")]

UserHandlers ==
  [ListUsers          |-> Bare("ListUsers", "none"),
   UpdateMe           |-> Command("UpdateUserProfile", "own"),
   ChangePassword     |-> Command("ChangePassword", "token"),
   ResetPassword      |-> Command("ResetPassword", "none"),
   VerifyEmail        |-> Command("VerifyUserEmail", "none"),
   ResendVerification |-> Bare("ResendVerification", "token"),
   DeactivateUser     |-> Bare("DeactivateUser", "none"),
   UpdateUserRole     |-> Command("UpdateUserRole", "none")]

VehicleHandlers ==
  [RegisterDriver       |-> Creation("RegisterDriver", "default"),
   AddVehicle           |-> Creation("AddVehicle", "none"),
   UpdateVehicle        |-> Command("UpdateVehicle", "none"),
   DeleteVehicle        |-> Bare("DeleteVehicle", "none"),
   UpdateDriverStatus   |-> Command("UpdateDriverStatus", "none"),
   UpdateDriverLocation |-> Command("UpdateDriverLocation", "none")]

DriverHandlers ==
  [GetDriverLocation      |-> Bare("GetDriverLocation", "none"),
   FindNearestDrivers     |-> Bare("FindNearestDrivers", "none"),
   ListDrivers            |-> Bare("ListDrivers", "none"),
   ListAvailableDrivers   |-> Bare("ListAvailableDrivers", "none"),
   AssignDriver           |-> Command("AssignDriverToRide", "none"),
   GetDriverStatusHistory |-> Bare("GetDriverStatusHistory", "none"),
   SetDriverRating        |-> Command("SetDriverRating", "none")]

RideHandlers ==
  [CreateRide      |-> Creation("CreateRide", "known"),
   ScheduleRide    |-> Creation("ScheduleRide", "default"),
   EstimateRide    |-> Command("EstimateRidePrice", "none"),
   ListActiveRides |-> Bare("ListActiveRides", "none"),
   ListDriverRides |-> Bare("ListDriverRides", "none"),
   GetRide         |-> Bare("GetRide", "none"),
   GetRideHistory  |-> Bare("GetRideHistory", "none")]

RideChangeHandlers ==
  [MyRides          |-> Bare("ListUserRides", "own"),
   AcceptRide       |-> Command("AcceptRide", "none"),
   RejectRide       |-> Command("RejectRide", "none"),
   UpdateRideStatus |-> Command("UpdateRideStatus", "none"),
   CancelRide       |-> Calls("CancelRide", "optional", "none", 200),
   CompleteRide     |-> Bare("CompleteRide", "none"),
   RateRide         |-> Command("RateRide", "default")]

PaymentHandlers ==
  [CreatePayment      |-> Creation("CreatePayment", "default"),
   GetPaymentByRide   |-> Bare("GetPaymentByRide", "none"),
   GetPayment         |-> Bare("GetPayment", "none"),
   MyPayments         |-> Bare("ListUserPayments", "token"),
   ListFailedPayments |-> Bare("ListFailedPayments", "none"),
   GetPaymentReceipt  |-> Bare("GetPaymentReceipt", "none")]

PaymentChangeHandlers ==
  [ValidatePaymentMethod |-> Command("ValidatePaymentMethod", "none"),
   ProcessPayment        |-> Calls("ProcessPayment", "member", "none", 200),
   RefundPayment         |-> Calls("RefundPayment", "member", "none", 200),
   CreateRefundRequest   |-> Calls("CreateRefundRequest", "member", "none", 200)]

MailHandlers ==
  [SendEmail       |-> Calls("SendEmailNotification", "member", "known", 201),
   SendRideReceipt |-> Creation("SendRideReceipt", "default")]

NotificationHandlers ==
  [MyNotifications          |-> Bare("GetNotificationHistory", "own"),
   UnreadNotifications      |-> Bare("ListUnreadNotifications", "token"),
   CountUnreadNotifications |-> Bare("CountUnreadNotifications", "token"),
   MarkNotificationRead     |-> Bare("MarkNotificationAsRead", "none"),
   MarkAllNotificationsRead |-> Bare("MarkAllNotificationsAsRead", "token"),
   ResendNotification       |-> Bare("ResendNotification", "none"),
   DeleteNotification       |-> Bare("DeleteNotification", "none")]
=============================================================================
