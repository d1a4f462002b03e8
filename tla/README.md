# Formal model of JetKZu

JetKZu is a ride-hailing backend: five Go services behind an HTTP gateway, each
with its own PostgreSQL tables, talking over gRPC (gateway to service) and NATS
(service to service). This directory holds TLA+ models of the services, the
TLC configurations that check them on small instances, and TLAPS proofs, for
instances of every size, of the safety properties of every service and of the
gateway, and of what passes between the services: money, and drivers.

## 1. Inventory

| Part | State it keeps | Operations that change it | Talks to |
|---|---|---|---|
| ride-service | `rides`, `ride_status_history`, `ride_price_estimations` | CreateRide, ScheduleRide, UpdateRideStatus, CancelRide, CompleteRide, AcceptRide, RejectRide, RateRide; the `driver.assigned` callback | publishes `ride.*`; listens to `driver.assigned` |
| driver-service | `drivers`, `driver_status_history`, `driver_assignments`, `vehicles`; Redis `driver:status:<id>` and `driver:geo` | RegisterDriver, UpdateDriverStatus, UpdateDriverLocation, AssignDriverToRide, vehicles; the `ride.requested` callback | publishes `driver.assigned`, `driver.location_updated` |
| payment-service | `payments`, `payment_events` | CreatePayment, ProcessPayment, RefundPayment; the `ride.completed` and `ride.cancelled` callbacks | publishes `payment.*` |
| notification-service | `notifications` | SendEmail, Resend, MarkRead, MarkAllRead, Delete; five event callbacks | SMTP; publishes `notification.sent` |
| user-service | `users`, `verification_tokens` | Register, VerifyEmail, ResendVerification, ChangePassword, UpdateProfile, Deactivate, ... | publishes `user.registered`, `user.email_verified` |
| natsbus | none (core NATS, no stream) | Publish, Subscribe with a queue group | all services |
| api-gateway | none | routes, CORS, correlation id, JWT check, HTTP to gRPC with a timeout on every call, errors to statuses, log | all services |
| generated gRPC stubs | none | path of a method, decoding, errors of the transport | gateway and services |
| shared packages, messages, web client, deployment | none of interest | | |

### What is hard

* **Concurrency.** gRPC runs each request in a goroutine of its own, and NATS
  runs the callbacks of a subscription next to them. Handlers are sequences of
  separate queries, Redis commands and publications; only two transactions
  (`UpdateStatusWithHistory`/`AssignDriver` and `UpdateStatusWithEvent`) lock
  the row they decide on.
* **Failure.** A commit and the event about it are not atomic, the error of
  every publication is ignored, the errors of the cache writes too, and the
  gateway's timeout ends a handler between two steps; a callback has no timeout,
  but its queries fail too. No handler retries and no outbox exists.
* **Ordering.** Results are re-read after the commit; the cache and database
  writes of two handlers can cross; subjects are independent subscriptions.
* **Delivery.** Core NATS delivers at most once: a message in the inbox of a
  process that dies is lost.

### What makes each part correct

* ride-service: the history explains the status; an ended ride is frozen; one
  driver per ride; one outcome is announced per ride and it is the right one;
  a passenger has one unfinished ride.
* driver-service: a driver is given one ride at a time; the cache dispatch
  trusts shows what was committed; the nearest online driver is chosen; an
  assignment is announced only when recorded.
* payment-service: the ledger is the account of the payment; an event is
  published only for what the ledger shows; a refund is final; a completed
  ride does not leave its payment pending.
* the flow across services: a completed ride is paid once; what is charged was
  completed; a ride gets one driver.
* notification-service: a row stands for one mail and tells the truth about it;
  a row is left queued only when its sender was cut off; marks and deletions
  stay.
* user-service: a user who is not verified has a token; an email is verified
  exactly by a token of its user, which is then gone; an update does not undo
  another.
* api-gateway: a success is one that the service executed; a refusal changed
  nothing; a request reaches its own handler, keeps one identity on its way,
  and is answered even when the service is not, unless its client never ends the
  body.

`PROJECT.json` lists, under `hazards`, the lines where these can go wrong, and
which property watches each.

## 2. Plan

The order was: the core first, then what it talks to, then proofs.

1. `RideStatus`, `RideService`, `RideLifecycle`: the core, its abstract
   specification and `RideServiceProofs`.
2. `DriverService` and `DriverServiceProofs`: two stores written separately.
3. `PaymentService` and `PaymentServiceProofs`: two-step charging and
   concurrent refund.
4. `RideFlow`, its abstract specification `RidePlatform`, and `RideFlowProofs`:
   the three services joined by NATS inboxes, with every fault of theirs and
   crashes that lose an inbox.
5. `NotificationService` and `NotificationServiceProofs`: mails, subscriptions
   and shutdown.
6. `UserService` and `UserServiceProofs`: registration, verification tokens,
   and writes of stale rows.
7. `Grpc`, `Routes`, `Gateway` and `GatewayProofs`: a request from HTTP to a
   service and back.

What could come next: the callbacks of the notification-service in `RideFlow`,
several processes of one service in a queue group, the expiry of tokens by
time, and the vehicles of a driver.

Modules to be proved about use no `RECURSIVE` operator; parameters are
CONSTANTS with named assumptions.

## 3. Modules

### RideStatus (constant definitions)

`services/ride/internal/domain/ride.go`: the statuses, the transition table,
`CanTransition`, `IsActiveStatus`.

### RideService

One variable per column that matters (`status`, `passenger`, `driver`), the
rows of the history as a sequence per ride, the rides in the order they were
stored (`created`), those with an estimate, what
each call in flight is doing (`task`), and what was published (`sent` counts
publications per ride and subject, `told` collects the statuses published on
`ride.status_changed`). A **Worker** is one call in flight. A handler is a
chain of steps and each step is one access to something shared:

| Step | Code |
|---|---|
| `ListByUser` | the check at the head of `UseCase.Create` |
| `CreateWithHistory`, `SavePriceEstimation`, `PublishRequested`, `PublishScheduled` | the rest of `Create` and `Schedule` |
| `UpdateStatusWithHistory`, `AssignDriver` | the row-locking transactions of the repository |
| `GetByID` | the re-read after the commit |
| `PublishStatusChanged`, `PublishOutcome` | the publications of `UpdateStatus` and `AssignDriver` |
| `Reject`, `Rate` | the handlers that read and publish |
| `QueryFails`, `Crash` | a query fails, or the caller's context has ended; the process dies |

A call whose first step is refused changes nothing and is not a step.
The transactions are single steps because `SELECT ... FOR UPDATE` holds the
row until the commit. The fault `query` also covers a commit whose
acknowledgement is lost: the rows stay, the caller sees an error. In a callback
as in a call, a failing query ends the handler with its error.

`RidesOf` is the page that `Create` asks for: the `PageSize` (100 in the code)
newest rides of which the user is passenger or driver. `created_at` is read from
the clock just before the insert; inserts that cross are taken to be stored in
its order.

### RideLifecycle

What clients and subscribers are promised: a ride moves along the table, and
its end is announced once under the subject that names its outcome.
`RideService` implements it with `announced` computed from `sent`.

### DriverService

`db` is the table, `cache` and `geo` are Redis. Register, UpdateStatus and
UpdateLocation commit first and write Redis in a second step. Assignment is
`Search` (GEOSEARCH), `Skip`/`Choose`/`Refuse` (the statuses read one by one),
`SetBusy`, `CacheBusy`, `RecordAssignment`, `PublishAssigned`. All pickups are
at one point and a position is its distance. `logged` (the set of statuses in
the history) and `published` are kept to state properties; `booked` is not in
the code: it collects the rides recorded for a driver since it last went
online.

### PaymentService

Payments are numbered in the order of `created_at`, which `Create` takes from
the clock before it inserts. The `ride.completed` callback is `Create` with
`auto` set, and continues into the update that processes the payment; the
`ride.cancelled` callback reads the newest payment of the ride and refunds it.

### RideFlow

INSTANCEs of the three services over separate variables. A **Subscription** is
named by its subject and is a worker of the service that subscribes, because
nats.go runs the callbacks of one subscription one after the other on one
goroutine; the gRPC calls of a service are its other workers (`Client`). A step
of a service is a step of the flow. `Deliver` looks at what the step added to
the service's record of publications and appends it to the inbox of the
subscription (`natsbus.go`: fire and forget, one member of the queue group gets
it). A subscription whose worker is idle takes the head of its inbox:
`ReceiveAssigned`, `ReceiveRequested`, `ReceiveCompleted`, `ReceiveCancelled`
are the callbacks registered in the `main.go` of each service, each ending in
the log line and nothing else when the use case refuses. `Crash` ends the calls
of one process and drops what was waiting in its inboxes. `charges` is not in
the code: it collects the payments made by the `ride.completed` callback.

Something going wrong is a step that counts in `faults`: `Crash`; the first
query of a callback failing (`CallbackFails`); a later one of a call or a
callback (`RideFails`, `DriverFails`, `PaymentFails`), the gateway's timeout
before a query among them; and every step that only a fault lets a service take,
such as a lost publication or a failed Redis write (`FaultUnless` compares with
the same service without faults, `ROk`, `DOk`, `POk`). `refused`, too, is not in
the code: it collects the rides for which the search found nobody.

Drivers are registered and in reach from the start, each online or offline in
both stores, and make no calls; the payment API is limited to `CreatePayment` (a
ride may be paid in advance, so that there is something to refund). The modules
of those services have the rest.

The search orders the drivers in reach, so `Driver` is finite
(`DriverAssumption`).

`RideFlow` has no type invariant of its own: its variables are those of the
services, whose types are checked in their runs and proved to carry over.

### RidePlatform

What the three services together promise: a ride is offered once, given to one
driver, ended once, charged once and only when completed, and
what was paid for it is given back only when it was cancelled. There are no
services, messages or crashes in it. `RideFlow` implements it
(`ImplementsPlatform`) with `outcome` read from the status of the ride,
`offered` from the publications of `ride.requested`, `assigned` from the
recorded assignments, `charged` from `charges`, and `refunded` from the rows of
the payments. It allows a cancelled ride to be offered and assigned, because the
code does: the offer comes after the commit, and nobody tells the
driver-service of a cancellation. It does not say that a driver has one ride: a
Redis write whose error is ignored leaves a driver with a ride online in the
cache, and the next ride gets him too.

### NotificationService

One row of `notifications` per mail: `status` (with "absent" and "deleted" for no
row) and `user`. A **Worker** is a subscription of `subscribeAll`, named by its
subject and running one callback at a time, or a gRPC call. `SendEmail` is a
chain `Create`, `Send`, `UpdateStatus`, `GetByID`, `Publish`; the mail leaves
between two queries and nothing makes them one. `Receive`, `Request` and
`Resend` begin it; `MarkRead`, `MarkAllRead` and `Delete` are one statement each
and come in between. `Stop` and `Exit` are the signal and the end of `main`:
`GracefulStop` waits for calls and not for callbacks. `mails`, `announced` and
`cut` are not in the code: they count the mails that left, collect the statuses
published, and name the rows whose sender was ended early.

### UserService

`account` is the row of a user and `tokens` the committed rows of
`verification_tokens`. Registration is one step, because the UNIQUE constraint
makes a second insert of an email wait. `VerifyEmail` is a read, an UPDATE that
locks the user's row, a DELETE and a commit; `ReplaceVerification` a DELETE and
a commit. At READ COMMITTED a DELETE sees what was committed when it began,
which is the `snapshot` of a call, and waits for a row that another has locked
(`VerifyDelete`, `ReplaceDelete`, `TokenLocked`, `Unblock`). `UpdateProfile` and
`ChangePassword` read in one step and write in another. A token does not carry
its time: that it has expired is the refusal that `VerifyEmail` may give anyway.
`owner`, `decided` and `accepted` are not in the code: for whom a token was
generated, which role and password were last given, and how often a token was
accepted.

### Grpc and Routes (constant definitions)

`Grpc` has the methods of the five services, with their generated stubs: the
path a client calls, the path a server registers, and what each method may
answer (`UserHandler` and its like: the statuses of each `handler.go`), and which
methods only read. Their tables are joined with `++`, the `@@` of `TLC` defined
again so that it can be proved about. `Routes` has the patterns of `router.go`
(a wildcard `{id}` is written `<id>`) and, per handler of
`handlers.go`, the method it calls, what it asks of the body, from where it
takes the user, and the status of success.

### Gateway

One HTTP request, through `CORS`, `CorrelationID`, `Mux`, `Auth`, `Handle`,
`Invoke`, the wait for the service (`Receive`, `Timeout`, `Disconnect`), `Write`
and `Logging`. `Handle` is taken when the body, if the handler reads one
(`ReadsBody`), has ended or broken off; nothing makes a client end it, and the
server has no `ReadTimeout` (`AwaitsBody`). `Serve`, `Answer` and `ServiceCrash` are the service's side of
the call, which goes on after the gateway has given up.

### Proof modules

`RideServiceProofs`, `DriverServiceProofs`, `PaymentServiceProofs`,
`UserServiceProofs`, `NotificationServiceProofs` and `GatewayProofs` extend the
module they are named after. `RideFlowProofs` extends `RideFlow` and takes an
instance of the proofs of each of the three services.

### MC modules

`MCRideService`, `MCDriverService`, `MCPaymentService`, `MCUserService` add the
symmetry sets; `MCRideFlow` and `MCNotificationService` need none; `Gateway` is
run as it is.

## 4. Runs

| Run | Instance | What it shows |
|---|---|---|
| `ride_service` | 1 ride, 2 drivers, 3 calls at once, every fault | the history is the path to the status, one outcome is announced, an ended ride is frozen, the re-read is not behind, and the refinement of `RideLifecycle` |
| `ride_liveness` | 1 ride, 2 calls, no faults, weak fairness | a stored ride is offered; the refinement with fairness: the end is announced |
| `ride_one_active_race` | 2 rides, 1 passenger, 2 calls | two unfinished rides of one passenger (violation) |
| `driver_service` | 2 drivers at one place, 2 calls, every fault | only recorded assignments are announced; the cache shows committed statuses |
| `driver_serial` | 2 drivers, 2 rides, 3 distances of which 1 outside the radius, 1 call, a COUNT of 1, no faults | fresh cache, nearest driver, no double booking; a search that finds nobody while a driver is available has its COUNT filled by drivers who are not online |
| `driver_booking_race` | 1 driver, 2 rides, 2 calls, no faults | one driver, two rides (violation) |
| `payment_service` | 2 payments, 2 rides, 3 calls, every fault | the ledger is the account of the payment; events for what it shows, once; a refund is final |
| `ride_flow` | 1 ride, 1 driver, 1 client per service, 2 payments, 1 fault of any kind (crash, query, Redis, publication), the driver online or offline | money follows the outcome of the ride; the refinement of `RidePlatform`; unless something went wrong a completed ride is paid, and a requested ride moves on or was refused |
| `flow_delivery` | the same without advance payment, 1 crash | a `ride.completed` that is never handled (violation) |
| `notification_service` | 2 mails, 2 subscriptions, 1 caller, 2 users, every fault | a row stands for one mail and tells the truth; only a cut-off sender leaves it queued; marks and deletions stay; a mail that left is recorded |
| `user_service` | 2 users, 2 emails, 2 tokens, 2 calls, every fault | tokens and verification agree, an accepted token is gone, no stale write covers a password or a role |
| `gateway` | every kind of request to every route, every fault | a success was executed, a refusal changed nothing, own handler, one identity; every request is answered unless its body never ends |

**Bounds.** The ride and payment safety properties speak of one ride and of one
payment, and handlers interfere only on the same row, so one ride with three
calls shows every interference of three handlers: a writer, a second writer
between its commit and its re-read, and a third after it. Two rides are needed
only where two rows are compared. `MaxFeedback` bounds the publications of
`ride.rejected` and `ride.rated`, `MaxPayments` the calls of `Create`. `Limit`
and `Radius` stand for 5 drivers and 10 km; in `driver_serial` `Limit` is below
the number of drivers, so that the COUNT cuts. `PageSize` stands for 100; it
cuts off nothing in a run with one ride, and in `ride_one_active_race` it is the
number of rides, so that the violation is the race and not the page. In
`ride_flow`, `MaxApiPayments` bounds the calls of `CreatePayment` and `MaxFaults`
the faults. One client and three
subscriptions give up to six workers; one fault is enough to lose any one
message or write, and two payments are enough for one ride paid in advance and charged
again by the callback; `RideFlowProofs` has the safety property for every other
number.

`Notification` bounds the mails of a run: two, so that one is resent as the
other. `Sender = "smtp"` has every outcome of the mock and more.
`MaxTokens` bounds the tokens of a run: two tokens are a registration and a
resend, or two registrations; resends that overlap each other beyond that are
covered by the proofs, which have no bound.

In `gateway` one request is enough because requests share nothing. A body is one
of five kinds (not of the right shape, or with and without the user and the other
members that handlers ask for) and a token one of three; a path is one of the
routes with something in the place of a wildcard, or none of them.

**Deadlock** is not checked: the models may stop when every bound is used up or
the one request is answered, and so may the system when nobody calls.

**Symmetry** is used in safety runs only; rides, drivers, users and workers are
interchangeable. (The refinement property of `ride_service` is a safety
property: `Lifecycle!Spec` has no fairness; `ride_flow` has no symmetry.)

**Fairness.** `FairSpec` has weak fairness of the next step of a call in
flight, worker by worker: a goroutine inside a handler keeps running. There is
no fairness of new calls, of faults alone, or of the users. In `RideFlow` the
fair step of a call is to go on or to be cut short with an error (`RideMoves`,
`DriverMoves`, `PaymentMoves`): a query of a call returns, with rows or with an
error, at the latest when the gateway's 5 s are over, and one of a callback, which
has no deadline, when the database answers or the connection breaks. There is
also weak fairness of each `Receive`: the goroutine of a subscription takes the
next message once its callback is back. The two liveness properties promise
nothing after a fault: a deadline before the re-read, or a publication that
fails, loses an event as a crash does.

`NotificationService` has weak fairness of the queries and publications of a
worker (`Continue`) and none of `Send`: `smtp.SendMail` has no timeout and does
not look at the context, so a mail server that stops answering holds the worker
for ever. `MailIsRecorded` starts when the mail has left.

`Gateway` has weak fairness of its own steps, the timer of `Handlers.ctx`
among them, none of the services, and none of the client, who may never end a
body. `EveryRequestAnswered` therefore says two things: a request is answered or
waits for its body for ever; and from the call on (`invoke`) it is answered, which
rests on the timeout alone.

## 5. Disagreements between the code and its documentation

The violation runs each check one sentence of the repository. They are listed
in `PROJECT.json` under `findings` with the sentence quoted: the race in
`CreateRide`, the double booking, and delivery that is at most once where
`docs/architecture.md:46` has "at least once".

Others were met on the way and have no run:

* `docs/demo-script.md:82` has a driver on every ride that is `driver_assigned`;
  `UpdateRideStatus` makes that transition without one
  (`services/ride/internal/infrastructure/postgres/repo.go:175`).
  `UpdateStatusWithHistory` has the transition.
* `docs/architecture.md:39` has the current status under `driver:status:<id>`; two updates of one
  driver write PostgreSQL in one order and Redis in the other
  (`services/driver/internal/usecase/usecase.go:80`). `CacheFresh` therefore
  holds in `driver_serial` and is not asked of two calls at once.
* `docs/demo-script.md:75` has the nearest online driver found; the search takes
  the nearest five of any status and filters afterwards
  (`services/driver/internal/infrastructure/redis/cache.go:52`), so five drivers
  that are offline hide a sixth. `RefusalExplained` says what is true: with
  one call at a time and a working Redis, that is the only reason for which a search
  misses an available driver.
* `services/ride/internal/domain/ride.go:22` refuses a passenger who has an active
  ride; besides the race, the test reads the 100 newest rides of the user, those
  he drives included (`services/ride/internal/infrastructure/postgres/repo.go:62`),
  and AcceptRide takes any driver from its body. A passenger who drives 100 rides
  newer than his own gets a second one without any race (`OneRideWhenApart` has
  the condition).
* The callback for `ride.requested` ignores the error of the Redis write that makes
  a driver busy (`services/driver/internal/usecase/usecase.go:136`), so the next
  ride may get the same driver without any race. `DriversGetOneRide` needs Redis.
* The comment at `services/user/internal/infrastructure/postgres/user_repo.go:150`
  has a token consumed; two calls that have both read it are both accepted.
  `AcceptedIsGone` says what is true: nobody reads it afterwards.
* `README.md:132` and `docs/architecture.md:45,57` have the correlation id go
  from the gateway to NATS; no service takes it from the metadata of the call, so
  events are published without it. `OneIdentity` ends
  at the metadata of the gRPC call.
* `docs/api-examples.md:99-102` has a `correlation_id` in every error; the 400 and
  401 that handlers write themselves have none (`Refusal`). A preflight has no
  correlation id at all and is not logged.
* `RegisterUser` and seven other methods that change something report every error they do not know as
  `InvalidArgument`, a lost connection after the commit included, so a 400 may
  hide a change; `RefusalChangedNothing` therefore speaks of 401, 404 and 409.
  The domain errors of some methods (`CancelRide`, `CompleteRide`, the missing
  payment of `RefundPayment`) come out as `Internal`, hence 500.
* The welcome mail has the address in its event; the other subscriptions pass
  none, and their mails go to an empty address.

## 6. Proofs

All are for any values of the constants that satisfy the named assumptions of
the modules; no bound of a run occurs in them.

`RideServiceProofs`:

| Theorem | Property |
|---|---|
| `TypeCorrect` | `TypeOK` |
| `HistoryCorrect` | `HistoryIsPath` |
| `OutcomeCorrect` | `OneOutcome` |
| `EndedRidesStay` | `FinishedRideFrozen` |
| `DriverStays` | `DriverNeverReplaced` |
| `ReReadCorrect` | `ReReadNotBehind` |
| `LifecycleImplemented` | `ImplementsLifecycle` |
| `RequestCorrect` | `RequestedOnce`: a ride is offered to the drivers once at most, and only when stored |
| `OneRideWhenApart` | `OneActiveRide`, if `[]CallsApart` and `[]DrivesFew` |
| `OneRideOfRiders` | `OneActiveRide`, if `[]CallsApart` and no passenger is a driver |

`OneOutcome` is not inductive: that a publication does not make a second one
depends on who is still on the way to publishing. The invariant `IInv` adds,
for a call between its commit to a terminal status and its last publication,
that the ride has that status, that nothing was announced yet, and that no
other call is on that way for the same ride. It holds because a terminal
status is left by no transition, so only one transaction can ever enter one.
The refinement follows from the same invariant, each step of the service being
a step of the abstract specification or a stutter (`StepKinds`).
`ReReadNotBehind` needs `OwnRowOK`, that the row a call has committed is in the
history until it reads again, and that histories only grow (`HistoryGrows`).
`RequestCorrect` has an invariant of its own, `RequestOK`: a call that has stored
its ride and not yet offered it is the only one on that way, and the ride has not
been offered; `RequestStep` says that no step offers a ride a second time.
`OneActiveRide` is refuted by `ride_one_active_race`; `OneRideWhenApart` says in
which two ways it fails. `CallsApart`: no two calls of one passenger are between
the test for an active ride and the insert at once. `DrivesFew`: no passenger
drives `PageSize` rides that were stored after his own active one, which would
push it off the page that the test reads; his own later rides cannot, because he
gets none while it is active. Then the active ride is the newest that he ordered
(`ActiveIsNewest`) and on his page (`ActiveOnPage`), and what a call tested still
holds when it inserts (`TestHolds`), because the transition table lets no ride
become active again and nothing changes a ride's passenger. Calls of other
passengers, and every fault, are unrestricted. Where no passenger is a driver
`DrivesFew` holds (`OneRideOfRiders`).

`DriverServiceProofs`:

| Theorem | Property |
|---|---|
| `TypeCorrect` | `TypeOK` |
| `AssignedCorrect` | `AssignedIsRecorded` |
| `CacheCommitted` | `CacheShowsCommitted` |
| `CacheCorrect` | `CacheFresh`, if `Reliable` and `[]Apart` |
| `BookingCorrect` | `NoDoubleBooking`, if `Reliable` and `[]Apart` |
| `NearestCorrect` | `NearestChosen`, if Redis does not fail and `[]Serial` |
| `RefusalCorrect` | `RefusalExplained`, if Redis does not fail and `[]Serial` |

`TaskOK` says what a call on its way to Redis or to the bus relies on: that the
status it will write is in the history, and the assignment it will announce is
recorded. Both sets only grow, so it stays true whatever others write. `Driver`
is finite (`DriverAssumption`), because the search orders the drivers in reach.

The other four do not hold of the code as it is: `driver_booking_race` shows a
double booking. The theorems say exactly what is missing. `Apart`: no
two calls have a write ahead of them for the same driver, while calls for
different drivers cross freely. `Reliable`: publications may fail, but no call is
cut short and Redis works. Then `AInv` is invariant: Redis and the table agree
about a driver but for what the one call at work on it is about to write, what
that call writes is what its transaction committed, and a driver with a ride is
not online. So a crossing or a lost write is the only source of a stale cache
and of a double booking. A search reads several drivers, so its two theorems ask
for `Serial`, one call at a time, but let every call be cut short; `SInv` says of
the list that a search still has before it that it is nearest first and that an
available driver missing from it is no nearer, and that one is missing only if
drivers as near fill the COUNT (`OrderIsOnto`). There is no bound on the drivers
and any COUNT. A service with one worker is `Serial` (`OneWorkerIsSerial`).

`PaymentServiceProofs`:

| Theorem | Property |
|---|---|
| `TypeCorrect` | `TypeOK` |
| `LedgerCorrect` | `LedgerIsAccount` |
| `EventsCorrect` | `EventsMatchLedger` |
| `RefundsStay` | `RefundIsFinal`: no handler changes a refunded payment or its ledger |

`LedgerIsAccount` alone is not inductive because of the insertion: the row must
be new. `Fresh`, `TaskOK` and `InsertUnique` say that a number not yet taken has
no row and that two insertions never have the same number. `EventsMatchLedger`
needs `OwesOK` and `OwesUnique`: a call between its commit and its publication
has its outcome in the ledger, nobody has published it, and no other call owes
the same one. They hold because the transition table lets each outcome enter a
ledger once (`LedgerFacts`), and the row lock makes the test and the write one
step.

`UserServiceProofs`:

| Theorem | Property |
|---|---|
| `TypeCorrect` | `TypeOK` |
| `TokenRemains` | `UnverifiedHasToken` |
| `VerificationSound` | `VerifiedByOwnToken` |
| `AcceptedTokensGone` | `AcceptedIsGone` |
| `DecisionsStand` | `LastDecisionStands` |

A token that is not stored yet is held by the one call that generated it, and
nobody presents it before it is stored (`Apart`). A DELETE deletes what it saw: a
call past it has the presented token in its snapshot or the token is gone
already (`Sound`). Users are never deleted and never lose their verification, so
what a call read of them stays true as far as it relies on it.

`NotificationServiceProofs`:

| Theorem | Property |
|---|---|
| `TypeCorrect` | `TypeOK` |
| `SentCorrect` | `SentIsMailed` |
| `QueuedCorrect` | `QueuedHasSender` |
| `MarksStay` | `ReadAndDeletedAreFinal` |

A row has one worker at most (`OneWorker`), whose mail leaves before its outcome
is written; what it reads again afterwards is its outcome, or a mark that came
in between, and neither is `queued`.

`RideFlowProofs`:

| Theorem | Property |
|---|---|
| `RideServiceInFlow`, `PaymentServiceInFlow` | the service in the flow implements the specification of its module |
| `DriverServiceInFlow` | every step of the driver-service in the flow is one of its module (its first state has the drivers registered and in reach) |
| `AssignedInFlow` | `AssignedIsRecorded` of the driver-service, in the flow |
| `MoneyCorrect` | `MoneyFollowsOutcome` |
| `DispatchCorrect` | `AssignmentsMatch`: one driver per ride, for rides offered once; what waits for the ride-service has its row |
| `DriversGetOneRide` | `OneRidePerDriver`, if no Redis command fails |
| `PlatformImplemented` | `ImplementsPlatform` |

By the first two, the invariants of the services hold in the flow
(`ServiceInvariants`). On top of them `Money` says: a message that waits for the
payment-service is of a ride whose end was announced; a ride waits on
`ride.completed` once at most and is not charged while it waits; and a payment
that is refunded, or that a call is about to refund, is of a ride whose
cancellation was announced. As each end is announced once (`OneOutcome`) and
only for what the ride became, the charges are of completed rides, one each. A
fault empties inboxes or ends a call, which can only take charges away.

`DispatchCorrect` crosses all three: `RequestInvariant` brings `RequestOK` of
the ride-service and `DriverInvariant` the invariant of the driver-service into
the flow. `Dispatch` then says that a ride in the inbox of `ride.requested` was
offered, is there once, has no assignment and is not being served (`WaitingOK`);
that the ride being served has no assignment (`ServingOK`); that no ride has two
(`Matched`); and that what waits on `driver.assigned` is recorded (`ToldOK`).
Faults of every kind, any number of them, are included: one loses a ride that
waits or is being served and never gives it twice.

That a driver gets one ride is another matter: it holds only while Redis does
(`DriversGetOneRide`), because the callback ignores the error of the write that
makes the driver busy. `Held` says that Redis shows every driver with a recorded
ride as busy, and that the one being made busy has none, so that none is chosen
twice. No driver calls in this module, so none goes online again, and the gRPC
call `AssignDriverToRide`, which assigns without an offer, is left out.

`PlatformImplemented` takes every step of the flow to a step of `RidePlatform` or
to a stutter, under the invariants above: `AskedOnce` for `Offer`, `Matched` and
`ServingOK` for `Assign`, the transition table for `End`, `ChargesOK` and
`OneOutcome` for `Charge`, `RefundsOK` for `Refund`. That no payment is charged
for two rides needs one more invariant, `ChargesNumbered`: the payments of the
callback have the numbers given out so far. No step does two of these things,
and none of the others (`Unseen`) shows.

`GatewayProofs`:

| Theorem | Property |
|---|---|
| `TypeCorrect` | `TypeOK` |
| `SuccessCorrect` | `SuccessIsExecuted` |
| `IdentityCorrect` | `OneIdentity` |
| `RefusalCorrect` | `RefusalChangedNothing` |
| `OwnHandlerCorrect` | `OwnHandler` |

A request is one run through the stages, so `GatewayInv` says of each stage what
is known by then: which route and handler it has (`Routed`), that a service only
starts on the call that was made (`Started`, `Made`), that what it reported is
among the answers of the method (`Reported`), what was written for which code
(`Written`), and for whom (`Identified`). Below it are lemmas about the tables:
every route has a handler, every handler a method and a client whose path some
server registers (`RouteHandlers`, `ClientsServed`), what a method reports when
it is done is OK and what it reports of an unknown error is a failure, never a
refusal (`ServicesSane`), and handlers of public routes ask for no user
(`PublicRouteHandlers`). They are proved entry by entry, so a wrong row in
a table fails there. `OwnHandlerCorrect` needs that no two of the patterns have
the same shape (`NoTwoAlike`), and that of the patterns that match the path of a
route its own is the most specific (`OwnPattern`).

Only model-checked: the liveness properties `RequestAnnounced`, `CompletedIsPaid`,
`RequestedMovesOn`, `MailIsRecorded` and `EveryRequestAnswered` and the refinement
with fairness, `ImplementsFairLifecycle`, because fairness and ENABLED are out of
the prover's reach. Every other property of a passing run is a theorem.

## 7. Not modelled

* Reads without effects (lists, receipts, history) are calls of the gateway that
  change nothing; what they return is left out, with the query parameters, the
  price formula and the distance on the sphere.
* Vehicles and ratings of drivers: one-row writes nothing else reads. `Grpc` has
  the statuses of their methods.
* In `RideFlow`: the driver's own calls, requests to process or refund, and the
  mails. The modules of those services have them.
* The gateway's shutdown, the verification of a JWT (its token is good or bad),
  and the contents of bodies beyond the members a handler looks for.
* The printing of the amount in a receipt: a conversion of a `float64` without
  state, whose rounding integers do not have.
* Password hashing, sessions and the expiry of tokens; the expiry is the refusal
  of `VerifyEmail`.
* The messages of the generated code (`*.pb.go`), validators, metrics, logging
  beyond the line of the gateway, configuration, deployment, the web client and
  the integration test.
