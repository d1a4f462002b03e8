------------------------------ MODULE RideFlow ------------------------------
(***************************************************************************)
(* The ride-service, the driver-service and the payment-service joined by  *)
(* NATS: ride.requested is answered by driver.assigned, ride.completed is  *)
(* charged and ride.cancelled refunded.  The three services are instances  *)
(* of their modules; a step of one is a step of the whole, and what it     *)
(* publishes goes to the inbox of the subscription it is for.              *)
(*                                                                         *)
(* Core NATS keeps nothing: a message waits in the memory of the process   *)
(* that subscribed to it, and goes with it.  The client library runs the   *)
(* callbacks of one subscription one after the other, so each subscription *)
(* is a worker of its service.  There is one process per service.          *)
(*                                                                         *)
(* Every driver is in reach from the start, online or not, and makes no    *)
(* calls.  A fault is one thing that goes wrong: a process dies, a query   *)
(* or a Redis command fails, a caller's context ends, a publication is     *)
(* lost.  A call ended so returns an error; a callback's error is logged   *)
(* and its message is gone.                                                *)
(***************************************************************************)
EXTENDS Integers, Sequences, FiniteSets

CONSTANTS Ride, Passenger, Driver, None,
          Client,         \* the gRPC calls in flight at once, per service
          PageSize,       \* of RideService
          Limit,          \* of DriverService
          Faults,         \* the faults the environment may inject
          MaxPayments,
          MaxApiPayments, \* bound on the calls of CreatePayment
          MaxFaults       \* bound on the faults

FaultKinds == {"crash", "query", "redis", "publish"}

ASSUME ClientAssumption == Client \cap STRING = {}
ASSUME PaymentAssumption == MaxPayments \in Nat
ASSUME DriverAssumption == IsFiniteSet(Driver)
ASSUME NoneAssumption == None \notin Ride \cup Passenger \cup Driver
ASSUME PageAssumption == PageSize \in Nat \ {0}
ASSUME LimitAssumption == Limit \in Nat \ {0}
ASSUME FaultsAssumption == Faults \subseteq FaultKinds
ASSUME FaultBoundAssumption == MaxFaults \in Nat

\* Only the driver-service talks to Redis.
NoRedis == Faults \ {"redis"}

\* The subscriptions, each named by its subject.
RideSub == "driver.assigned"
DriverSub == "ride.requested"
PaymentSubs == {"ride.completed", "ride.cancelled"}
Subscription == {RideSub, DriverSub} \cup PaymentSubs
-----------------------------------------------------------------------------
VARIABLES rStatus, rPassenger, rDriver, rHistory, rCreated, rEstimated, rTask, rSent,
          rTold,
          dDb, dLogged, dPlace, dCache, dGeo, dRecorded, dPublished, dBooked, dTask,
          pNext, pStatus, pRide, pLedger, pSent, pTask,
          inbox,   \* the messages waiting in each subscription
          charges, \* payments created by the callback for ride.completed, per ride
          refused, \* rides that the callback for ride.requested found nobody for
          faults   \* faults so far

rVars == <<rStatus, rPassenger, rDriver, rHistory, rCreated, rEstimated, rTask, rSent,
           rTold>>
dVars == <<dDb, dLogged, dPlace, dCache, dGeo, dRecorded, dPublished, dBooked, dTask>>
pVars == <<pNext, pStatus, pRide, pLedger, pSent, pTask>>
vars == <<rVars, dVars, pVars, inbox, charges, refused, faults>>

R == INSTANCE RideService
       WITH Worker <- Client \cup {RideSub}, MaxFeedback <- 0, Faults <- NoRedis,
            status <- rStatus, passenger <- rPassenger, driver <- rDriver,
            history <- rHistory, created <- rCreated, estimated <- rEstimated,
            task <- rTask, sent <- rSent, told <- rTold

D == INSTANCE DriverService
       WITH Worker <- {DriverSub}, Distance <- {1}, Radius <- 1,
            db <- dDb, logged <- dLogged, place <- dPlace, cache <- dCache,
            geo <- dGeo, recorded <- dRecorded, published <- dPublished,
            booked <- dBooked, task <- dTask

P == INSTANCE PaymentService
       WITH Worker <- Client \cup PaymentSubs, Faults <- NoRedis,
            next <- pNext, status <- pStatus, ride <- pRide, ledger <- pLedger,
            sent <- pSent, task <- pTask

\* The services when nothing goes wrong.
ROk == INSTANCE RideService
       WITH Worker <- Client \cup {RideSub}, MaxFeedback <- 0, Faults <- {},
            status <- rStatus, passenger <- rPassenger, driver <- rDriver,
            history <- rHistory, created <- rCreated, estimated <- rEstimated,
            task <- rTask, sent <- rSent, told <- rTold

DOk == INSTANCE DriverService
       WITH Worker <- {DriverSub}, Distance <- {1}, Radius <- 1, Faults <- {},
            db <- dDb, logged <- dLogged, place <- dPlace, cache <- dCache,
            geo <- dGeo, recorded <- dRecorded, published <- dPublished,
            booked <- dBooked, task <- dTask

POk == INSTANCE PaymentService
       WITH Worker <- Client \cup PaymentSubs, Faults <- {},
            next <- pNext, status <- pStatus, ride <- pRide, ledger <- pLedger,
            sent <- pSent, task <- pTask

Init ==
  /\ R!Init
  /\ P!Init
  /\ dDb \in [Driver -> {"online", "offline"}]
  /\ dLogged = [d \in Driver |-> {dDb[d]}]
  /\ dPlace = [d \in Driver |-> 1]
  /\ dCache = dDb
  /\ dGeo = [d \in Driver |-> 1]
  /\ dRecorded = {}
  /\ dPublished = {}
  /\ dBooked = [d \in Driver |-> {}]
  /\ dTask = [w \in {DriverSub} |-> D!Idle]
  /\ inbox = [s \in Subscription |-> <<>>]
  /\ charges = [r \in Ride |-> {}]
  /\ refused = {}
  /\ faults = 0
-----------------------------------------------------------------------------
\* Messages.

\* A message of the ride-service is the ride, one of the driver-service the
\* assignment.  What a step publishes shows in the service's own record.
Published(s) ==
  IF s = RideSub THEN dPublished' \ dPublished
  ELSE {r \in Ride : rSent'[r][s] > rSent[r][s]}

\* Delivery to the subscriptions; a step publishes one message at most.
Deliver ==
  inbox' = [s \in Subscription |->
              IF Published(s) = {} THEN inbox[s]
              ELSE Append(inbox[s], CHOOSE m \in Published(s) : TRUE)]

\* The subscription's goroutine takes its next message.
Receive(s, m) ==
  /\ inbox[s] # <<>>
  /\ m = Head(inbox[s])
  /\ inbox' = [inbox EXCEPT ![s] = Tail(@)]

\* Something goes wrong.
Fault == faults < MaxFaults /\ faults' = faults + 1

\* A step is a fault unless it is one of those that the service takes when
\* nothing goes wrong.
FaultUnless(ok) == IF ok THEN UNCHANGED faults ELSE Fault
-----------------------------------------------------------------------------
\* The ride-service.

RideCall ==
  /\ \E w \in Client : R!Begin(w)
  /\ UNCHANGED <<dVars, pVars, charges, refused, faults>>
  /\ Deliver

\* The callback for driver.assigned; a refused assignment is logged only.
ReceiveAssigned ==
  /\ R!At(RideSub, "idle")
  /\ \E r \in Ride, d \in Driver :
       /\ Receive(RideSub, <<d, r>>)
       /\ \/ R!AssignDriver(RideSub, r, d)
          \/ rStatus[r] # "requested" /\ UNCHANGED rVars
  /\ UNCHANGED <<dVars, pVars, charges, refused, faults>>

RideContinue(w) ==
  /\ R!Continue(w)
  /\ UNCHANGED <<dVars, pVars, charges, refused>>
  /\ Deliver
  /\ FaultUnless(ROk!Continue(w))

\* The re-read fails, or the context of the call ended before it: the ride is
\* written and nothing is announced.
RideFails(w) ==
  /\ R!QueryFails(w)
  /\ Fault
  /\ UNCHANGED <<dVars, pVars, inbox, charges, refused>>
-----------------------------------------------------------------------------
\* The driver-service.

ReceiveRequested ==
  /\ \E r \in Ride : Receive(DriverSub, r) /\ D!Search(DriverSub, r)
  /\ UNCHANGED <<rVars, pVars, charges, refused, faults>>

DriverContinue ==
  /\ D!Continue(DriverSub)
  /\ UNCHANGED <<rVars, pVars, charges>>
  /\ refused' = IF D!Refuse(DriverSub) THEN refused \cup {dTask[DriverSub].ride}
                ELSE refused
  /\ Deliver
  /\ FaultUnless(DOk!Continue(DriverSub))

DriverFails ==
  /\ D!QueryFails(DriverSub)
  /\ Fault
  /\ UNCHANGED <<rVars, pVars, inbox, charges, refused>>
-----------------------------------------------------------------------------
\* The payment-service.

\* CreatePayment; the requests to process or refund are left to the module of
\* the service.
PaymentCall ==
  /\ pNext <= MaxApiPayments
  /\ \E w \in Client, r \in Ride : P!Create(w, r, FALSE)
  /\ UNCHANGED <<rVars, dVars, inbox, charges, refused, faults>>

\* A callback whose message is delivered again and again.
ReceiveCompleted_Redelivered ==
  /\ inbox["ride.completed"] # <<>>
  /\ LET r == Head(inbox["ride.completed"])
     IN  /\ P!Create("ride.completed", r, TRUE)
         /\ charges' = [charges EXCEPT ![r] = @ \cup {pNext}]
  /\ UNCHANGED <<rVars, dVars, inbox, refused, faults>>

\* The callback for ride.completed: Create, and Process when it is through.
ReceiveCompleted ==
  /\ \E r \in Ride :
       /\ Receive("ride.completed", r)
       /\ P!Create("ride.completed", r, TRUE)
       /\ charges' = [charges EXCEPT ![r] = @ \cup {pNext}]
  /\ UNCHANGED <<rVars, dVars, refused, faults>>

\* The callback for ride.cancelled; most rides have no payment to refund.
ReceiveCancelled ==
  /\ P!At("ride.cancelled", "idle")
  /\ \E r \in Ride :
       /\ Receive("ride.cancelled", r)
       /\ \/ P!GetByRide("ride.cancelled", r)
          \/ P!PaymentsOf(r) = {} /\ UNCHANGED pVars
  /\ UNCHANGED <<rVars, dVars, charges, refused, faults>>

PaymentContinue(w) ==
  /\ P!Continue(w)
  /\ UNCHANGED <<rVars, dVars, inbox, charges, refused>>
  /\ FaultUnless(POk!Continue(w))

PaymentFails(w) ==
  /\ P!QueryFails(w)
  /\ Fault
  /\ UNCHANGED <<rVars, dVars, inbox, charges, refused>>
-----------------------------------------------------------------------------
\* A process dies with its calls and with the messages it was holding.  What
\* is published while it is down is lost too, as if it had crashed later.
Lose(subs) ==
  inbox' = [s \in Subscription |-> IF s \in subs THEN <<>> ELSE inbox[s]]

Crash ==
  /\ Fault
  /\ \/ R!Crash /\ Lose({RideSub}) /\ UNCHANGED <<dVars, pVars>>
     \/ D!Crash /\ Lose({DriverSub}) /\ UNCHANGED <<rVars, pVars>>
     \/ P!Crash /\ Lose(PaymentSubs) /\ UNCHANGED <<rVars, dVars>>
  /\ UNCHANGED <<charges, refused>>

\* A callback fails at its first query or Redis command: the transaction of
\* AssignDriver, GEOSEARCH, GetByRide.  The one for ride.completed has no query
\* before its insert, which PaymentFails lets fail.
CallbackFails ==
  /\ Fault
  /\ \E s \in Subscription :
       /\ \/ s = RideSub /\ R!At(s, "idle") /\ "query" \in Faults
          \/ s = DriverSub /\ D!At(s, "idle") /\ "redis" \in Faults
          \/ s = "ride.cancelled" /\ P!At(s, "idle") /\ "query" \in Faults
       /\ inbox[s] # <<>>
       /\ inbox' = [inbox EXCEPT ![s] = Tail(@)]
  /\ UNCHANGED <<rVars, dVars, pVars, charges, refused>>

\* What the processes do by themselves.
Callback == \/ ReceiveAssigned \/ ReceiveRequested
            \/ ReceiveCompleted \/ ReceiveCancelled

\* A call goes on, or is cut short with an error.
RideMoves(w) == RideContinue(w) \/ RideFails(w)
DriverMoves == DriverContinue \/ DriverFails
PaymentMoves(w) == PaymentContinue(w) \/ PaymentFails(w)

Next ==
  \/ RideCall \/ PaymentCall \/ Callback \/ CallbackFails
  \/ \E w \in Client \cup {RideSub} : RideMoves(w)
  \/ DriverMoves
  \/ \E w \in Client \cup PaymentSubs : PaymentMoves(w)
  \/ Crash

Spec == Init /\ [][Next]_vars

\* A goroutine inside a handler or a callback goes on or returns with an error,
\* and one whose subscription holds a message takes it; the users need not call.
FairSpec ==
  /\ Spec
  /\ \A w \in Client \cup {RideSub} : WF_vars(RideMoves(w))
  /\ WF_vars(DriverMoves)
  /\ \A w \in Client \cup PaymentSubs : WF_vars(PaymentMoves(w))
  /\ WF_vars(ReceiveAssigned) /\ WF_vars(ReceiveRequested)
  /\ WF_vars(ReceiveCompleted) /\ WF_vars(ReceiveCancelled)
-----------------------------------------------------------------------------
\* Properties.

\* Across the services: the platform by itself charges a ride once at most,
\* and only a ride that was completed, and gives money back only for a ride
\* that was cancelled (one the user had paid in advance), whatever handlers of
\* the ride-service race and whatever goes wrong.
MoneyFollowsOutcome ==
  /\ \A r \in Ride :
       /\ \A p, q \in charges[r] : p = q
       /\ charges[r] # {} => rStatus[r] = "completed"
  /\ \A p \in P!Payment :
       pStatus[p] = "refunded" => rStatus[pRide[p]] = "cancelled"

\* The three services together, with their messages, races and faults, are the
\* platform: every step of theirs offers, assigns, ends, charges or refunds a
\* ride as RidePlatform allows it, or does nothing it can see.
Platform == INSTANCE RidePlatform
  WITH Payment  <- P!Payment,
       outcome  <- [r \in Ride |-> IF rStatus[r] \in R!Terminal THEN rStatus[r] ELSE "open"],
       offered  <- {r \in Ride : rSent[r]["ride.requested"] > 0},
       assigned <- dRecorded,
       charged  <- UNION {charges[r] \X {r} : r \in Ride},
       refunded <- {<<p, pRide[p]>> : p \in {q \in P!Payment : pStatus[q] = "refunded"}}

ImplementsPlatform == Platform!Spec

\* docs/demo-script.md: a payment is created for a completed ride and goes on
\* to succeeded, unless something went wrong: no interleaving of the handlers and
\* callbacks loses the charge.
CompletedIsPaid ==
  \A r \in Ride :
    rStatus[r] = "completed"
      ~> \/ faults > 0
         \/ \E p \in charges[r] : pStatus[p] = "succeeded"

\* A requested ride does not stay requested, unless something went wrong or the
\* search found nobody: it is assigned, or cancelled.
RequestedMovesOn ==
  \A r \in Ride :
    rStatus[r] = "requested"
      ~> faults > 0 \/ r \in refused \/ rStatus[r] # "requested"

\* docs/architecture.md: delivery is at least once; what is published on
\* ride.completed gets to the callback that charges the ride.
AtLeastOnce ==
  \A r \in Ride : rSent[r]["ride.completed"] > 0 ~> charges[r] # {}
=============================================================================
