--------------------------- MODULE RideFlowProofs ---------------------------
(***************************************************************************)
(* Theorems about RideFlow for any number of rides, drivers, clients,      *)
(* payments and faults of any kind: every service in the flow is the service of its   *)
(* own module, so what is proved of each by itself carries over to what    *)
(* passes between them: the money, and the drivers that rides are given.   *)
(***************************************************************************)
EXTENDS RideFlow, TLAPS

\* The theorems of the services, for the instances of the flow.
RP == INSTANCE RideServiceProofs
        WITH Worker <- Client \cup {RideSub}, MaxFeedback <- 0, Faults <- NoRedis,
             status <- rStatus, passenger <- rPassenger, driver <- rDriver,
             history <- rHistory, created <- rCreated, estimated <- rEstimated,
             task <- rTask, sent <- rSent, told <- rTold

PP == INSTANCE PaymentServiceProofs
        WITH Worker <- Client \cup PaymentSubs, Faults <- NoRedis,
             next <- pNext, status <- pStatus, ride <- pRide, ledger <- pLedger,
             sent <- pSent, task <- pTask

DP == INSTANCE DriverServiceProofs
        WITH Worker <- {DriverSub}, Distance <- {1}, Radius <- 1,
             db <- dDb, logged <- dLogged, place <- dPlace, cache <- dCache,
             geo <- dGeo, recorded <- dRecorded, published <- dPublished,
             booked <- dBooked, task <- dTask

\* The assumptions of the services' modules hold of what the flow gives them.
LEMMA ServiceConstants ==
  /\ NoRedis \subseteq RP!FaultKinds /\ NoRedis \subseteq PP!FaultKinds
  /\ Faults \subseteq DP!FaultKinds
  /\ 0 \in Nat /\ 1 \in Nat /\ {1} \subseteq Nat
  /\ PageSize \in Nat \ {0} /\ Limit \in Nat \ {0} /\ MaxPayments \in Nat
  /\ None \notin Ride \cup Passenger \cup Driver
  /\ None \notin Ride /\ None \notin Driver \cup Ride
BY FaultsAssumption, PageAssumption, LimitAssumption, PaymentAssumption, NoneAssumption
   DEF FaultKinds, NoRedis, RP!FaultKinds, PP!FaultKinds, DP!FaultKinds
-----------------------------------------------------------------------------
\* The services in the flow.

\* A step of the flow is a step of the ride-service, or leaves it alone.
LEMMA RideStep == [Next]_vars => [R!Next]_(R!vars)
<1>. SUFFICES ASSUME [Next]_vars PROVE R!Next \/ UNCHANGED R!vars
  OBVIOUS
<1>. USE DEF R!vars, R!tables, R!events, rVars
<1>1. CASE RideCall
  BY <1>1 DEF RideCall, R!Next
<1>2. CASE ReceiveAssigned
  BY <1>2 DEF ReceiveAssigned, R!Next, R!Begin
<1>3. ASSUME NEW w \in Client \cup {RideSub}, RideMoves(w)
      PROVE  R!Next
  BY <1>3 DEF RideMoves, RideContinue, RideFails, R!Next
<1>4. CASE Crash
  BY <1>4 DEF Crash, R!Next
<1>5. CASE \/ PaymentCall \/ ReceiveCompleted \/ ReceiveCancelled
           \/ ReceiveRequested \/ DriverMoves \/ CallbackFails
  BY <1>5 DEF PaymentCall, ReceiveRequested, ReceiveCompleted, ReceiveCancelled,
              DriverMoves, DriverContinue, DriverFails, CallbackFails
<1>6. ASSUME NEW w \in Client \cup PaymentSubs, PaymentMoves(w)
      PROVE  UNCHANGED R!vars
  BY <1>6 DEF PaymentMoves, PaymentContinue, PaymentFails
<1>7. CASE UNCHANGED vars
  BY <1>7 DEF vars
<1>. QED
  BY <1>1, <1>2, <1>3, <1>4, <1>5, <1>6, <1>7 DEF Next, Callback

\* A step of the flow is a step of the payment-service, or leaves it alone.
LEMMA PaymentStep == [Next]_vars => [P!Next]_(P!vars)
<1>. SUFFICES ASSUME [Next]_vars PROVE P!Next \/ UNCHANGED P!vars
  OBVIOUS
<1>. USE DEF P!vars, P!tables, pVars
<1>1. CASE PaymentCall \/ ReceiveCompleted
  BY <1>1 DEF PaymentCall, ReceiveCompleted, P!Next, P!Begin, PaymentSubs
<1>2. CASE ReceiveCancelled
  BY <1>2 DEF ReceiveCancelled, P!Next, P!Begin, PaymentSubs
<1>3. ASSUME NEW w \in Client \cup PaymentSubs, PaymentMoves(w)
      PROVE  P!Next
  BY <1>3 DEF PaymentMoves, PaymentContinue, PaymentFails, P!Next
<1>4. CASE Crash
  BY <1>4 DEF Crash, P!Next
<1>5. CASE RideCall \/ ReceiveAssigned \/ ReceiveRequested \/ DriverMoves \/ CallbackFails
  BY <1>5 DEF RideCall, ReceiveAssigned, ReceiveRequested, DriverMoves, DriverContinue,
              DriverFails, CallbackFails
<1>6. ASSUME NEW w \in Client \cup {RideSub}, RideMoves(w)
      PROVE  UNCHANGED P!vars
  BY <1>6 DEF RideMoves, RideContinue, RideFails
<1>7. CASE UNCHANGED vars
  BY <1>7 DEF vars
<1>. QED
  BY <1>1, <1>2, <1>3, <1>4, <1>5, <1>6, <1>7 DEF Next, Callback

\* The ride-service in the flow, driven by messages and losing its inbox in a
\* crash, does nothing that the ride-service by itself does not.
THEOREM RideServiceInFlow == Spec => R!Spec
<1>1. Init => R!Init
  BY DEF Init
<1>. QED
  BY <1>1, RideStep, PTL DEF Spec, R!Spec

\* The payment-service in the flow, whose callbacks are started by messages,
\* does nothing that the payment-service by itself does not.
THEOREM PaymentServiceInFlow == Spec => P!Spec
<1>1. Init => P!Init
  BY DEF Init
<1>. QED
  BY <1>1, PaymentStep, PTL DEF Spec, P!Spec

\* The steps that concern the driver-service.
LEMMA DriverAlone ==
  [Next]_vars =>
    DriverContinue \/ DriverFails \/ ReceiveRequested \/ D!Crash \/ UNCHANGED dVars
<1>. SUFFICES ASSUME [Next]_vars, ~DriverContinue, ~DriverFails, ~ReceiveRequested, ~D!Crash
              PROVE  UNCHANGED dVars
  OBVIOUS
<1>1. CASE \/ RideCall \/ PaymentCall \/ ReceiveAssigned \/ ReceiveCompleted
           \/ ReceiveCancelled \/ CallbackFails
  BY <1>1 DEF RideCall, PaymentCall, ReceiveAssigned, ReceiveCompleted,
              ReceiveCancelled, CallbackFails
<1>2. ASSUME NEW w, RideMoves(w) \/ PaymentMoves(w)
      PROVE  UNCHANGED dVars
  BY <1>2 DEF RideMoves, RideContinue, RideFails, PaymentMoves, PaymentContinue, PaymentFails
<1>3. CASE Crash
  BY <1>3 DEF Crash
<1>4. CASE UNCHANGED vars
  BY <1>4 DEF vars
<1>. QED
  BY <1>1, <1>2, <1>3, <1>4 DEF Next, Callback, DriverMoves

\* A step of the flow is a step of the driver-service, or leaves it alone.
LEMMA DriverStep == [Next]_vars => [D!Next]_(D!vars)
<1>. SUFFICES ASSUME [Next]_vars PROVE D!Next \/ UNCHANGED D!vars
  OBVIOUS
<1>1. CASE ReceiveRequested
  BY <1>1 DEF ReceiveRequested, D!Next, D!Begin
<1>2. CASE DriverContinue \/ DriverFails
  BY <1>2 DEF DriverContinue, DriverFails, D!Next
<1>3. CASE D!Crash
  BY <1>3 DEF D!Next
<1>4. CASE UNCHANGED dVars
  BY <1>4 DEF D!vars, D!tables, D!redis, dVars
<1>. QED
  BY <1>1, <1>2, <1>3, <1>4, DriverAlone

\* Every step of the driver-service in the flow is one of its own module; only
\* its first state is another, with every driver registered and in reach.
THEOREM DriverServiceInFlow == Spec => [][D!Next]_(D!vars)
BY DriverStep, PTL DEF Spec

\* The instances of the module and of its proofs are the same specification.
LEMMA SameRideService ==
  /\ R!Init <=> RP!Init
  /\ R!Next <=> RP!Next
  /\ R!vars = RP!vars
<1>1. R!Init <=> RP!Init
  BY DEF R!Init, RP!Init, R!Idle, RP!Idle, R!Subject, RP!Subject
<1>2. R!Statuses = RP!Statuses /\ R!Terminal = RP!Terminal
  BY DEF R!Statuses, RP!Statuses, R!allowedTransitions, RP!allowedTransitions,
         R!Terminal, RP!Terminal
<1>c. \A S : R!Cardinality(S) = RP!Cardinality(S)
  BY DEF R!Cardinality, RP!Cardinality, R!IsFiniteSet, RP!IsFiniteSet
<1>p. \A p : R!RidesOf(p) = RP!RidesOf(p)
  BY <1>c DEF R!RidesOf, RP!RidesOf
<1>. USE DEF R!tables, RP!tables, R!events, RP!events, R!Idle, RP!Idle, R!At, RP!At,
             R!Exists, RP!Exists, R!Return, RP!Return, R!Goto, RP!Goto
<1>3. R!vars = RP!vars
  BY DEF R!vars, RP!vars
<1>4. ASSUME NEW w \in Client \cup {RideSub}
      PROVE  R!Begin(w) <=> RP!Begin(w)
  BY <1>2, <1>p DEF R!Begin, RP!Begin, R!ListByUser, RP!ListByUser,
         R!IsActiveStatus, RP!IsActiveStatus, R!Commit, RP!Commit,
         R!UpdateStatusWithHistory, RP!UpdateStatusWithHistory,
         R!AssignDriver, RP!AssignDriver, R!CanTransition, RP!CanTransition,
         R!allowedTransitions, RP!allowedTransitions
<1>. USE DEF R!Publish, RP!Publish
<1>5. ASSUME NEW w \in Client \cup {RideSub}
      PROVE  R!Continue(w) <=> RP!Continue(w)
  BY <1>2 DEF R!Continue, RP!Continue, R!CreateWithHistory, RP!CreateWithHistory,
         R!SavePriceEstimation, RP!SavePriceEstimation, R!GetByID, RP!GetByID,
         R!PublishRequested, RP!PublishRequested, R!PublishScheduled, RP!PublishScheduled,
         R!PublishStatusChanged, RP!PublishStatusChanged,
         R!PublishChange, RP!PublishChange, R!PublishOutcome, RP!PublishOutcome,
         R!OutcomeSubject, RP!OutcomeSubject
<1>6. R!Next <=> RP!Next
  BY <1>4, <1>5 DEF R!Next, RP!Next, R!QueryFails, RP!QueryFails, R!Crash, RP!Crash,
         R!Reject, RP!Reject, R!Rate, RP!Rate
<1>. QED
  BY <1>1, <1>3, <1>6

\* The same of the payment-service.
LEMMA SamePaymentService ==
  /\ P!Init <=> PP!Init
  /\ P!Next <=> PP!Next
  /\ P!vars = PP!vars
<1>1. P!Init <=> PP!Init
  BY DEF P!Init, PP!Init, PP!Idle, P!Idle, PP!Outcome, P!Outcome, P!Payment, PP!Payment
<1>2. P!vars = PP!vars
  BY DEF P!vars, PP!vars, P!tables, PP!tables
<1>. USE DEF P!Payment, PP!Payment, P!Outcome, PP!Outcome, P!tables, PP!tables, P!Idle, PP!Idle,
             P!Call, PP!Call, P!At, PP!At, P!Goto, PP!Goto, P!Return, PP!Return,
             P!CanTransition, PP!CanTransition, P!Exists, PP!Exists
<1>3. ASSUME NEW w \in Client \cup PaymentSubs
      PROVE  P!Begin(w) <=> PP!Begin(w)
  BY DEF P!Begin, PP!Begin, P!Create, PP!Create, P!Request, PP!Request,
         P!GetByRide, PP!GetByRide, P!PaymentsOf, PP!PaymentsOf
<1>4. ASSUME NEW w \in Client \cup PaymentSubs
      PROVE  P!Continue(w) <=> PP!Continue(w)
  BY DEF P!Continue, PP!Continue, P!CreateWithEvent, PP!CreateWithEvent,
         P!PublishCreated, PP!PublishCreated, P!RefuseUpdate, PP!RefuseUpdate,
         P!UpdateStatusWithEvent, PP!UpdateStatusWithEvent, P!GetByID, PP!GetByID,
         P!PublishOutcome, PP!PublishOutcome
<1>5. P!Next <=> PP!Next
  BY <1>3, <1>4 DEF P!Next, PP!Next, P!QueryFails, PP!QueryFails, P!Crash, PP!Crash
<1>. QED
  BY <1>1, <1>2, <1>5

\* The invariants of the two services hold in the flow.
LEMMA ServiceInvariants == Spec => [](RP!IInv /\ PP!IInv)
<1>2. RP!Spec => []RP!IInv
  BY ServiceConstants, RP!SpecIInv
<1>3. PP!Spec => []PP!IInv
  BY ServiceConstants, PP!SpecIInv
<1>4. R!Spec => RP!Spec
  <2>1. [R!Next]_(R!vars) => [RP!Next]_(RP!vars)
    BY SameRideService DEF R!vars, RP!vars, R!tables, RP!tables, R!events, RP!events
  <2>. QED
    BY <2>1, SameRideService, PTL DEF R!Spec, RP!Spec
<1>5. P!Spec => PP!Spec
  <2>1. [P!Next]_(P!vars) => [PP!Next]_(PP!vars)
    BY SamePaymentService DEF P!vars, PP!vars, P!tables, PP!tables
  <2>. QED
    BY <2>1, SamePaymentService, PTL DEF P!Spec, PP!Spec
<1>. QED
  BY <1>2, <1>3, <1>4, <1>5, RideServiceInFlow, PaymentServiceInFlow, PTL
-----------------------------------------------------------------------------
\* The inductive invariant of the money.

\* The end of a ride was announced on subject o.
Announced(r, o) == rSent[r][o] > 0

\* A message in an inbox of the payment-service is of a ride whose end was
\* announced; that on ride.completed comes once, and nothing is charged before.
InboxOK ==
  /\ DOMAIN inbox = Subscription
  /\ \A o \in PaymentSubs :
       /\ inbox[o] \in Seq(Ride)
       /\ \A i \in 1 .. Len(inbox[o]) : Announced(inbox[o][i], o)

ChargesOK ==
  LET q == inbox["ride.completed"]
  IN  /\ charges \in [Ride -> SUBSET Nat]
      /\ \A r \in Ride :
           /\ \A p1, p2 \in charges[r] : p1 = p2
           /\ charges[r] # {} => Announced(r, "ride.completed")
      /\ \A i, j \in 1 .. Len(q) : q[i] = q[j] => i = j
      /\ \A i \in 1 .. Len(q) : charges[q[i]] = {}

\* A payment of a ride whose cancellation was announced.
Refundable(p) ==
  /\ p \in P!Payment /\ pStatus[p] # "absent" /\ pRide[p] \in Ride
  /\ Announced(pRide[p], "ride.cancelled")

RefundsOK ==
  /\ \A p \in P!Payment : pStatus[p] = "refunded" => Refundable(p)
  /\ \A w \in Client \cup PaymentSubs :
       pTask[w].to = "refunded" => Refundable(pTask[w].pay)

Money == InboxOK /\ ChargesOK /\ RefundsOK
-----------------------------------------------------------------------------
\* The end of a ride is announced once on each subject.
LEMMA AnnouncedOnce ==
  ASSUME RP!IInv, [Next]_vars, NEW r \in Ride, NEW o \in PaymentSubs
  PROVE  /\ rSent[r][o] \in Nat
         /\ rSent'[r][o] = rSent[r][o] \/ (rSent[r][o] = 0 /\ rSent'[r][o] = 1)
<1>0. o \in {"ride.completed", "ride.cancelled"} /\ o \in RP!Subject
  BY DEF PaymentSubs, RP!Subject
<1>t. rSent \in [Ride -> [RP!Subject -> Nat]]
  BY DEF RP!IInv, RP!TypeOK
<1>1. [RP!Next]_(RP!vars)
  BY RideStep, SameRideService DEF R!vars, RP!vars, R!tables, RP!tables, R!events, RP!events
<1>2. (\E q \in Ride : RP!Creates(q) \/ RP!Advances(q) \/ RP!Announces(q)) \/ RP!Quiet
  BY <1>1, ServiceConstants, RP!StepKinds
<1>3. ASSUME NEW q \in Ride, RP!Announces(q)
      PROVE  rSent'[r][o] = rSent[r][o] \/ (rSent[r][o] = 0 /\ rSent'[r][o] = 1)
  BY <1>0, <1>3, <1>t DEF RP!Announces, RP!OutcomeSubject
<1>4. ASSUME NEW q \in Ride, RP!Creates(q) \/ RP!Advances(q)
      PROVE  rSent'[r][o] = rSent[r][o]
  BY <1>4 DEF RP!Creates, RP!Advances
<1>5. CASE RP!Quiet
  BY <1>0, <1>t, <1>5 DEF RP!Quiet
<1>. QED
  BY <1>0, <1>t, <1>2, <1>3, <1>4, <1>5

\* An announcement is not taken back.
LEMMA AnnouncedStays ==
  ASSUME RP!IInv, [Next]_vars, NEW r \in Ride, NEW o \in PaymentSubs, Announced(r, o)
  PROVE  Announced(r, o)'
BY AnnouncedOnce DEF Announced

\* What a delivery adds to an inbox was announced just now.
LEMMA DeliverStep ==
  ASSUME RP!IInv, Money, [Next]_vars, Deliver, UNCHANGED charges
  PROVE  InboxOK' /\ ChargesOK'
<1>. USE DEF Money
<1>1. ASSUME NEW o \in PaymentSubs
      PROVE  \/ inbox'[o] = inbox[o]
             \/ \E m \in Ride : /\ ~Announced(m, o) /\ Announced(m, o)'
                                /\ inbox'[o] = Append(inbox[o], m)
  <2>1. o # RideSub /\ o \in Subscription
    BY DEF PaymentSubs, RideSub, Subscription
  <2>2. Published(o) = {r \in Ride : rSent'[r][o] > rSent[r][o]}
    BY <2>1 DEF Published
  <2>3. \A m \in Published(o) : m \in Ride /\ ~Announced(m, o) /\ Announced(m, o)'
    BY <2>2, AnnouncedOnce DEF Announced
  <2>4. inbox'[o] = IF Published(o) = {} THEN inbox[o]
                    ELSE Append(inbox[o], CHOOSE m \in Published(o) : TRUE)
    BY <2>1 DEF Deliver
  <2>. QED
    BY <2>3, <2>4
<1>2. InboxOK'
  <2>1. DOMAIN inbox' = Subscription
    BY DEF Deliver
  <2>2. ASSUME NEW o \in PaymentSubs
        PROVE  /\ inbox'[o] \in Seq(Ride)
               /\ \A i \in 1 .. Len(inbox'[o]) : rSent'[inbox'[o][i]][o] > 0
    <3>1. /\ inbox[o] \in Seq(Ride)
          /\ \A i \in 1 .. Len(inbox[o]) : rSent[inbox[o][i]][o] > 0
      BY DEF InboxOK, Announced
    <3>2. \A r \in Ride : rSent[r][o] > 0 => rSent'[r][o] > 0
      BY AnnouncedStays DEF Announced
    <3>3. CASE inbox'[o] = inbox[o]
      BY <3>1, <3>2, <3>3
    <3>4. ASSUME NEW m \in Ride, rSent'[m][o] > 0, inbox'[o] = Append(inbox[o], m)
          PROVE  /\ inbox'[o] \in Seq(Ride)
                 /\ \A i \in 1 .. Len(inbox'[o]) : rSent'[inbox'[o][i]][o] > 0
      BY <3>1, <3>2, <3>4
    <3>. QED
      BY <1>1, <3>3, <3>4 DEF Announced
  <2>. QED
    BY <2>1, <2>2 DEF InboxOK, Announced
<1>3. ChargesOK'
  <2>. DEFINE q == inbox["ride.completed"]
  <2>1. "ride.completed" \in PaymentSubs /\ q \in Seq(Ride)
    BY DEF PaymentSubs, InboxOK
  <2>2. \A i \in 1 .. Len(q) : q[i] \in Ride /\ Announced(q[i], "ride.completed")
    BY <2>1 DEF InboxOK
  <2>3. \A r \in Ride : charges[r] # {} => Announced(r, "ride.completed")'
    BY <2>1, AnnouncedStays DEF ChargesOK
  <2>4. CASE q' = q
    BY <2>3, <2>4 DEF ChargesOK, Announced
  <2>5. ASSUME NEW m \in Ride, ~Announced(m, "ride.completed"), q' = Append(q, m)
        PROVE  ChargesOK'
    <3>1. charges[m] = {} /\ \A i \in 1 .. Len(q) : q[i] # m
      BY <2>2, <2>5 DEF ChargesOK
    <3>2. \A i, j \in 1 .. Len(q') : q'[i] = q'[j] => i = j
      BY <2>1, <2>5, <3>1 DEF ChargesOK
    <3>3. \A i \in 1 .. Len(q') : charges[q'[i]] = {}
      BY <2>1, <2>5, <3>1 DEF ChargesOK
    <3>. QED
      BY <2>3, <3>2, <3>3 DEF ChargesOK, Announced
  <2>. QED
    BY <1>1, <2>1, <2>4, <2>5
<1>. QED
  BY <1>2, <1>3

\* A step that publishes nothing for the payment-service and takes nothing from
\* the inboxes it reads keeps them.
LEMMA TakeStep ==
  ASSUME RP!IInv, Money, [Next]_vars, UNCHANGED <<rSent, charges>>,
         DOMAIN inbox' = Subscription,
         \A o \in PaymentSubs :
           \/ inbox'[o] = inbox[o] \/ inbox'[o] = <<>>
           \/ inbox[o] # <<>> /\ inbox'[o] = Tail(inbox[o])
  PROVE  InboxOK' /\ ChargesOK'
<1>. USE DEF Money
<1>1. ASSUME NEW o \in PaymentSubs
      PROVE  /\ inbox[o] \in Seq(Ride) /\ inbox'[o] \in Seq(Ride)
             /\ \E k \in 0 .. Len(inbox[o]) :
                  /\ Len(inbox'[o]) = Len(inbox[o]) - k
                  /\ \A i \in 1 .. Len(inbox'[o]) :
                       i + k \in 1 .. Len(inbox[o]) /\ inbox'[o][i] = inbox[o][i + k]
  <2>1. inbox[o] \in Seq(Ride)
    BY DEF InboxOK
  <2>2. CASE inbox'[o] = inbox[o]
    BY <2>1, <2>2
  <2>3. CASE inbox'[o] = <<>>
    BY <2>1, <2>3
  <2>4. CASE inbox[o] # <<>> /\ inbox'[o] = Tail(inbox[o])
    BY <2>1, <2>4
  <2>. QED
    BY <2>2, <2>3, <2>4, <2>1
<1>2. InboxOK'
  BY <1>1 DEF InboxOK, Announced
<1>3. ChargesOK'
  <2>1. "ride.completed" \in PaymentSubs
    BY DEF PaymentSubs
  <2>. DEFINE q == inbox["ride.completed"]
  <2>2. PICK k \in 0 .. Len(q) :
          /\ Len(q') = Len(q) - k
          /\ \A i \in 1 .. Len(q') : i + k \in 1 .. Len(q) /\ q'[i] = q[i + k]
    BY <1>1, <2>1
  <2>3. \A i, j \in 1 .. Len(q) : q[i] = q[j] => i = j
    BY DEF ChargesOK
  <2>4. \A i \in 1 .. Len(q) : charges[q[i]] = {}
    BY DEF ChargesOK
  <2>5. ASSUME NEW i \in 1 .. Len(q'), NEW j \in 1 .. Len(q'), q'[i] = q'[j]
        PROVE  i = j
    <3>1. i \in Nat /\ j \in Nat /\ k \in Nat
      BY <1>1, <2>1
    <3>. QED
      BY <2>2, <2>3, <2>5, <3>1
  <2>6. \A i \in 1 .. Len(q') : charges'[q'[i]] = {}
    BY <2>2, <2>4
  <2>. QED
    BY <2>5, <2>6 DEF ChargesOK, Announced
<1>. QED
  BY <1>2, <1>3

\* The callback of ride.completed charges the ride of its message.
LEMMA ChargeStep ==
  ASSUME RP!IInv, PP!IInv, Money, [Next]_vars, ReceiveCompleted
  PROVE  InboxOK' /\ ChargesOK'
<1>. USE DEF Money
<1>. DEFINE c == "ride.completed"
            q == inbox[c]
<1>1. PICK r \in Ride :
        /\ q # <<>> /\ r = Head(q)
        /\ inbox' = [inbox EXCEPT ![c] = Tail(q)]
        /\ charges' = [charges EXCEPT ![r] = @ \cup {pNext}]
  BY DEF ReceiveCompleted, Receive
<1>2. c \in PaymentSubs /\ c \in Subscription /\ UNCHANGED rVars
  BY DEF ReceiveCompleted, PaymentSubs, Subscription
<1>3. q \in Seq(Ride) /\ inbox'[c] = Tail(q)
  BY <1>1, <1>2 DEF InboxOK
<1>4. /\ Len(q) > 0 /\ q[1] = r /\ Len(Tail(q)) = Len(q) - 1
      /\ \A i \in 1 .. Len(Tail(q)) : i + 1 \in 1 .. Len(q) /\ Tail(q)[i] = q[i + 1]
  BY <1>1, <1>3
<1>5. InboxOK'
  <2>1. ASSUME NEW o \in PaymentSubs
        PROVE  /\ inbox'[o] \in Seq(Ride)
               /\ \A i \in 1 .. Len(inbox'[o]) : Announced(inbox'[o][i], o)
    <3>1. CASE o = c
      BY <1>2, <1>3, <1>4, <3>1 DEF InboxOK
    <3>2. CASE o # c
      BY <1>1, <3>2 DEF InboxOK
    <3>. QED
      BY <3>1, <3>2
  <2>. QED
    BY <1>1, <1>2, <2>1 DEF InboxOK, Announced, rVars
<1>6. pNext \in Nat /\ charges[r] = {} /\ Announced(r, c)
  <2>1. 1 \in 1 .. Len(q)
    BY <1>3, <1>4
  <2>. QED
    BY <1>2, <1>4, <2>1, PaymentAssumption DEF InboxOK, ChargesOK, PP!IInv, PP!TypeOK
<1>7. /\ charges \in [Ride -> SUBSET Nat]
      /\ charges'[r] = {pNext} /\ \A p \in Ride \ {r} : charges'[p] = charges[p]
  BY <1>1, <1>6 DEF ChargesOK
<1>8. charges' \in [Ride -> SUBSET Nat]
  BY <1>1, <1>6, <1>7
<1>9. \A p \in Ride : /\ \A p1, p2 \in charges'[p] : p1 = p2
                      /\ charges'[p] # {} => Announced(p, c)
  BY <1>6, <1>7 DEF ChargesOK
<1>10. \A i, j \in 1 .. Len(Tail(q)) : Tail(q)[i] = Tail(q)[j] => i = j
  BY <1>3, <1>4 DEF ChargesOK
<1>11. ASSUME NEW i \in 1 .. Len(Tail(q))
       PROVE  charges'[Tail(q)[i]] = {}
  <2>1. /\ i + 1 \in 1 .. Len(q) /\ 1 \in 1 .. Len(q) /\ i + 1 # 1
        /\ Tail(q)[i] = q[i + 1]
    BY <1>3, <1>4
  <2>2. q[i + 1] # r /\ q[i + 1] \in Ride /\ charges[q[i + 1]] = {}
    BY <1>3, <1>4, <2>1 DEF ChargesOK
  <2>. QED
    BY <1>7, <2>1, <2>2
<1>12. ChargesOK'
  BY <1>2, <1>3, <1>8, <1>9, <1>10, <1>11 DEF ChargesOK, Announced, rVars
<1>. QED
  BY <1>5, <1>12

\* Messages and charges.
LEMMA ChargesStep ==
  ASSUME RP!IInv, PP!IInv, Money, [Next]_vars
  PROVE  InboxOK' /\ ChargesOK'
<1>d. DOMAIN inbox = Subscription
  BY DEF Money, InboxOK
<1>1. CASE RideCall \/ DriverContinue \/ \E w \in Client \cup {RideSub} : RideContinue(w)
  BY <1>1, DeliverStep DEF RideCall, DriverContinue, RideContinue
<1>0. CASE \/ DriverFails \/ \E w \in Client \cup {RideSub} : RideFails(w)
           \/ \E w \in Client \cup PaymentSubs : PaymentFails(w)
  <2>1. UNCHANGED <<rSent, charges, inbox>>
    BY <1>0 DEF DriverFails, RideFails, PaymentFails, R!QueryFails, R!events, rVars
  <2>. QED
    BY <1>d, <2>1, TakeStep
<1>7. CASE CallbackFails
  <2>1. UNCHANGED <<rSent, charges>>
    BY <1>7 DEF CallbackFails, rVars
  <2>2. PICK s \in Subscription : inbox[s] # <<>> /\ inbox' = [inbox EXCEPT ![s] = Tail(@)]
    BY <1>7 DEF CallbackFails
  <2>3. DOMAIN inbox' = Subscription
        /\ \A o \in Subscription : inbox'[o] = inbox[o] \/ (o = s /\ inbox'[o] = Tail(inbox[o]))
    BY <1>d, <2>2
  <2>. QED
    BY <2>1, <2>2, <2>3, TakeStep DEF Subscription
<1>2. CASE ReceiveAssigned \/ ReceiveRequested
  <2>1. PICK s \in {RideSub, DriverSub} : inbox' = [inbox EXCEPT ![s] = Tail(@)]
    BY <1>2 DEF ReceiveAssigned, ReceiveRequested, Receive
  <2>2. s \notin PaymentSubs
    BY DEF RideSub, DriverSub, PaymentSubs
  <2>3. charges' = charges
    BY <1>2 DEF ReceiveAssigned, ReceiveRequested
  <2>4. DOMAIN inbox' = Subscription /\ \A o \in PaymentSubs : inbox'[o] = inbox[o]
    BY <1>d, <2>1, <2>2
  <2>5. UNCHANGED rSent
    <3>1. CASE ReceiveAssigned
      BY <3>1 DEF ReceiveAssigned, R!AssignDriver, R!Commit, R!events, rVars
    <3>2. CASE ReceiveRequested
      BY <3>2 DEF ReceiveRequested, rVars
    <3>. QED
      BY <1>2, <3>1, <3>2
  <2>. QED
    BY <2>3, <2>4, <2>5, TakeStep
<1>3. CASE PaymentCall \/ UNCHANGED vars
           \/ \E w \in Client \cup PaymentSubs : PaymentContinue(w)
  <2>1. UNCHANGED <<rVars, charges, inbox>>
    BY <1>3 DEF PaymentCall, PaymentContinue, vars
  <2>. QED
    BY <1>d, <2>1, TakeStep DEF rVars
<1>4. CASE ReceiveCompleted
  BY <1>4, ChargeStep
<1>5. CASE ReceiveCancelled
  <2>1. /\ UNCHANGED <<rVars, charges>>
        /\ inbox["ride.cancelled"] # <<>>
        /\ inbox' = [inbox EXCEPT !["ride.cancelled"] = Tail(@)]
    BY <1>5 DEF ReceiveCancelled, Receive
  <2>2. "ride.cancelled" \in Subscription
    BY DEF Subscription, PaymentSubs
  <2>. QED
    BY <1>d, <2>1, <2>2, TakeStep DEF rVars
<1>6. CASE Crash
  <2>1. UNCHANGED <<rSent, charges>>
    BY <1>6 DEF Crash, R!Crash, R!events, rVars
  <2>2. PICK subs : Lose(subs)
    BY <1>6 DEF Crash
  <2>3. /\ DOMAIN inbox' = Subscription
        /\ \A o \in Subscription : inbox'[o] = inbox[o] \/ inbox'[o] = <<>>
    BY <2>2 DEF Lose
  <2>. QED
    BY <2>1, <2>3, TakeStep DEF Subscription
<1>. QED
  BY <1>0, <1>1, <1>2, <1>3, <1>4, <1>5, <1>6, <1>7
     DEF Next, Callback, RideMoves, DriverMoves, PaymentMoves
-----------------------------------------------------------------------------
\* Refunds.

\* A payment stays refundable while its row keeps its ride.
LEMMA RefundableStays ==
  ASSUME RP!IInv, [Next]_vars, NEW p, Refundable(p),
         pStatus'[p] # "absent", pRide'[p] = pRide[p]
  PROVE  Refundable(p)'
<1>1. "ride.cancelled" \in PaymentSubs
  BY DEF PaymentSubs
<1>2. PICK r \in Ride : r = pRide[p] /\ Announced(r, "ride.cancelled")
  BY DEF Refundable
<1>3. Announced(r, "ride.cancelled")'
  BY <1>1, <1>2, AnnouncedStays
<1>. QED
  BY <1>2, <1>3 DEF Refundable, Announced, P!Payment

\* A step that writes no row and gives nobody a refund to make.
LEMMA NoRefund ==
  ASSUME RP!IInv, RefundsOK, [Next]_vars, UNCHANGED <<pStatus, pRide>>,
         \A w \in Client \cup PaymentSubs :
           pTask'[w].to = "refunded" => Refundable(pTask'[w].pay)
  PROVE  RefundsOK'
<1>1. \A p : Refundable(p) => Refundable(p)'
  <2>. TAKE p
  <2>. HAVE Refundable(p)
  <2>1. pStatus'[p] # "absent" /\ pRide'[p] = pRide[p]
    BY DEF Refundable
  <2>. QED
    BY <2>1, RefundableStays
<1>2. \A p : Refundable(p) =>
        p \in P!Payment /\ pStatus'[p] # "absent" /\ pRide'[p] \in Ride
                        /\ rSent'[pRide'[p]]["ride.cancelled"] > 0
  BY <1>1 DEF Refundable, Announced
<1>. QED
  BY <1>2 DEF RefundsOK, Refundable, Announced, P!Payment

\* Refunds.
LEMMA RefundsStep ==
  ASSUME RP!IInv, PP!IInv, Money, [Next]_vars
  PROVE  RefundsOK'
<1>. USE DEF Money
<1>t. /\ pTask \in [Client \cup PaymentSubs -> PP!Task]
      /\ pStatus \in [P!Payment -> PP!Status \cup {"absent"}]
      /\ pRide \in [P!Payment -> Ride \cup {None}]
  BY DEF PP!IInv, PP!TypeOK, PP!Payment, P!Payment
<1>i. P!Idle.to = "succeeded"
  BY DEF P!Idle
<1>1. CASE PaymentCall \/ ReceiveCompleted
  <2>1. PICK w \in Client \cup PaymentSubs, r \in Ride, b \in BOOLEAN : P!Create(w, r, b)
    BY <1>1 DEF PaymentCall, ReceiveCompleted, PaymentSubs
  <2>2. UNCHANGED <<pStatus, pRide>> /\ pTask' = [pTask EXCEPT ![w] = pTask'[w]]
        /\ pTask'[w].to = "succeeded"
    BY <1>t, <2>1 DEF P!Create, P!Call, P!tables, P!Idle
  <2>. QED
    BY <1>t, <2>2, NoRefund DEF RefundsOK
<1>2. CASE ReceiveCancelled
  <2>. DEFINE c == "ride.cancelled"
  <2>1. CASE UNCHANGED pVars
    BY <2>1, NoRefund DEF pVars, RefundsOK
  <2>2. ASSUME NEW r \in Ride, Receive(c, r), P!GetByRide(c, r)
        PROVE  RefundsOK'
    <3>1. c \in PaymentSubs
      BY DEF PaymentSubs
    <3>2. Announced(r, c)
      <4>1. inbox[c] \in Seq(Ride) /\ inbox[c] # <<>> /\ r = Head(inbox[c])
        BY <2>2, <3>1 DEF InboxOK, Receive
      <4>2. 1 \in 1 .. Len(inbox[c]) /\ r = inbox[c][1]
        BY <4>1
      <4>. QED
        BY <3>1, <4>2 DEF InboxOK
    <3>3. PICK p \in P!PaymentsOf(r) :
            pTask' = [pTask EXCEPT ![c] = [P!Idle EXCEPT !.pc = "update", !.pay = p,
                                             !.to = "refunded", !.auto = TRUE]]
      BY <2>2 DEF P!GetByRide, P!Call
    <3>4. Refundable(p)
      BY <3>2, <3>3 DEF P!PaymentsOf, P!Exists, Refundable
    <3>5. pTask'[c].pay = p /\ \A w \in (Client \cup PaymentSubs) \ {c} : pTask'[w] = pTask[w]
      BY <1>t, <3>1, <3>3 DEF P!Idle
    <3>6. UNCHANGED <<pStatus, pRide>>
      BY <2>2 DEF P!GetByRide, P!tables
    <3>. QED
      BY <3>4, <3>5, <3>6, NoRefund DEF RefundsOK
  <2>. QED
    BY <1>2, <2>1, <2>2 DEF ReceiveCancelled
<1>3. ASSUME NEW w \in Client \cup PaymentSubs, PaymentContinue(w)
      PROVE  RefundsOK'
  <2>. DEFINE p == pTask[w].pay
  <2>1. CASE P!CreateWithEvent(w)
    <3>1. /\ pStatus' = [pStatus EXCEPT ![p] = "pending"]
          /\ pRide' = [pRide EXCEPT ![p] = pTask[w].ride]
          /\ P!Goto(w, "pubCreated") \/ P!Return(w)
      BY <2>1 DEF P!CreateWithEvent
    <3>2. pStatus[p] = "absent"
      BY <2>1 DEF P!CreateWithEvent, P!At, PP!IInv, PP!TaskOK, PP!At
    <3>3. \A q : Refundable(q) => q # p /\ pStatus'[q] = pStatus[q] /\ pRide'[q] = pRide[q]
      BY <1>t, <3>1, <3>2 DEF Refundable
    <3>4. \A q : Refundable(q) => Refundable(q)'
      BY <3>3, RefundableStays DEF Refundable
    <3>5. \A v \in Client \cup PaymentSubs : pTask'[v].to = "refunded" =>
            pTask[v].to = "refunded" /\ pTask'[v].pay = pTask[v].pay
      BY <1>t, <1>i, <3>1 DEF P!Goto, P!Return, PP!Task
    <3>6. \A q \in P!Payment : pStatus'[q] = "refunded" => pStatus[q] = "refunded"
      BY <1>t, <3>1
    <3>. QED
      BY <3>4, <3>5, <3>6 DEF RefundsOK
  <2>2. CASE P!UpdateStatusWithEvent(w)
    <3>1. /\ P!CanTransition(pStatus[p], pTask[w].to)
          /\ pStatus' = [pStatus EXCEPT ![p] = pTask[w].to]
          /\ UNCHANGED pRide /\ P!Goto(w, "reread")
      BY <2>2 DEF P!UpdateStatusWithEvent
    <3>2. \A q : Refundable(q) => pStatus'[q] # "absent" /\ pRide'[q] = pRide[q]
      BY <1>t, <3>1 DEF Refundable, P!CanTransition
    <3>4. \A q : Refundable(q) => Refundable(q)'
      BY <3>2, RefundableStays
    <3>5. \A v \in Client \cup PaymentSubs :
            pTask'[v].to = pTask[v].to /\ pTask'[v].pay = pTask[v].pay
      BY <1>t, <3>1 DEF P!Goto, PP!Task
    <3>6. \A q \in P!Payment : pStatus'[q] = "refunded" =>
            pStatus[q] = "refunded" \/ (q = p /\ pTask[w].to = "refunded")
      BY <1>t, <3>1
    <3>. QED
      BY <3>4, <3>5, <3>6 DEF RefundsOK
  <2>3. CASE P!PublishCreated(w) \/ P!RefuseUpdate(w) \/ P!GetByID(w) \/ P!PublishOutcome(w)
    <3>1. UNCHANGED <<pStatus, pRide>>
      BY <2>3 DEF P!PublishCreated, P!RefuseUpdate, P!GetByID, P!PublishOutcome, P!tables
    <3>2. P!Return(w) \/ \E stage \in P!Stage : P!Goto(w, stage)
      BY <2>3 DEF P!PublishCreated, P!RefuseUpdate, P!GetByID, P!PublishOutcome, P!Stage
    <3>3. \A v \in Client \cup PaymentSubs : pTask'[v].to = "refunded" =>
            pTask[v].to = "refunded" /\ pTask'[v].pay = pTask[v].pay
      BY <1>t, <1>i, <3>2 DEF P!Goto, P!Return, PP!Task
    <3>. QED
      BY <3>1, <3>3, NoRefund DEF RefundsOK
  <2>. QED
    BY <1>3, <2>1, <2>2, <2>3 DEF PaymentContinue, P!Continue
<1>4. CASE Crash
  <2>1. UNCHANGED <<pStatus, pRide>>
    BY <1>4 DEF Crash, P!Crash, P!tables, pVars
  <2>2. \A v \in Client \cup PaymentSubs :
          pTask'[v] = pTask[v] \/ pTask'[v] = P!Idle
    BY <1>4 DEF Crash, P!Crash, pVars
  <2>. QED
    BY <1>i, <2>1, <2>2, NoRefund DEF RefundsOK
<1>5. CASE UNCHANGED pVars
  BY <1>5, NoRefund DEF pVars, RefundsOK
<1>6. ASSUME NEW w \in Client \cup {RideSub}, RideMoves(w)
      PROVE  UNCHANGED pVars
  BY <1>6 DEF RideMoves, RideContinue, RideFails
<1>7. CASE \/ RideCall \/ ReceiveAssigned \/ ReceiveRequested \/ DriverMoves
           \/ CallbackFails \/ UNCHANGED vars
  BY <1>5, <1>7 DEF RideCall, ReceiveAssigned, ReceiveRequested, DriverMoves, DriverContinue,
                    DriverFails, CallbackFails, vars
<1>8. ASSUME NEW w \in Client \cup PaymentSubs, PaymentFails(w)
      PROVE  RefundsOK'
  <2>1. UNCHANGED <<pStatus, pRide>> /\ pTask' = [pTask EXCEPT ![w] = P!Idle]
    BY <1>8 DEF PaymentFails, P!QueryFails, P!Return, P!tables
  <2>2. \A v \in Client \cup PaymentSubs :
          pTask'[v] = pTask[v] \/ pTask'[v] = P!Idle
    BY <1>t, <2>1
  <2>. QED
    BY <1>i, <2>1, <2>2, NoRefund DEF RefundsOK
<1>. QED
  BY <1>1, <1>2, <1>3, <1>4, <1>5, <1>6, <1>7, <1>8 DEF Next, Callback, PaymentMoves
-----------------------------------------------------------------------------
LEMMA MoneyInvariant == Spec => []Money
<1>1. Init => Money
  BY DEF Init, Money, InboxOK, ChargesOK, RefundsOK, P!Init, P!Idle, Subscription, PaymentSubs
<1>2. RP!IInv /\ PP!IInv /\ Money /\ [Next]_vars => Money'
  BY ChargesStep, RefundsStep DEF Money
<1>. QED
  BY <1>1, <1>2, ServiceInvariants, PTL DEF Spec

\* The platform charges a ride once at most and only when it was completed, and
\* pays back only for a ride that was cancelled, in a flow of any size.
THEOREM MoneyCorrect == Spec => []MoneyFollowsOutcome
<1>1. RP!IInv /\ Money => MoneyFollowsOutcome
  BY DEF Money, ChargesOK, RefundsOK, Refundable, Announced, MoneyFollowsOutcome,
         RP!IInv, RP!OneOutcome
<1>. QED
  BY <1>1, ServiceInvariants, MoneyInvariant, PTL
-----------------------------------------------------------------------------
\* The driver-service's own invariant in the flow.

\* What the driver-service's module takes from FiniteSets is the same here.
LEMMA SameCardinality == \A S : /\ D!IsFiniteSet(S) = DP!IsFiniteSet(S)
                                /\ DP!IsFiniteSet(S) = IsFiniteSet(S)
                                /\ D!Cardinality(S) = DP!Cardinality(S)
<1>1. \A S : D!IsFiniteSet(S) = DP!IsFiniteSet(S) /\ DP!IsFiniteSet(S) = IsFiniteSet(S)
  BY DEF D!IsFiniteSet, DP!IsFiniteSet, IsFiniteSet
<1>2. \A S : D!Cardinality(S) = DP!Cardinality(S)
  BY <1>1 DEF D!Cardinality, DP!Cardinality
<1>. QED
  BY <1>1, <1>2

LEMMA SameDriverService == [Next]_vars => [DP!Next]_(DP!vars)
<1>0. D!GeoSearch = DP!GeoSearch
  BY SameCardinality
  DEF D!GeoSearch, DP!GeoSearch, D!FirstOf, DP!FirstOf, D!Orders, DP!Orders,
      D!InRadius, DP!InRadius, D!NearestFirst, DP!NearestFirst
<1>1. D!vars = DP!vars
  BY DEF D!vars, DP!vars, D!tables, DP!tables, D!redis, DP!redis
<1>. USE DEF D!tables, DP!tables, D!redis, DP!redis, D!Idle, DP!Idle, D!Call, DP!Call,
             D!At, DP!At, D!Goto, DP!Goto, D!Return, DP!Return, D!Exists, DP!Exists,
             D!GetStatus, DP!GetStatus, D!SetStatus, DP!SetStatus
<1>3. ASSUME NEW w \in {DriverSub}
      PROVE  D!Begin(w) <=> DP!Begin(w)
  BY <1>0 DEF D!Begin, DP!Begin, D!Register, DP!Register, D!UpdateStatus, DP!UpdateStatus,
     D!UpdateLocation, DP!UpdateLocation, D!Search, DP!Search, D!Status, DP!Status
<1>4. ASSUME NEW w \in {DriverSub}
      PROVE  D!Continue(w) <=> DP!Continue(w)
  BY DEF D!Continue, DP!Continue, D!CacheStatus, DP!CacheStatus, D!CachePlace, DP!CachePlace,
     D!Skip, DP!Skip, D!Choose, DP!Choose, D!Refuse, DP!Refuse, D!SetBusy, DP!SetBusy,
     D!CacheBusy, DP!CacheBusy, D!RecordAssignment, DP!RecordAssignment,
     D!PublishAssigned, DP!PublishAssigned
<1>5. D!Next <=> DP!Next
  BY <1>3, <1>4 DEF D!Next, DP!Next, D!Crash, DP!Crash, D!QueryFails, DP!QueryFails
<1>. QED
  BY <1>1, <1>5, DriverStep DEF D!vars, DP!vars

LEMMA DriverInvariant == Spec => []DP!IInv
<1>1. DP!IsFiniteSet(Driver)
  BY DriverAssumption, SameCardinality
<1>2. Init => DP!IInv
  <2>. SUFFICES ASSUME Init PROVE DP!IInv
    OBVIOUS
  <2>1. DP!Idle = D!Idle /\ DP!Sound(DP!Idle) /\ DP!Idle \in DP!Task
    BY DEF D!Idle, DP!Idle, DP!Sound, DP!Task, DP!Stage, DP!Status
  <2>2. DP!TypeOK /\ DP!TaskOK
    BY <2>1 DEF Init, DP!TypeOK, DP!TaskOK, DP!Status
  <2>3. DP!AssignedIsRecorded /\ DP!CacheShowsCommitted
    BY DEF Init, DP!AssignedIsRecorded, DP!CacheShowsCommitted, DP!GetStatus
  <2>. QED
    BY <2>2, <2>3 DEF DP!IInv
<1>3. DP!IInv /\ [Next]_vars => DP!IInv'
  BY <1>1, ServiceConstants, SameDriverService, DP!NextIInv
<1>. QED
  BY <1>2, <1>3, PTL DEF Spec

\* In the flow too, what is announced on driver.assigned is an assignment with its
\* row and a driver that was made busy.
THEOREM AssignedInFlow == Spec => []D!AssignedIsRecorded
<1>1. DP!IInv => D!AssignedIsRecorded
  BY DEF DP!IInv, DP!AssignedIsRecorded, D!AssignedIsRecorded
<1>. QED
  BY <1>1, DriverInvariant, PTL
-----------------------------------------------------------------------------
\* The inductive invariant of the dispatch.

\* The ride was offered to the drivers.
Asked(r) == rSent[r]["ride.requested"] > 0

\* The ride has an assignment.
Given(r) == \E d \in Driver : <<d, r>> \in dRecorded

Stage == dTask[DriverSub].pc

\* The callback of ride.requested looks for a driver for r, or has chosen one and
\* not yet recorded it.
Serves(r) ==
  Stage \in {"filter", "setBusy", "cacheBusy", "record"} /\ dTask[DriverSub].ride = r

\* A ride that waits for a driver was offered once and has not been dealt with.
WaitingOK ==
  LET q == inbox[DriverSub]
  IN  /\ q \in Seq(Ride)
      /\ \A i, j \in 1 .. Len(q) : q[i] = q[j] => i = j
      /\ \A i \in 1 .. Len(q) : Asked(q[i]) /\ ~Given(q[i]) /\ ~Serves(q[i])

\* A ride is assigned once, and it was offered.
Matched ==
  /\ \A a, b \in dRecorded : a[2] = b[2] => a = b
  /\ \A r \in Ride : Given(r) => Asked(r)

\* What the callback is about to record is new.
ServingOK ==
  /\ Stage \notin {"cacheStatus", "cachePlace"}
  /\ \A r \in Ride : Serves(r) => Asked(r) /\ ~Given(r)

\* The ride-service is only told of assignments that have their row.
ToldOK ==
  LET q == inbox[RideSub]
  IN  q \in Seq(Driver \X Ride) /\ \A i \in 1 .. Len(q) : q[i] \in dRecorded

Dispatch == WaitingOK /\ Matched /\ ServingOK /\ ToldOK
-----------------------------------------------------------------------------
\* A ride is offered once.
LEMMA RequestInvariant == Spec => []RP!RequestOK
<1>1. Init => RP!RequestOK
  BY DEF Init, R!Init, R!Idle, R!Subject, RP!RequestOK, RP!RequestedOnce, RP!RequestDue,
         RP!RequestUnique, RP!Requesting
<1>2. RP!IInv /\ RP!RequestOK /\ [Next]_vars => RP!RequestOK'
  <2>1. [Next]_vars => [RP!Next]_(RP!vars)
    BY RideStep, SameRideService DEF R!vars, RP!vars, R!tables, RP!tables, R!events, RP!events
  <2>. QED
    BY <2>1, ServiceConstants, RP!RequestStep
<1>. QED
  BY <1>1, <1>2, ServiceInvariants, PTL DEF Spec

\* The count of the offers of a ride goes from none to one, if it moves at all.
LEMMA AskedOnce ==
  ASSUME RP!IInv, RP!RequestOK, [Next]_vars, NEW r \in Ride
  PROVE  /\ rSent[r]["ride.requested"] \in Nat
         /\ \/ rSent'[r]["ride.requested"] = rSent[r]["ride.requested"]
            \/ rSent[r]["ride.requested"] = 0 /\ rSent'[r]["ride.requested"] = 1
<1>1. [RP!Next]_(RP!vars)
  BY RideStep, SameRideService DEF R!vars, RP!vars, R!tables, RP!tables, R!events, RP!events
<1>2. rSent \in [Ride -> [RP!Subject -> Nat]] /\ "ride.requested" \in RP!Subject
  BY DEF RP!IInv, RP!TypeOK, RP!Subject
<1>. QED
  BY <1>1, <1>2, ServiceConstants, RP!RequestStep

LEMMA AskedStays ==
  ASSUME RP!IInv, RP!RequestOK, [Next]_vars, NEW r \in Ride, Asked(r)
  PROVE  Asked(r)'
BY AskedOnce DEF Asked
-----------------------------------------------------------------------------
\* Who is served and who has a ride.

\* A step that records nothing and begins to serve nobody.
LEMMA ServingKept ==
  ASSUME Matched, ServingOK, UNCHANGED dRecorded,
         \A r \in Ride : /\ Asked(r) => Asked(r)'
                         /\ Serves(r)' => Serves(r),
         Stage' \notin {"cacheStatus", "cachePlace"}
  PROVE  Matched' /\ ServingOK'
<1>1. \A r \in Ride : Given(r)' <=> Given(r)
  BY DEF Given
<1>2. Matched'
  BY <1>1 DEF Matched
<1>3. ServingOK'
  BY <1>1 DEF ServingOK
<1>. QED
  BY <1>2, <1>3

\* The callback's own steps.
LEMMA ServingContinue ==
  ASSUME DP!IInv, Matched, ServingOK, DriverContinue
  PROVE  Matched' /\ ServingOK'
<1>t. /\ dTask \in [{DriverSub} -> DP!Task]
      /\ dRecorded \subseteq Driver \X Ride
  BY DEF DP!IInv, DP!TypeOK
<1>i. D!Idle.pc = "idle"
  BY DEF D!Idle
<1>s. \A r \in Ride : Asked(r)' <=> Asked(r)
  BY DEF DriverContinue, rVars, Asked
<1>1. CASE D!CacheStatus(DriverSub) \/ D!CachePlace(DriverSub)
  BY <1>1 DEF D!CacheStatus, D!CachePlace, D!At, ServingOK, Stage
<1>2. CASE D!Skip(DriverSub) \/ D!Choose(DriverSub) \/ D!SetBusy(DriverSub)
           \/ D!CacheBusy(DriverSub)
  <2>1. /\ Stage \in {"filter", "setBusy", "cacheBusy"} /\ dRecorded' = dRecorded
        /\ Stage' \in {"filter", "setBusy", "cacheBusy", "record"}
        /\ dTask'[DriverSub].ride = dTask[DriverSub].ride
    BY <1>t, <1>2
    DEF D!Skip, D!Choose, D!SetBusy, D!CacheBusy, D!Goto, D!At, D!tables, DP!Task, Stage
  <2>. QED
    BY <1>s, <2>1, ServingKept DEF Serves
<1>3. CASE D!Refuse(DriverSub) \/ D!PublishAssigned(DriverSub)
  <2>1. dTask' = [dTask EXCEPT ![DriverSub] = D!Idle] /\ UNCHANGED dRecorded
    BY <1>3 DEF D!Refuse, D!PublishAssigned, D!Return, D!tables
  <2>2. Stage' = "idle"
    BY <1>t, <1>i, <2>1 DEF Stage
  <2>. QED
    BY <1>s, <2>1, <2>2, ServingKept DEF Serves
<1>4. CASE D!RecordAssignment(DriverSub)
  <2>1. PICK c \in Driver, q \in Ride :
          c = dTask[DriverSub].driver /\ q = dTask[DriverSub].ride
    BY <1>4 DEF D!RecordAssignment, D!At, DP!IInv, DP!TaskOK, DP!Sound
  <2>2. /\ dTask' = [dTask EXCEPT ![DriverSub].pc = "publish"] /\ Stage = "record"
        /\ dRecorded' = dRecorded \cup {<<c, q>>}
    BY <1>4, <2>1 DEF D!RecordAssignment, D!Goto, D!At, Stage
  <2>3. Stage' = "publish"
    BY <1>t, <2>2 DEF Stage, DP!Task
  <2>4. Asked(q) /\ ~Given(q) /\ Serves(q)
    BY <2>1, <2>2 DEF ServingOK, Serves
  <2>5. \A r \in Ride : Given(r)' => Given(r) \/ r = q
    BY <2>1, <2>2 DEF Given
  <2>6. ASSUME NEW a \in dRecorded
        PROVE  a = <<a[1], a[2]>> /\ a[2] # q
    <3>1. PICK d \in Driver, r \in Ride : a = <<d, r>>
      BY <1>t
    <3>2. Given(r)
      BY <3>1 DEF Given
    <3>. QED
      BY <2>4, <3>1, <3>2
  <2>7. \A a, b \in dRecorded' : a[2] = b[2] => a = b
    BY <2>2, <2>6 DEF Matched
  <2>8. Matched'
    BY <1>s, <2>4, <2>5, <2>7 DEF Matched
  <2>9. ServingOK'
    BY <2>3 DEF ServingOK, Serves
  <2>. QED
    BY <2>8, <2>9
<1>. QED
  BY <1>1, <1>2, <1>3, <1>4 DEF DriverContinue, D!Continue

\* All the steps of the flow.
LEMMA ServingStep ==
  ASSUME RP!IInv, RP!RequestOK, DP!IInv, Dispatch, [Next]_vars
  PROVE  Matched' /\ ServingOK'
<1>. USE DEF Dispatch
<1>s. \A r \in Ride : Asked(r) => Asked(r)'
  BY AskedStays
<1>t. dTask \in [{DriverSub} -> DP!Task]
  BY DEF DP!IInv, DP!TypeOK
<1>1. CASE DriverContinue
  BY <1>1, ServingContinue
<1>2. CASE ReceiveRequested
  <2>1. PICK q \in Ride : Receive(DriverSub, q) /\ D!Search(DriverSub, q)
    BY <1>2 DEF ReceiveRequested
  <2>2. PICK l : dTask' = [dTask EXCEPT ![DriverSub] =
                             [D!Idle EXCEPT !.pc = "filter", !.ride = q, !.left = l]]
    BY <2>1 DEF D!Search, D!Call
  <2>3. Stage' = "filter" /\ dTask'[DriverSub].ride = q
    BY <1>t, <2>2 DEF Stage, D!Idle
  <2>4. Asked(q) /\ ~Given(q)
    <3>1. inbox[DriverSub] \in Seq(Ride) /\ inbox[DriverSub] # <<>>
          /\ q = Head(inbox[DriverSub])
      BY <2>1 DEF Receive, WaitingOK
    <3>2. 1 \in 1 .. Len(inbox[DriverSub]) /\ q = inbox[DriverSub][1]
      BY <3>1
    <3>. QED
      BY <3>2 DEF WaitingOK
  <2>5. UNCHANGED dRecorded
    BY <2>1 DEF D!Search, D!tables
  <2>6. \A r \in Ride : (Given(r)' <=> Given(r)) /\ (Serves(r)' => r = q)
    BY <2>3, <2>5 DEF Given, Serves
  <2>7. Matched'
    BY <1>s, <2>5, <2>6 DEF Matched
  <2>8. ServingOK'
    BY <1>s, <2>3, <2>4, <2>5, <2>6 DEF ServingOK
  <2>. QED
    BY <2>7, <2>8
<1>3. CASE DriverFails \/ D!Crash
  <2>1. UNCHANGED dRecorded /\ dTask'[DriverSub] = D!Idle
    BY <1>t, <1>3 DEF DriverFails, D!QueryFails, D!Return, D!Crash, D!tables
  <2>2. Stage' = "idle"
    BY <2>1 DEF Stage, D!Idle
  <2>. QED
    BY <1>s, <2>1, <2>2, ServingKept DEF Serves
<1>4. CASE UNCHANGED dVars
  <2>1. UNCHANGED <<dRecorded, dTask>>
    BY <1>4 DEF dVars
  <2>. QED
    BY <1>s, <2>1, ServingKept DEF ServingOK, Serves, Stage
<1>. QED
  BY <1>1, <1>2, <1>3, <1>4, DriverAlone
-----------------------------------------------------------------------------
\* The inboxes.

\* A sequence that is the same, or has lost its first element or all of them.
Shrunk(q, s) == s \in {q, <<>>} \/ (q # <<>> /\ s = Tail(q))

LEMMA ShrunkProperties ==
  ASSUME NEW S, NEW q \in Seq(S), NEW s, Shrunk(q, s)
  PROVE  /\ s \in Seq(S)
         /\ \A i \in 1 .. Len(s) : \E k \in 1 .. Len(q) : s[i] = q[k]
         /\ (\A i, j \in 1 .. Len(q) : q[i] = q[j] => i = j)
              => \A i, j \in 1 .. Len(s) : s[i] = s[j] => i = j
<1>1. CASE s = q
  BY <1>1
<1>2. CASE s = <<>>
  BY <1>2
<1>3. CASE q # <<>> /\ s = Tail(q)
  <2>1. /\ s \in Seq(S)
        /\ \A i \in 1 .. Len(s) : i + 1 \in 1 .. Len(q) /\ s[i] = q[i + 1]
    BY <1>3
  <2>. QED
    BY <2>1
<1>. QED
  BY <1>1, <1>2, <1>3 DEF Shrunk

\* A step delivers what it publishes, or takes from the inboxes at most.
LEMMA InboxStep ==
  ASSUME DOMAIN inbox = Subscription, [Next]_vars, NEW s \in Subscription
  PROVE  \/ Deliver
         \/ Shrunk(inbox[s], inbox'[s])
<1>1. CASE UNCHANGED inbox
  BY <1>1 DEF Shrunk
<1>2. ASSUME NEW q \in Subscription, NEW m, Receive(q, m)
      PROVE  Shrunk(inbox[s], inbox'[s])
  BY <1>2 DEF Receive, Shrunk
<1>3. CASE ReceiveAssigned \/ ReceiveRequested \/ ReceiveCompleted \/ ReceiveCancelled
  BY <1>2, <1>3 DEF ReceiveAssigned, ReceiveRequested, ReceiveCompleted, ReceiveCancelled,
                    Subscription, PaymentSubs
<1>4. CASE Crash \/ CallbackFails
  BY <1>4 DEF Crash, CallbackFails, Lose, Shrunk
<1>5. ASSUME NEW w, RideMoves(w) \/ PaymentMoves(w)
      PROVE  Deliver \/ UNCHANGED inbox
  BY <1>5 DEF RideMoves, RideContinue, RideFails, PaymentMoves, PaymentContinue, PaymentFails
<1>6. CASE RideCall \/ DriverMoves \/ PaymentCall \/ UNCHANGED vars
  BY <1>1, <1>6 DEF RideCall, DriverMoves, DriverContinue, DriverFails, PaymentCall, vars
<1>. QED
  BY <1>1, <1>3, <1>4, <1>5, <1>6 DEF Next, Callback

\* Assignments are not deleted.
LEMMA RecordedStays == ASSUME [Next]_vars PROVE dRecorded \subseteq dRecorded'
<1>1. D!Next \/ UNCHANGED D!vars
  BY DriverStep
<1>2. ASSUME NEW w, D!Begin(w) \/ D!Continue(w) \/ D!QueryFails(w)
      PROVE  dRecorded \subseteq dRecorded'
  BY <1>2
  DEF D!Begin, D!Continue, D!QueryFails, D!Register, D!UpdateStatus, D!UpdateLocation,
      D!Search, D!CacheStatus, D!CachePlace, D!Skip, D!Choose, D!Refuse, D!SetBusy,
      D!CacheBusy, D!RecordAssignment, D!PublishAssigned, D!tables
<1>. QED
  BY <1>1, <1>2 DEF D!Next, D!Crash, D!vars, D!tables

\* What the ride-service is told.
LEMMA ToldStep ==
  ASSUME DP!IInv, DP!IInv', ToldOK, DOMAIN inbox = Subscription, [Next]_vars
  PROVE  ToldOK'
<1>t. RideSub \in Subscription
  BY DEF Subscription
<1>1. CASE Shrunk(inbox[RideSub], inbox'[RideSub])
  <2>1. inbox[RideSub] \in Seq(Driver \X Ride)
    BY DEF ToldOK
  <2>2. /\ inbox'[RideSub] \in Seq(Driver \X Ride)
        /\ \A i \in 1 .. Len(inbox'[RideSub]) :
             \E k \in 1 .. Len(inbox[RideSub]) : inbox'[RideSub][i] = inbox[RideSub][k]
    BY <1>1, <2>1, ShrunkProperties
  <2>. QED
    BY <2>2, RecordedStays DEF ToldOK
<1>2. CASE Deliver
  <2>1. /\ Published(RideSub) = dPublished' \ dPublished
        /\ inbox'[RideSub] = IF Published(RideSub) = {} THEN inbox[RideSub]
                             ELSE Append(inbox[RideSub], CHOOSE m \in Published(RideSub) : TRUE)
    BY <1>t, <1>2 DEF Deliver, Published
  <2>2. Published(RideSub) \subseteq dRecorded' /\ dRecorded' \subseteq Driver \X Ride
    BY <2>1 DEF DP!IInv, DP!AssignedIsRecorded, DP!TypeOK
  <2>3. CASE inbox'[RideSub] = inbox[RideSub]
    BY <1>1, <2>3 DEF Shrunk
  <2>4. ASSUME NEW m \in dRecorded', inbox'[RideSub] = Append(inbox[RideSub], m)
        PROVE  ToldOK'
    BY <2>2, <2>4, RecordedStays DEF ToldOK
  <2>. QED
    BY <2>1, <2>2, <2>3, <2>4
<1>. QED
  BY <1>t, <1>1, <1>2, InboxStep

\* A ride that is given to a driver was served, one that is served was waiting.
LEMMA ServesOrigin ==
  ASSUME DP!IInv, [Next]_vars, NEW r \in Ride
  PROVE  /\ Given(r)' => Given(r) \/ Serves(r)
         /\ Serves(r)' => Serves(r) \/ (ReceiveRequested /\ Receive(DriverSub, r))
         /\ ReceiveRequested => (Given(r)' <=> Given(r)) /\ (Serves(r)' => Receive(DriverSub, r))
<1>. DEFINE Goal == /\ Given(r)' => Given(r) \/ Serves(r)
                    /\ Serves(r)' => Serves(r) \/ (ReceiveRequested /\ Receive(DriverSub, r))
<1>t. dTask \in [{DriverSub} -> DP!Task]
  BY DEF DP!IInv, DP!TypeOK
<1>1. ASSUME ReceiveRequested
      PROVE  (Given(r)' <=> Given(r)) /\ (Serves(r)' => Receive(DriverSub, r))
  <2>1. PICK q \in Ride : Receive(DriverSub, q) /\ D!Search(DriverSub, q)
    BY <1>1 DEF ReceiveRequested
  <2>2. PICK l : dTask' = [dTask EXCEPT ![DriverSub] =
                             [D!Idle EXCEPT !.pc = "filter", !.ride = q, !.left = l]]
    BY <2>1 DEF D!Search, D!Call
  <2>3. dTask'[DriverSub].ride = q /\ UNCHANGED dRecorded
    BY <1>t, <2>1, <2>2 DEF D!Idle, D!Search, D!tables
  <2>. QED
    BY <2>1, <2>3 DEF Given, Serves
<1>2. ASSUME DriverContinue
      PROVE  Goal
  <2>1. ASSUME dRecorded' = dRecorded,
               \/ Stage' \in {"idle", "publish"}
               \/ /\ Stage \in {"filter", "setBusy", "cacheBusy", "record"}
                  /\ dTask'[DriverSub].ride = dTask[DriverSub].ride
        PROVE  Goal
    BY <2>1 DEF Given, Serves, Stage
  <2>2. CASE D!CacheStatus(DriverSub) \/ D!CachePlace(DriverSub) \/ D!Refuse(DriverSub)
             \/ D!PublishAssigned(DriverSub)
    <3>1. dTask' = [dTask EXCEPT ![DriverSub] = D!Idle] /\ dRecorded' = dRecorded
      BY <2>2 DEF D!CacheStatus, D!CachePlace, D!Refuse, D!PublishAssigned, D!Return, D!tables
    <3>2. Stage' = "idle"
      BY <1>t, <3>1 DEF Stage, D!Idle
    <3>. QED
      BY <2>1, <3>1, <3>2
  <2>3. CASE D!Skip(DriverSub) \/ D!Choose(DriverSub) \/ D!SetBusy(DriverSub)
             \/ D!CacheBusy(DriverSub)
    <3>1. Stage \in {"filter", "setBusy", "cacheBusy"} /\ dRecorded' = dRecorded
      BY <2>3 DEF D!Skip, D!Choose, D!SetBusy, D!CacheBusy, D!At, D!tables, Stage
    <3>2. dTask'[DriverSub].ride = dTask[DriverSub].ride
      BY <1>t, <2>3 DEF D!Skip, D!Choose, D!SetBusy, D!CacheBusy, D!Goto, DP!Task
    <3>. QED
      BY <2>1, <3>1, <3>2
  <2>4. CASE D!RecordAssignment(DriverSub)
    <3>1. /\ dTask' = [dTask EXCEPT ![DriverSub].pc = "publish"] /\ Stage = "record"
          /\ dRecorded' = dRecorded \cup {<<dTask[DriverSub].driver, dTask[DriverSub].ride>>}
      BY <2>4 DEF D!RecordAssignment, D!Goto, D!At, Stage
    <3>2. Stage' = "publish"
      BY <1>t, <3>1 DEF Stage, DP!Task
    <3>. QED
      BY <3>1, <3>2 DEF Given, Serves
  <2>. QED
    BY <1>2, <2>2, <2>3, <2>4 DEF DriverContinue, D!Continue
<1>3. ASSUME UNCHANGED dVars
      PROVE  Goal
  BY <1>3 DEF dVars, Given, Serves, Stage
<1>4. ASSUME DriverFails \/ D!Crash
      PROVE  Goal
  <2>1. UNCHANGED dRecorded /\ dTask'[DriverSub].pc = "idle"
    BY <1>t, <1>4 DEF DriverFails, D!QueryFails, D!Return, D!Crash, D!tables, D!Idle
  <2>. QED
    BY <2>1 DEF Given, Serves, Stage
<1>5. Goal
  <2>. HIDE DEF Goal
  <2>1. ReceiveRequested => Goal
    BY <1>1 DEF Goal
  <2>. QED
    BY <1>2, <1>3, <1>4, <2>1, DriverAlone
<1>. QED
  BY <1>1, <1>5

\* The rides that wait for a driver.
LEMMA WaitingStep ==
  ASSUME RP!IInv, RP!RequestOK, DP!IInv, Dispatch, DOMAIN inbox = Subscription, [Next]_vars
  PROVE  WaitingOK'
<1>. USE DEF Dispatch
<1>. DEFINE q == inbox[DriverSub]
            s == inbox'[DriverSub]
<1>t. DriverSub \in Subscription /\ DriverSub # RideSub
  BY DEF Subscription, DriverSub, RideSub
<1>q. /\ q \in Seq(Ride)
      /\ \A i, j \in 1 .. Len(q) : q[i] = q[j] => i = j
      /\ \A i \in 1 .. Len(q) : q[i] \in Ride /\ Asked(q[i]) /\ ~Given(q[i]) /\ ~Serves(q[i])
  BY DEF WaitingOK
<1>a. \A r \in Ride : Asked(r) => Asked(r)'
  BY AskedStays
<1>1. ASSUME s \in Seq(Ride), \A i, j \in 1 .. Len(s) : s[i] = s[j] => i = j,
             \A i \in 1 .. Len(s) : \E r \in Ride :
               s[i] = r /\ Asked(r)' /\ ~Given(r)' /\ ~Serves(r)'
      PROVE  WaitingOK'
  <2>1. \A i \in 1 .. Len(s) : (Asked(inbox[DriverSub][i]) /\ ~Given(inbox[DriverSub][i])
                                /\ ~Serves(inbox[DriverSub][i]))'
    BY <1>1 DEF Asked, Given, Serves, Stage
  <2>. QED
    BY <1>1, <2>1 DEF WaitingOK
\* A ride that waited and is not the one being taken waits on.
<1>2. ASSUME NEW r \in Ride, Asked(r), ~Given(r), ~Serves(r), ~Receive(DriverSub, r)
      PROVE  Asked(r)' /\ ~Given(r)' /\ ~Serves(r)'
  BY <1>2, <1>a, ServesOrigin
<1>3. CASE ReceiveRequested
  <2>1. PICK m \in Ride : Receive(DriverSub, m)
    BY <1>3 DEF ReceiveRequested
  <2>2. q # <<>> /\ m = Head(q) /\ s = Tail(q)
    BY <1>t, <2>1 DEF Receive
  <2>3. /\ s \in Seq(Ride) /\ 1 \in 1 .. Len(q) /\ q[1] = m
        /\ \A i \in 1 .. Len(s) : i + 1 \in 1 .. Len(q) /\ i + 1 # 1 /\ s[i] = q[i + 1]
    BY <1>q, <2>2
  <2>4. \A i, j \in 1 .. Len(s) : s[i] = s[j] => i = j
    BY <1>q, <2>2, ShrunkProperties DEF Shrunk
  <2>5. \A r : Receive(DriverSub, r) => r = m
    BY <2>2 DEF Receive
  <2>6. ASSUME NEW i \in 1 .. Len(s)
        PROVE  \E r \in Ride : s[i] = r /\ Asked(r)' /\ ~Given(r)' /\ ~Serves(r)'
    <3>1. PICK r : r = q[i + 1]
      OBVIOUS
    <3>2. r \in Ride /\ s[i] = r /\ Asked(r) /\ ~Given(r) /\ ~Serves(r) /\ r # m
      BY <1>q, <2>3, <3>1
    <3>. QED
      BY <1>2, <2>5, <3>2
  <2>. QED
    BY <1>1, <2>3, <2>4, <2>6
<1>4. CASE Shrunk(q, s) /\ ~ReceiveRequested
  <2>1. /\ s \in Seq(Ride)
        /\ \A i, j \in 1 .. Len(s) : s[i] = s[j] => i = j
        /\ \A i \in 1 .. Len(s) : \E k \in 1 .. Len(q) : s[i] = q[k]
    BY <1>q, <1>4, ShrunkProperties
  <2>2. \A r \in Ride : Asked(r) /\ ~Given(r) /\ ~Serves(r) =>
          Asked(r)' /\ ~Given(r)' /\ ~Serves(r)'
    BY <1>4, <1>a, ServesOrigin
  <2>3. \A i \in 1 .. Len(s) : \E r \in Ride :
          s[i] = r /\ Asked(r)' /\ ~Given(r)' /\ ~Serves(r)'
    BY <1>q, <2>1, <2>2
  <2>. QED
    BY <1>1, <2>1, <2>3
\* Delivery adds a ride that was not offered before.
<1>5. CASE Deliver /\ ~ReceiveRequested
  <2>1. /\ Published(DriverSub) = {r \in Ride : rSent'[r][DriverSub] > rSent[r][DriverSub]}
        /\ s = IF Published(DriverSub) = {} THEN q
               ELSE Append(q, CHOOSE m \in Published(DriverSub) : TRUE)
    BY <1>t, <1>5 DEF Deliver, Published
  <2>2. \A r \in Published(DriverSub) : r \in Ride /\ ~Asked(r) /\ Asked(r)'
    BY <2>1, AskedOnce DEF Asked, DriverSub
  <2>3. CASE s = q
    BY <1>4, <1>5, <2>3 DEF Shrunk
  <2>4. ASSUME NEW m \in Ride, ~Asked(m), Asked(m)', s = Append(q, m)
        PROVE  WaitingOK'
    <3>1. /\ s \in Seq(Ride)
          /\ \A i \in 1 .. Len(s) : s[i] = m \/ (i \in 1 .. Len(q) /\ s[i] = q[i])
      BY <1>q, <2>4
    <3>2. \A i \in 1 .. Len(q) : q[i] # m
      BY <1>q, <2>4
    <3>3. \A i, j \in 1 .. Len(s) : s[i] = s[j] => i = j
      BY <1>q, <2>4, <3>2
    <3>4. ~Given(m)' /\ ~Serves(m)'
      <4>1. ~Given(m) /\ ~Serves(m)
        BY <2>4 DEF Matched, ServingOK
      <4>. QED
        BY <1>5, <4>1, ServesOrigin
    <3>5. \A r \in Ride : Asked(r) /\ ~Given(r) /\ ~Serves(r) =>
            Asked(r)' /\ ~Given(r)' /\ ~Serves(r)'
      BY <1>5, <1>a, ServesOrigin
    <3>6. \A i \in 1 .. Len(s) : \E r \in Ride :
            s[i] = r /\ Asked(r)' /\ ~Given(r)' /\ ~Serves(r)'
      BY <1>q, <2>4, <3>1, <3>4, <3>5
    <3>. QED
      BY <1>1, <3>1, <3>3, <3>6
  <2>. QED
    BY <2>1, <2>2, <2>3, <2>4
<1>. QED
  BY <1>t, <1>3, <1>4, <1>5, InboxStep
-----------------------------------------------------------------------------
LEMMA DispatchInvariant == Spec => []Dispatch
<1>1. Init => Dispatch
  BY DEF Init, D!Idle, Subscription, Dispatch, WaitingOK, Matched, ServingOK, ToldOK,
         Given, Serves, Stage
<1>2. RP!IInv /\ RP!RequestOK /\ DP!IInv /\ DP!IInv' /\ Money /\ Dispatch /\ [Next]_vars
        => Dispatch'
  <2>. SUFFICES ASSUME RP!IInv, RP!RequestOK, DP!IInv, DP!IInv', Money, Dispatch, [Next]_vars
                PROVE  Dispatch'
    OBVIOUS
  <2>1. DOMAIN inbox = Subscription
    BY DEF Money, InboxOK
  <2>2. ToldOK'
    BY <2>1, ToldStep DEF Dispatch
  <2>. QED
    BY <2>1, <2>2, ServingStep, WaitingStep DEF Dispatch
<1>. QED
  BY <1>1, <1>2, ServiceInvariants, RequestInvariant, DriverInvariant, MoneyInvariant, PTL
     DEF Spec

\* By itself the platform gives a ride to one driver, and only a ride that was
\* offered, which is done once; and an assignment the ride-service has still to
\* take from its inbox has its row.
AssignmentsMatch ==
  /\ \A a, b \in dRecorded : a[2] = b[2] => a = b
  /\ \A a \in dRecorded : rSent[a[2]]["ride.requested"] = 1
  /\ \A i \in 1 .. Len(inbox[RideSub]) : inbox[RideSub][i] \in dRecorded

\* Whatever handlers of the ride-service race and whatever goes wrong, however
\* often, ride.requested and its callback book no ride with two drivers: every
\* offer is made once, is waited for once and is answered once at most.
THEOREM DispatchCorrect == Spec => []AssignmentsMatch
<1>1. RP!IInv /\ RP!RequestOK /\ DP!IInv /\ Dispatch => AssignmentsMatch
  <2>. SUFFICES ASSUME RP!IInv, RP!RequestOK, DP!IInv, Dispatch
                PROVE  AssignmentsMatch
    OBVIOUS
  <2>1. ASSUME NEW a \in dRecorded
        PROVE  rSent[a[2]]["ride.requested"] = 1
    <3>1. PICK d \in Driver, r \in Ride : a = <<d, r>>
      BY DEF DP!IInv, DP!TypeOK
    <3>2. Asked(r)
      BY <3>1 DEF Dispatch, Matched, Given
    <3>3. rSent[r]["ride.requested"] \in Nat /\ rSent[r]["ride.requested"] <= 1
      BY DEF RP!IInv, RP!TypeOK, RP!Subject, RP!RequestOK, RP!RequestedOnce
    <3>. QED
      BY <3>1, <3>2, <3>3 DEF Asked
  <2>. QED
    BY <2>1 DEF AssignmentsMatch, Dispatch, Matched, ToldOK
<1>. QED
  BY <1>1, ServiceInvariants, RequestInvariant, DriverInvariant, DispatchInvariant, PTL
-----------------------------------------------------------------------------
\* One ride per driver, while Redis takes every write.

\* The driver has an assignment, or the callback has chosen it for one.
Taken(d) == \E r \in Ride : <<d, r>> \in dRecorded
Picked(d) ==
  Stage \in {"setBusy", "cacheBusy", "record"} /\ dTask[DriverSub].driver = d

\* A driver is assigned once.
OneRidePerDriver == \A a, b \in dRecorded : a[1] = b[1] => a = b

\* Redis has a driver with an assignment as busy, and one that is about to get it.
Held ==
  /\ OneRidePerDriver
  /\ \A d \in Driver : /\ Taken(d) => dCache[d] = "busy" /\ ~Picked(d)
                       /\ Stage = "record" /\ Picked(d) => dCache[d] = "busy"

\* A step that records nothing, chooses nobody and frees nobody.
LEMMA HeldKept ==
  ASSUME Held, UNCHANGED dRecorded,
         \A d \in Driver : /\ dCache'[d] \in {dCache[d], "busy"}
                           /\ Picked(d)' => Picked(d)
                           /\ Stage' = "record" /\ Picked(d)' => dCache'[d] = "busy"
  PROVE  Held'
<1>1. \A d \in Driver : Taken(d)' <=> Taken(d)
  BY DEF Taken
<1>. QED
  BY <1>1 DEF Held, OneRidePerDriver

\* The callback's own steps.
LEMMA HeldContinue ==
  ASSUME "redis" \notin Faults, DP!IInv, ServingOK, Held, DriverContinue
  PROVE  Held'
<1>t. /\ dTask \in [{DriverSub} -> DP!Task]
      /\ dCache \in [Driver -> DP!Status \cup {"missing"}]
      /\ dRecorded \subseteq Driver \X Ride
  BY DEF DP!IInv, DP!TypeOK
<1>i. D!Idle.pc = "idle"
  BY DEF D!Idle
<1>1. CASE D!CacheStatus(DriverSub) \/ D!CachePlace(DriverSub)
  BY <1>1 DEF D!CacheStatus, D!CachePlace, D!At, ServingOK, Stage
<1>2. CASE D!Skip(DriverSub)
  <2>1. dTask' = [dTask EXCEPT ![DriverSub].left = Tail(@)] /\ Stage = "filter"
        /\ UNCHANGED <<dRecorded, dCache>>
    BY <1>2 DEF D!Skip, D!At, D!tables, D!redis, Stage
  <2>2. Stage' = "filter"
    BY <1>t, <2>1 DEF Stage, DP!Task
  <2>. QED
    BY <2>1, <2>2, HeldKept DEF Picked
<1>3. CASE D!Choose(DriverSub)
  <2>1. PICK c : c = Head(dTask[DriverSub].left)
    OBVIOUS
  <2>2. /\ dTask' = [dTask EXCEPT ![DriverSub].pc = "setBusy", ![DriverSub].left = <<>>,
                                  ![DriverSub].driver = c]
        /\ D!GetStatus(c) = "online"
        /\ UNCHANGED <<dRecorded, dCache>>
    BY <1>3, <2>1 DEF D!Choose, D!At, D!tables, D!redis
  <2>3. Stage' = "setBusy" /\ dTask'[DriverSub].driver = c
    BY <1>t, <2>2 DEF Stage, DP!Task
  <2>4. dCache[c] = "online"
    BY <2>2 DEF D!GetStatus
  <2>5. \A d \in Driver : (Taken(d)' <=> Taken(d)) /\ (Picked(d)' => d = c)
    BY <2>2, <2>3 DEF Taken, Picked
  <2>. QED
    BY <2>2, <2>3, <2>4, <2>5 DEF Held, OneRidePerDriver
<1>4. CASE D!Refuse(DriverSub) \/ D!PublishAssigned(DriverSub)
  <2>1. dTask' = [dTask EXCEPT ![DriverSub] = D!Idle] /\ UNCHANGED <<dRecorded, dCache>>
    BY <1>4 DEF D!Refuse, D!PublishAssigned, D!Return, D!tables, D!redis
  <2>2. Stage' = "idle"
    BY <1>t, <1>i, <2>1 DEF Stage
  <2>. QED
    BY <2>1, <2>2, HeldKept DEF Picked
<1>5. CASE D!SetBusy(DriverSub)
  <2>1. dTask' = [dTask EXCEPT ![DriverSub].pc = "cacheBusy"] /\ Stage = "setBusy"
        /\ UNCHANGED <<dRecorded, dCache>>
    BY <1>5 DEF D!SetBusy, D!Goto, D!At, D!redis, Stage
  <2>2. Stage' = "cacheBusy" /\ dTask'[DriverSub].driver = dTask[DriverSub].driver
    BY <1>t, <2>1 DEF Stage, DP!Task
  <2>. QED
    BY <2>1, <2>2, HeldKept DEF Picked
<1>6. CASE D!CacheBusy(DriverSub)
  <2>1. PICK c : c = dTask[DriverSub].driver
    OBVIOUS
  <2>2. /\ dTask' = [dTask EXCEPT ![DriverSub].pc = "record"] /\ Stage = "cacheBusy"
        /\ dCache' = [dCache EXCEPT ![c] = "busy"] /\ UNCHANGED dRecorded
    BY <1>6, <2>1 DEF D!CacheBusy, D!Goto, D!At, D!SetStatus, D!tables, Stage
  <2>3. Stage' = "record" /\ dTask'[DriverSub].driver = c
    BY <1>t, <2>1, <2>2 DEF Stage, DP!Task
  <2>4. \A d \in Driver : dCache'[d] \in {dCache[d], "busy"} /\ (d = c => dCache'[d] = "busy")
    BY <1>t, <2>2
  <2>. QED
    BY <2>1, <2>2, <2>3, <2>4, HeldKept DEF Picked
<1>7. CASE D!RecordAssignment(DriverSub)
  <2>1. PICK c \in Driver, q \in Ride :
          c = dTask[DriverSub].driver /\ q = dTask[DriverSub].ride
    BY <1>7 DEF D!RecordAssignment, D!At, DP!IInv, DP!TaskOK, DP!Sound
  <2>2. /\ dTask' = [dTask EXCEPT ![DriverSub].pc = "publish"] /\ Stage = "record"
        /\ dRecorded' = dRecorded \cup {<<c, q>>} /\ UNCHANGED dCache
    BY <1>7, <2>1 DEF D!RecordAssignment, D!Goto, D!At, D!redis, Stage
  <2>3. Stage' = "publish"
    BY <1>t, <2>2 DEF Stage, DP!Task
  <2>4. ~Taken(c) /\ dCache[c] = "busy"
    BY <2>1, <2>2 DEF Held, Picked
  <2>5. \A d \in Driver : (Taken(d)' => Taken(d) \/ d = c) /\ ~Picked(d)'
    BY <2>1, <2>2, <2>3 DEF Taken, Picked
  <2>6. ASSUME NEW a \in dRecorded
        PROVE  a = <<a[1], a[2]>> /\ a[1] # c
    <3>1. PICK d \in Driver, r \in Ride : a = <<d, r>>
      BY <1>t
    <3>. QED
      BY <2>4, <3>1 DEF Taken
  <2>7. OneRidePerDriver'
    BY <2>2, <2>6 DEF Held, OneRidePerDriver
  <2>. QED
    BY <2>2, <2>3, <2>4, <2>5, <2>7 DEF Held
<1>. QED
  BY <1>1, <1>2, <1>3, <1>4, <1>5, <1>6, <1>7 DEF DriverContinue, D!Continue

LEMMA HeldStep ==
  ASSUME "redis" \notin Faults, DP!IInv, ServingOK, Held, [Next]_vars
  PROVE  Held'
<1>t. dTask \in [{DriverSub} -> DP!Task]
  BY DEF DP!IInv, DP!TypeOK
<1>1. CASE DriverContinue
  BY <1>1, HeldContinue
<1>2. CASE ReceiveRequested
  <2>1. PICK q \in Ride : D!Search(DriverSub, q)
    BY <1>2 DEF ReceiveRequested
  <2>2. PICK l : dTask' = [dTask EXCEPT ![DriverSub] =
                             [D!Idle EXCEPT !.pc = "filter", !.ride = q, !.left = l]]
    BY <2>1 DEF D!Search, D!Call
  <2>3. Stage' = "filter" /\ UNCHANGED <<dRecorded, dCache>>
    BY <1>t, <2>1, <2>2 DEF Stage, D!Idle, D!Search, D!tables, D!redis
  <2>. QED
    BY <2>3, HeldKept DEF Picked
<1>3. CASE DriverFails \/ D!Crash
  <2>1. UNCHANGED <<dRecorded, dCache>> /\ dTask'[DriverSub].pc = "idle"
    BY <1>t, <1>3 DEF DriverFails, D!QueryFails, D!Return, D!Crash, D!tables, D!redis, D!Idle
  <2>. QED
    BY <2>1, HeldKept DEF Picked, Stage
<1>4. CASE UNCHANGED dVars
  <2>1. UNCHANGED <<dRecorded, dCache, dTask>>
    BY <1>4 DEF dVars
  <2>. QED
    BY <2>1, HeldKept DEF Held, Picked, Stage
<1>. QED
  BY <1>1, <1>2, <1>3, <1>4, DriverAlone

\* Where no Redis command fails, the callbacks give a driver one ride, whatever
\* else goes wrong: a driver is recorded only after Redis has it as busy.  A write
\* to Redis whose error the callback ignores leaves the driver online there, and
\* the next ride gets it too.  (No driver calls in this module: one that goes online
\* again is booked again, as it should be.)
THEOREM DriversGetOneRide ==
  ASSUME "redis" \notin Faults
  PROVE  Spec => []OneRidePerDriver
<1>1. Init => Held
  BY DEF Init, D!Idle, Held, OneRidePerDriver, Taken, Picked, Stage
<1>2. DP!IInv /\ Dispatch /\ Held /\ [Next]_vars => Held'
  BY HeldStep DEF Dispatch
<1>3. Held => OneRidePerDriver
  BY DEF Held
<1>. QED
  BY <1>1, <1>2, <1>3, DriverInvariant, DispatchInvariant, PTL DEF Spec
-----------------------------------------------------------------------------
\* The platform.

\* The state functions of the refinement, by name.
Outcome(r) == IF rStatus[r] \in R!Terminal THEN rStatus[r] ELSE "open"
Outcomes == [r \in Ride |-> Outcome(r)]
Offered == {r \in Ride : rSent[r]["ride.requested"] > 0}
Charged == UNION {charges[r] \X {r} : r \in Ride}
Refunded == {<<p, pRide[p]>> : p \in {q \in P!Payment : pStatus[q] = "refunded"}}

\* The callback for ride.completed numbers its payments upwards.
ChargesNumbered == \A r \in Ride : \A p \in charges[r] : p < pNext

LEMMA TerminalFlow == R!Terminal = {"completed", "cancelled"}
BY DEF R!Terminal, R!Statuses, R!allowedTransitions

\* A step that changes nothing the platform shows.
LEMMA Unseen ==
  ASSUME UNCHANGED <<rStatus, dRecorded, charges, pStatus, pRide>>,
         \A r \in Ride : rSent'[r]["ride.requested"] = rSent[r]["ride.requested"]
  PROVE  UNCHANGED Platform!vars
<1>1. Outcomes' = Outcomes /\ Offered' = Offered /\ Charged' = Charged /\ Refunded' = Refunded
  BY DEF Outcomes, Outcome, Offered, Charged, Refunded, P!Payment
<1>. QED
  BY <1>1 DEF Platform!vars, Outcomes, Outcome, Offered, Charged, Refunded

\* A new call to the ride-service, or its callback for driver.assigned.
LEMMA PlatformBegin ==
  ASSUME RP!IInv, NEW w \in Client \cup {RideSub}, R!Begin(w),
         UNCHANGED <<dRecorded, charges, pStatus, pRide>>
  PROVE  [Platform!Next]_(Platform!vars)
<1>t. rStatus \in [Ride -> R!Statuses \cup {"absent"}]
  BY DEF RP!IInv, RP!TypeOK, R!Statuses, RP!Statuses
<1>s. UNCHANGED rSent
  <2>1. ASSUME NEW p \in Passenger, NEW scheduled \in BOOLEAN, R!ListByUser(w, p, scheduled)
        PROVE  UNCHANGED rSent
    BY <2>1 DEF R!ListByUser, R!events
  <2>2. ASSUME NEW r, NEW to, R!UpdateStatusWithHistory(w, r, to)
        PROVE  UNCHANGED rSent
    BY <2>2 DEF R!UpdateStatusWithHistory, R!Commit, R!events
  <2>3. ASSUME NEW r, NEW d, R!AssignDriver(w, r, d)
        PROVE  UNCHANGED rSent
    BY <2>3 DEF R!AssignDriver, R!Commit, R!events
  <2>. QED
    BY <2>1, <2>2, <2>3 DEF R!Begin
<1>1. ASSUME NEW r \in Ride, NEW to \in R!Statuses,
             rStatus' = [rStatus EXCEPT ![r] = to], rStatus[r] \notin R!Terminal
      PROVE  [Platform!Next]_(Platform!vars)
  <2>1. \A q \in Ride : Outcome(q)' = IF q = r /\ to \in R!Terminal THEN to ELSE Outcome(q)
    BY <1>t, <1>1 DEF Outcome
  <2>2. Offered' = Offered /\ Charged' = Charged /\ Refunded' = Refunded
    BY <1>s DEF Offered, Charged, Refunded, P!Payment
  <2>3. CASE to \in R!Terminal
    <3>1. Outcomes[r] = "open" /\ Outcomes' = [Outcomes EXCEPT ![r] = to]
      BY <1>1, <2>1, <2>3 DEF Outcomes, Outcome
    <3>2. Platform!End(r, to)
      BY <2>2, <3>1 DEF Platform!End, Outcomes, Outcome, Offered, Charged, Refunded
    <3>. QED
      BY <2>3, <3>2, TerminalFlow DEF Platform!Next
  <2>4. CASE to \notin R!Terminal
    <3>1. Outcomes' = Outcomes
      BY <2>1, <2>4 DEF Outcomes
    <3>. QED
      BY <2>2, <3>1 DEF Platform!vars, Outcomes, Outcome, Offered, Charged, Refunded
  <2>. QED
    BY <2>3, <2>4
<1>2. ASSUME NEW p \in Passenger, NEW scheduled \in BOOLEAN, R!ListByUser(w, p, scheduled)
      PROVE  [Platform!Next]_(Platform!vars)
  BY <1>2, <1>s, Unseen DEF R!ListByUser, R!tables
<1>3. ASSUME NEW r \in Ride, NEW to \in R!Statuses, R!UpdateStatusWithHistory(w, r, to)
      PROVE  [Platform!Next]_(Platform!vars)
  <2>1. rStatus' = [rStatus EXCEPT ![r] = to] /\ R!CanTransition(rStatus[r], to)
    BY <1>3 DEF R!UpdateStatusWithHistory, R!Commit
  <2>2. rStatus[r] \notin R!Terminal
    BY <2>1, TerminalFlow DEF R!CanTransition, R!allowedTransitions
  <2>. QED
    BY <1>1, <2>1, <2>2
<1>4. ASSUME NEW r \in Ride, NEW d \in Driver, R!AssignDriver(w, r, d)
      PROVE  [Platform!Next]_(Platform!vars)
  <2>1. /\ rStatus' = [rStatus EXCEPT ![r] = "driver_assigned"]
        /\ rStatus[r] = "requested" /\ "driver_assigned" \in R!Statuses
    BY <1>4 DEF R!AssignDriver, R!Commit, R!Statuses
  <2>2. rStatus[r] \notin R!Terminal
    BY <2>1, TerminalFlow
  <2>. QED
    BY <1>1, <2>1, <2>2
<1>. QED
  BY <1>2, <1>3, <1>4 DEF R!Begin

\* A handler of the ride-service goes on: PublishRequested offers the ride.
LEMMA PlatformRide ==
  ASSUME RP!IInv, RP!RequestOK, [Next]_vars, NEW w \in Client \cup {RideSub}, RideContinue(w)
  PROVE  [Platform!Next]_(Platform!vars)
<1>t. /\ rStatus \in [Ride -> R!Statuses \cup {"absent"}]
      /\ rSent \in [Ride -> [RP!Subject -> Nat]]
      /\ rTask \in [Client \cup {RideSub} -> RP!Task]
  BY DEF RP!IInv, RP!TypeOK, R!Statuses, RP!Statuses
<1>u. R!Continue(w) /\ UNCHANGED <<dRecorded, charges, pStatus, pRide>>
  BY DEF RideContinue, dVars, pVars
<1>r. PICK r : r = rTask[w].ride
  OBVIOUS
<1>1. CASE R!CreateWithHistory(w)
  <2>1. PICK q \in Ride : rStatus[q] = "absent" /\ rStatus' = [rStatus EXCEPT ![q] = "requested"]
    BY <1>1 DEF R!CreateWithHistory, R!Exists
  <2>2. UNCHANGED rSent
    BY <1>1 DEF R!CreateWithHistory, R!events
  <2>3. \A p \in Ride : Outcome(p)' = Outcome(p)
    BY <1>t, <2>1, TerminalFlow DEF Outcome
  <2>4. Outcomes' = Outcomes /\ Offered' = Offered /\ Charged' = Charged /\ Refunded' = Refunded
    BY <1>u, <2>2, <2>3 DEF Outcomes, Offered, Charged, Refunded, P!Payment
  <2>. QED
    BY <1>u, <2>4 DEF Platform!vars, Outcomes, Outcome, Offered, Charged, Refunded
<1>2. CASE R!PublishRequested(w)
  <2>1. UNCHANGED rStatus
    BY <1>2 DEF R!PublishRequested, R!tables
  <2>2. CASE UNCHANGED rSent
    BY <1>u, <2>1, <2>2, Unseen
  <2>3. CASE rSent' = [rSent EXCEPT ![r]["ride.requested"] = @ + 1]
    <3>1. r \in Ride
      BY <1>2, <1>r DEF R!PublishRequested, R!At, RP!IInv, RP!TaskOK
    <3>2. \A q \in Ride : rSent'[q]["ride.requested"] =
            IF q = r THEN rSent[q]["ride.requested"] + 1 ELSE rSent[q]["ride.requested"]
      BY <1>t, <2>3, <3>1 DEF RP!Subject
    <3>3. r \notin Offered /\ Offered' = Offered \cup {r}
      BY <3>1, <3>2, AskedOnce DEF Offered
    <3>4. Outcomes' = Outcomes /\ Charged' = Charged /\ Refunded' = Refunded
      BY <1>u, <2>1 DEF Outcomes, Outcome, Charged, Refunded, P!Payment
    <3>5. Platform!Offer(r)
      BY <1>u, <3>3, <3>4 DEF Platform!Offer, Outcomes, Outcome, Offered, Charged, Refunded
    <3>. QED
      BY <3>1, <3>5 DEF Platform!Next
  <2>. QED
    BY <1>2, <1>r, <2>2, <2>3 DEF R!PublishRequested, R!Publish
<1>3. CASE R!SavePriceEstimation(w) \/ R!GetByID(w) \/ R!PublishStatusChanged(w)
  BY <1>3, <1>u, Unseen
     DEF R!SavePriceEstimation, R!GetByID, R!PublishStatusChanged, R!PublishChange,
         R!tables, R!events
<1>4. CASE R!PublishScheduled(w) \/ R!PublishOutcome(w)
  <2>1. UNCHANGED rStatus
    BY <1>4 DEF R!PublishScheduled, R!PublishOutcome, R!tables
  <2>2. PICK o \in {"ride.scheduled", "ride.completed", "ride.cancelled"} : R!Publish(r, o)
    BY <1>4, <1>r DEF R!PublishScheduled, R!PublishOutcome, R!OutcomeSubject
  <2>3. \A q \in Ride : rSent'[q]["ride.requested"] = rSent[q]["ride.requested"]
    BY <1>t, <2>2 DEF R!Publish, RP!Subject
  <2>. QED
    BY <1>u, <2>1, <2>3, Unseen
<1>. QED
  BY <1>u, <1>1, <1>2, <1>3, <1>4 DEF R!Continue

\* The callback for ride.requested goes on: RecordAssignment assigns the ride.
LEMMA PlatformDriver ==
  ASSUME DP!IInv, Matched, ServingOK, DriverContinue
  PROVE  [Platform!Next]_(Platform!vars)
<1>u. /\ D!Continue(DriverSub)
      /\ UNCHANGED <<rStatus, rSent, charges, pStatus, pRide>>
  BY DEF DriverContinue, rVars, pVars
<1>1. CASE UNCHANGED dRecorded
  BY <1>u, <1>1, Unseen
<1>2. CASE D!RecordAssignment(DriverSub)
  <2>1. PICK d \in Driver, r \in Ride : d = dTask[DriverSub].driver /\ r = dTask[DriverSub].ride
    BY <1>2 DEF D!RecordAssignment, D!At, DP!IInv, DP!TaskOK, DP!Sound
  <2>2. Stage = "record" /\ dRecorded' = dRecorded \cup {<<d, r>>}
    BY <1>2, <2>1 DEF D!RecordAssignment, D!At, Stage
  <2>3. Asked(r) /\ ~Given(r)
    BY <2>1, <2>2 DEF ServingOK, Serves
  <2>4. \A a \in dRecorded : a[2] # r
    <3>. SUFFICES ASSUME NEW a \in dRecorded PROVE a[2] # r
      OBVIOUS
    <3>1. PICK e \in Driver, q \in Ride : a = <<e, q>>
      BY DEF DP!IInv, DP!TypeOK
    <3>. QED
      BY <2>3, <3>1 DEF Given
  <2>5. Outcomes' = Outcomes /\ Offered' = Offered /\ Charged' = Charged /\ Refunded' = Refunded
    BY <1>u DEF Outcomes, Outcome, Offered, Charged, Refunded, P!Payment
  <2>6. Platform!Assign(d, r)
    BY <2>2, <2>3, <2>4, <2>5
       DEF Platform!Assign, Asked, Outcomes, Outcome, Offered, Charged, Refunded
  <2>. QED
    BY <2>6 DEF Platform!Next
<1>3. \/ UNCHANGED dRecorded
      \/ D!RecordAssignment(DriverSub)
  BY <1>u DEF D!Continue, D!CacheStatus, D!CachePlace, D!Skip, D!Choose, D!Refuse, D!SetBusy,
     D!CacheBusy, D!PublishAssigned, D!tables, D!redis
<1>. QED
  BY <1>1, <1>2, <1>3

\* The callback for ride.completed charges a completed ride that has no charge,
\* with a payment that has no ride.
LEMMA PlatformCharge ==
  ASSUME RP!IInv, PP!IInv, Money, ChargesNumbered, ReceiveCompleted
  PROVE  [Platform!Next]_(Platform!vars)
<1>. DEFINE c == "ride.completed"
            q == inbox[c]
<1>1. PICK r \in Ride :
        /\ q # <<>> /\ r = Head(q)
        /\ P!Create(c, r, TRUE)
        /\ charges' = [charges EXCEPT ![r] = @ \cup {pNext}]
  BY DEF ReceiveCompleted, Receive
<1>2. charges[r] = {} /\ Announced(r, c)
  <2>1. c \in PaymentSubs /\ q \in Seq(Ride)
    BY DEF PaymentSubs, Money, InboxOK
  <2>2. 1 \in 1 .. Len(q) /\ q[1] = r
    BY <1>1, <2>1
  <2>. QED
    BY <2>1, <2>2 DEF Money, InboxOK, ChargesOK
<1>3. Outcome(r) = "completed"
  BY <1>2, TerminalFlow DEF Outcome, Announced, RP!IInv, RP!OneOutcome
<1>4. pNext \in P!Payment /\ UNCHANGED <<pStatus, pRide>>
  <2>1. pNext \in 1 .. MaxPayments + 1 /\ pNext <= MaxPayments
    BY <1>1 DEF P!Create, PP!IInv, PP!TypeOK
  <2>. QED
    BY <1>1, <2>1, PaymentAssumption DEF P!Create, P!tables, P!Payment
<1>5. charges \in [Ride -> SUBSET Nat]
  BY DEF Money, ChargesOK
<1>6. Charged' = Charged \cup {<<pNext, r>>}
  BY <1>1, <1>2, <1>5 DEF Charged
<1>7. \A a \in Charged : a[1] # pNext /\ a[2] # r
  <2>. SUFFICES ASSUME NEW a \in Charged PROVE a[1] # pNext /\ a[2] # r
    OBVIOUS
  <2>1. PICK b \in Ride : a \in charges[b] \X {b}
    BY DEF Charged
  <2>2. PICK p \in charges[b] : a = <<p, b>>
    BY <2>1
  <2>3. p \in Nat /\ p < pNext /\ pNext \in Nat
    BY <1>4, <1>5, <2>2, PaymentAssumption DEF ChargesNumbered, P!Payment
  <2>. QED
    BY <1>2, <2>2, <2>3
<1>8. Outcomes' = Outcomes /\ Offered' = Offered /\ dRecorded' = dRecorded /\ Refunded' = Refunded
  BY <1>4 DEF ReceiveCompleted, rVars, dVars, Outcomes, Outcome, Offered, Refunded, P!Payment
<1>9. Outcomes[r] = "completed"
  BY <1>3 DEF Outcomes
<1>10. Platform!Charge(pNext, r)
  BY <1>6, <1>7, <1>8, <1>9
     DEF Platform!Charge, Outcomes, Outcome, Offered, Charged, Refunded
<1>. QED
  BY <1>4, <1>10 DEF Platform!Next

\* A handler or a callback of the payment-service goes on: UpdateStatusWithEvent
\* refunds a payment of a cancelled ride.
LEMMA PlatformPayment ==
  ASSUME RP!IInv, PP!IInv, Money, NEW w \in Client \cup PaymentSubs, PaymentContinue(w)
  PROVE  [Platform!Next]_(Platform!vars)
<1>t. /\ pTask \in [Client \cup PaymentSubs -> PP!Task]
      /\ pStatus \in [P!Payment -> PP!Status \cup {"absent"}]
      /\ pRide \in [P!Payment -> Ride \cup {None}]
  BY DEF PP!IInv, PP!TypeOK, PP!Payment, P!Payment
<1>u. P!Continue(w) /\ UNCHANGED <<rStatus, rSent, dRecorded, charges>>
  BY DEF PaymentContinue, rVars, dVars
<1>o. Outcomes' = Outcomes /\ Offered' = Offered /\ Charged' = Charged
  BY <1>u DEF Outcomes, Outcome, Offered, Charged
<1>k. UNCHANGED Refunded => UNCHANGED Platform!vars
  BY <1>u, <1>o DEF Platform!vars, Outcomes, Outcome, Offered, Charged, Refunded
<1>. DEFINE p == pTask[w].pay
            to == pTask[w].to
<1>1. CASE P!CreateWithEvent(w)
  <2>1. /\ pStatus' = [pStatus EXCEPT ![p] = "pending"]
        /\ pRide' = [pRide EXCEPT ![p] = pTask[w].ride]
        /\ pStatus[p] = "absent" /\ p \in P!Payment
    BY <1>1 DEF P!CreateWithEvent, P!At, PP!IInv, PP!TaskOK, PP!At, PP!Payment, P!Payment
  <2>2. \A i \in P!Payment : /\ pStatus'[i] = "refunded" <=> pStatus[i] = "refunded"
                             /\ pStatus[i] = "refunded" => pRide'[i] = pRide[i]
    BY <1>t, <2>1
  <2>3. Refunded' = Refunded
    BY <2>2 DEF Refunded, P!Payment
  <2>. QED
    BY <1>k, <2>3
<1>2. CASE P!UpdateStatusWithEvent(w)
  <2>1. /\ P!CanTransition(pStatus[p], to)
        /\ pStatus' = [pStatus EXCEPT ![p] = to]
        /\ UNCHANGED pRide
    BY <1>2 DEF P!UpdateStatusWithEvent
  <2>2. p \in P!Payment
    BY <1>2 DEF P!UpdateStatusWithEvent, P!At, PP!IInv, PP!TaskOK, PP!At, PP!Payment, P!Payment
  <2>3. pStatus[p] # "refunded"
    BY <2>1 DEF P!CanTransition
  <2>4. \A i \in P!Payment : pStatus'[i] = IF i = p THEN to ELSE pStatus[i]
    BY <1>t, <2>1
  <2>5. CASE to = "refunded"
    <3>1. PICK r \in Ride : r = pRide[p] /\ Announced(r, "ride.cancelled")
      BY <2>5 DEF Money, RefundsOK, Refundable
    <3>2. Outcomes[r] = "cancelled"
      BY <3>1, TerminalFlow DEF Outcomes, Outcome, Announced, RP!IInv, RP!OneOutcome
    <3>3. Refunded' = Refunded \cup {<<p, r>>}
      BY <2>1, <2>2, <2>4, <2>5, <3>1 DEF Refunded, P!Payment
    <3>4. \A a \in Refunded : a[1] # p
      BY <2>3 DEF Refunded
    <3>5. Platform!Refund(p, r)
      BY <1>u, <1>o, <3>2, <3>3, <3>4
         DEF Platform!Refund, Outcomes, Outcome, Offered, Charged, Refunded
    <3>. HIDE DEF p
    <3>. QED
      BY <2>2, <3>5 DEF Platform!Next
  <2>6. CASE to # "refunded"
    <3>1. Refunded' = Refunded
      BY <2>1, <2>3, <2>4, <2>6 DEF Refunded, P!Payment
    <3>. QED
      BY <1>k, <3>1
  <2>. QED
    BY <2>5, <2>6
<1>3. CASE P!PublishCreated(w) \/ P!RefuseUpdate(w) \/ P!GetByID(w) \/ P!PublishOutcome(w)
  <2>1. UNCHANGED <<pStatus, pRide>>
    BY <1>3 DEF P!PublishCreated, P!RefuseUpdate, P!GetByID, P!PublishOutcome, P!tables
  <2>. QED
    BY <1>u, <2>1, Unseen
<1>. QED
  BY <1>u, <1>1, <1>2, <1>3 DEF P!Continue

\* The callback for ride.cancelled only reads.
LEMMA CancelledReads ==
  ASSUME ReceiveCancelled
  PROVE  UNCHANGED <<pNext, pStatus, pRide>>
<1>1. ASSUME NEW r \in Ride, P!GetByRide("ride.cancelled", r)
      PROVE  UNCHANGED <<pNext, pStatus, pRide>>
  BY <1>1 DEF P!GetByRide, P!tables
<1>2. ASSUME UNCHANGED pVars
      PROVE  UNCHANGED <<pNext, pStatus, pRide>>
  BY <1>2 DEF pVars
<1>. QED
  BY <1>1, <1>2 DEF ReceiveCancelled

\* The numbering of the charges.
LEMMA NumberingStep ==
  ASSUME PP!IInv, Money, ChargesNumbered, [Next]_vars
  PROVE  ChargesNumbered'
<1>t. pNext \in Nat /\ charges \in [Ride -> SUBSET Nat]
  BY PaymentAssumption DEF PP!IInv, PP!TypeOK, Money, ChargesOK
<1>1. ASSUME pNext' = pNext \/ pNext' = pNext + 1, UNCHANGED charges
      PROVE  ChargesNumbered'
  <2>. SUFFICES ASSUME NEW r \in Ride, NEW p \in charges[r] PROVE p < pNext'
    BY <1>1 DEF ChargesNumbered
  <2>1. p \in Nat /\ p < pNext
    BY <1>t DEF ChargesNumbered
  <2>. QED
    BY <1>t, <1>1, <2>1
<1>2. CASE ReceiveCompleted
  <2>1. PICK r \in Ride : /\ pNext' = pNext + 1
                          /\ charges' = [charges EXCEPT ![r] = @ \cup {pNext}]
    BY <1>2 DEF ReceiveCompleted, P!Create
  <2>. SUFFICES ASSUME NEW q \in Ride, NEW p \in charges'[q] PROVE p < pNext'
    BY DEF ChargesNumbered
  <2>2. p = pNext \/ (p \in Nat /\ p < pNext)
    BY <1>t, <2>1 DEF ChargesNumbered
  <2>. QED
    BY <1>t, <2>1, <2>2
<1>3. CASE PaymentCall
  BY <1>1, <1>3 DEF PaymentCall, P!Create
<1>4. CASE ReceiveCancelled
  <2>1. UNCHANGED <<pNext, charges>>
    BY <1>4, CancelledReads DEF ReceiveCancelled
  <2>. QED
    BY <1>1, <2>1
<1>5. ASSUME NEW w \in Client \cup PaymentSubs, PaymentContinue(w)
      PROVE  ChargesNumbered'
  BY <1>1, <1>5 DEF PaymentContinue, P!Continue, P!CreateWithEvent, P!PublishCreated,
     P!UpdateStatusWithEvent, P!RefuseUpdate, P!GetByID, P!PublishOutcome
<1>6. CASE RideCall \/ ReceiveAssigned \/ ReceiveRequested \/ DriverMoves \/ UNCHANGED vars
  BY <1>1, <1>6 DEF RideCall, ReceiveAssigned, ReceiveRequested, DriverMoves, DriverContinue,
                    DriverFails, vars, pVars
<1>7. ASSUME NEW w \in Client \cup {RideSub}, RideMoves(w)
      PROVE  ChargesNumbered'
  BY <1>1, <1>7 DEF RideMoves, RideContinue, RideFails, pVars
<1>8. CASE Crash \/ CallbackFails \/ \E w \in Client \cup PaymentSubs : PaymentFails(w)
  BY <1>1, <1>8 DEF Crash, P!Crash, CallbackFails, PaymentFails, P!QueryFails, pVars
<1>. QED
  BY <1>2, <1>3, <1>4, <1>5, <1>6, <1>7, <1>8 DEF Next, Callback, PaymentMoves

LEMMA NumberingInvariant == Spec => []ChargesNumbered
<1>1. Init => ChargesNumbered
  BY DEF Init, ChargesNumbered
<1>. QED
  BY <1>1, NumberingStep, ServiceInvariants, MoneyInvariant, PTL DEF Spec

\* Every step of the three services offers, assigns, ends, charges or refunds one
\* ride as the platform may, or does nothing it shows: the flow, with any number
\* of rides, clients, drivers, payments and faults of every kind, implements
\* RidePlatform.
THEOREM PlatformImplemented == Spec => ImplementsPlatform
<1>1. Init => Platform!Init
  <2>. SUFFICES ASSUME Init PROVE Platform!Init
    OBVIOUS
  <2>1. /\ rStatus = [r \in Ride |-> "absent"]
        /\ \A r \in Ride : rSent[r]["ride.requested"] = 0
    BY DEF Init, R!Init, R!Subject
  <2>2. Outcomes = [r \in Ride |-> "open"] /\ Offered = {}
    BY <2>1, TerminalFlow DEF Outcomes, Outcome, Offered
  <2>3. Charged = {} /\ Refunded = {} /\ dRecorded = {}
    BY DEF Init, P!Init, Charged, Refunded
  <2>. QED
    BY <2>2, <2>3 DEF Platform!Init, Outcomes, Outcome, Offered, Charged, Refunded
<1>2. ASSUME RP!IInv, RP!RequestOK, PP!IInv, DP!IInv, Money, Dispatch, ChargesNumbered,
             [Next]_vars
      PROVE  [Platform!Next]_(Platform!vars)
  <2>1. CASE RideCall
    <3>1. PICK w \in Client \cup {RideSub} : R!Begin(w)
      BY <2>1 DEF RideCall
    <3>2. UNCHANGED <<dRecorded, charges, pStatus, pRide>>
      BY <2>1 DEF RideCall, dVars, pVars
    <3>. QED
      BY <1>2, <3>1, <3>2, PlatformBegin
  <2>2. CASE ReceiveAssigned
    <3>1. UNCHANGED <<dRecorded, charges, pStatus, pRide>>
      BY <2>2 DEF ReceiveAssigned, dVars, pVars
    <3>2. UNCHANGED rVars \/ R!Begin(RideSub)
      BY <2>2 DEF ReceiveAssigned, R!Begin
    <3>3. CASE UNCHANGED rVars
      BY <3>1, <3>3, Unseen DEF rVars
    <3>4. CASE R!Begin(RideSub)
      BY <1>2, <3>1, <3>4, PlatformBegin
    <3>. QED
      BY <3>2, <3>3, <3>4
  <2>3. ASSUME NEW w \in Client \cup {RideSub}, RideContinue(w)
        PROVE  [Platform!Next]_(Platform!vars)
    BY <1>2, <2>3, PlatformRide
  <2>4. CASE DriverContinue
    BY <1>2, <2>4, PlatformDriver DEF Dispatch
  <2>5. CASE ReceiveRequested
    BY <2>5, Unseen DEF ReceiveRequested, D!Search, D!tables, rVars, pVars
  <2>6. CASE PaymentCall
    BY <2>6, Unseen DEF PaymentCall, P!Create, P!tables, rVars, dVars
  <2>7. CASE ReceiveCompleted
    BY <1>2, <2>7, PlatformCharge
  <2>8. CASE ReceiveCancelled
    BY <2>8, CancelledReads, Unseen DEF ReceiveCancelled, rVars, dVars
  <2>9. ASSUME NEW w \in Client \cup PaymentSubs, PaymentContinue(w)
        PROVE  [Platform!Next]_(Platform!vars)
    BY <1>2, <2>9, PlatformPayment
  <2>10. CASE Crash
    BY <2>10, Unseen DEF Crash, R!Crash, R!tables, R!events, D!Crash, D!tables, D!redis,
       P!Crash, P!tables, rVars, dVars, pVars
  <2>11. CASE UNCHANGED vars
    BY <2>11, Unseen DEF vars, rVars, dVars, pVars
  <2>12. CASE \/ CallbackFails \/ DriverFails
              \/ \E w \in Client \cup {RideSub} : RideFails(w)
              \/ \E w \in Client \cup PaymentSubs : PaymentFails(w)
    BY <2>12, Unseen
    DEF CallbackFails, DriverFails, RideFails, PaymentFails, R!QueryFails, R!tables, R!events,
        D!QueryFails, D!tables, P!QueryFails, P!tables, rVars, dVars, pVars
  <2>. QED
    BY <1>2, <2>1, <2>2, <2>3, <2>4, <2>5, <2>6, <2>7, <2>8, <2>9, <2>10, <2>11,
       <2>12 DEF Next, Callback, RideMoves, DriverMoves, PaymentMoves
<1>. QED
  BY <1>1, <1>2, ServiceInvariants, RequestInvariant, DriverInvariant, MoneyInvariant,
     DispatchInvariant, NumberingInvariant, PTL
     DEF Spec, ImplementsPlatform, Platform!Spec
=============================================================================
