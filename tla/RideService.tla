---------------------------- MODULE RideService ----------------------------
(***************************************************************************)
(* The ride-service: its PostgreSQL tables, its handlers, and the events   *)
(* it hands to NATS.  A Worker is one call in flight (a gRPC request or    *)
(* one driver.assigned callback).  A handler is a chain of steps; each     *)
(* step is one access to something shared: a query, a transaction, or a    *)
(* publication.  A call whose first step is refused (ride not found,       *)
(* transition not allowed, passenger already riding) changes nothing and   *)
(* is not a step.  The two row-locking transactions of the repository are  *)
(* single steps: SELECT ... FOR UPDATE keeps every other writer of the row *)
(* out until the commit.                                                   *)
(***************************************************************************)
EXTENDS Integers, Sequences, FiniteSets, RideStatus

CONSTANTS Ride,       \* the identifiers uuid.NewString() can return
          Passenger, Driver,
          Worker,     \* the calls that can be in flight at once
          None,       \* no ride, no passenger, driver_id IS NULL
          PageSize,   \* the limit Create passes to ListByUser, 100
          Faults,     \* the faults the environment may inject
          MaxFeedback \* bound on ride.rejected and ride.rated per ride

FaultKinds == {"crash",     \* the process dies, its calls with it
               "query",     \* the database refuses a query, or the caller's context ends
               "publish"}   \* nc.PublishMsg fails; every caller ignores it

ASSUME FaultsAssumption == Faults \subseteq FaultKinds
ASSUME BoundAssumption == MaxFeedback \in Nat
ASSUME PageAssumption == PageSize \in Nat \ {0}
ASSUME NoneAssumption == None \notin Ride \cup Passenger \cup Driver
-----------------------------------------------------------------------------
VARIABLES
  status,    \* rides.status, "absent" when there is no row
  passenger, \* rides.passenger_id
  driver,    \* rides.driver_id
  history,   \* rows of ride_status_history, in order
  created,   \* the stored rides in the order of created_at
  estimated, \* rides with a row in ride_price_estimations
  task,      \* what each worker is doing
  sent,      \* publications per ride and subject
  told       \* statuses published on ride.status_changed, per ride

tables == <<status, passenger, driver, history, created, estimated>>
events == <<sent, told>>
vars == <<tables, task, events>>

\* The subjects counted in sent; ride.status_changed is kept in told.
Subject == {"ride.requested", "ride.scheduled", "ride.completed",
            "ride.cancelled", "ride.rejected", "ride.rated"}

OutcomeSubject(s) ==
  IF s = "completed" THEN "ride.completed" ELSE "ride.cancelled"

Stage == {"idle", "insert", "estimate", "pubRequested", "pubScheduled",
          "reread", "pubChanged", "pubOutcome"}

Task == [pc : Stage, ride : Ride \cup {None}, who : Passenger \cup {None},
         to : Statuses, seen : Statuses, scheduled : BOOLEAN]

Idle == [pc |-> "idle", ride |-> None, who |-> None,
         to |-> "requested", seen |-> "requested", scheduled |-> FALSE]

Exists(r) == status[r] # "absent"

\* What ListByUser returns: of the rides that the user ordered or drives, the
\* PageSize created last.  A user may be passenger of one ride and driver of
\* another: AcceptRide takes the driver from the body of its request.
RidesOf(p) ==
  LET Matching == {i \in DOMAIN created :
                     passenger[created[i]] = p \/ driver[created[i]] = p}
      Newer(i) == {k \in Matching : k > i}
  IN  {created[i] : i \in {j \in Matching : Cardinality(Newer(j)) < PageSize}}

Init ==
  /\ status = [r \in Ride |-> "absent"]
  /\ passenger = [r \in Ride |-> None]
  /\ driver = [r \in Ride |-> None]
  /\ history = [r \in Ride |-> <<>>]
  /\ created = <<>>
  /\ estimated = {}
  /\ task = [w \in Worker |-> Idle]
  /\ sent = [r \in Ride |-> [s \in Subject |-> 0]]
  /\ told = [r \in Ride |-> {}]
-----------------------------------------------------------------------------
\* The worker's call returns.
Return(w) == task' = [task EXCEPT ![w] = Idle]
Goto(w, stage) == task' = [task EXCEPT ![w].pc = stage]
At(w, stage) == task[w].pc = stage

\* Bus.Publish; the error it may return is assigned to _ everywhere.
Publish(r, subject) ==
  /\ \/ sent' = [sent EXCEPT ![r][subject] = @ + 1]
     \/ "publish" \in Faults /\ UNCHANGED sent
  /\ UNCHANGED told

\* Publication of ride.status_changed with status s.
PublishChange(r, s) ==
  /\ \/ told' = [told EXCEPT ![r] = @ \cup {s}]
     \/ "publish" \in Faults /\ UNCHANGED told
  /\ UNCHANGED sent
-----------------------------------------------------------------------------
\* CreateRide and ScheduleRide.

\* Create reads the passenger's rides and goes on when none is active.
ListByUser(w, p, scheduled) ==
  /\ At(w, "idle")
  /\ \A r \in RidesOf(p) : ~IsActiveStatus(status[r])
  /\ task' = [task EXCEPT ![w] = [Idle EXCEPT !.pc = "insert", !.who = p,
                                              !.scheduled = scheduled]]
  /\ UNCHANGED <<tables, events>>

\* A transaction that forgets the first history row.
CreateWithHistory_NoHistory(w) ==
  /\ At(w, "insert")
  /\ \E r \in Ride :
       /\ ~Exists(r)
       /\ status' = [status EXCEPT ![r] = "requested"]
       /\ passenger' = [passenger EXCEPT ![r] = task[w].who]
       /\ created' = Append(created, r)
       /\ task' = [task EXCEPT ![w].pc = "estimate", ![w].ride = r]
  /\ UNCHANGED <<driver, history, estimated, events>>

\* The transaction that inserts the ride and its first history row.  The clock
\* is read for created_at just before; two calls that cross are taken to store
\* their rides in that order.  When only the answer to the commit is lost, the rows are
\* there but Create returns the error.
CreateWithHistory(w) ==
  /\ At(w, "insert")
  /\ \E r \in Ride :
       /\ ~Exists(r)
       /\ status' = [status EXCEPT ![r] = "requested"]
       /\ passenger' = [passenger EXCEPT ![r] = task[w].who]
       /\ created' = Append(created, r)
       /\ history' = [history EXCEPT ![r] = <<"requested">>]
       /\ \/ task' = [task EXCEPT ![w].pc = "estimate", ![w].ride = r]
          \/ "query" \in Faults /\ Return(w)
  /\ UNCHANGED <<driver, estimated, events>>

\* SavePriceEstimation; its error is ignored.
SavePriceEstimation(w) ==
  /\ At(w, "estimate")
  /\ \/ estimated' = estimated \cup {task[w].ride}
     \/ "query" \in Faults /\ UNCHANGED estimated
  /\ Goto(w, "pubRequested")
  /\ UNCHANGED <<status, passenger, driver, history, created, events>>

\* A ScheduleRide that announces the ride as scheduled only.
PublishRequested_NotScheduled(w) ==
  /\ At(w, "pubRequested")
  /\ IF task[w].scheduled
     THEN Goto(w, "pubScheduled") /\ UNCHANGED events
     ELSE Publish(task[w].ride, "ride.requested") /\ Return(w)
  /\ UNCHANGED tables

PublishRequested(w) ==
  /\ At(w, "pubRequested")
  /\ Publish(task[w].ride, "ride.requested")
  /\ IF task[w].scheduled THEN Goto(w, "pubScheduled") ELSE Return(w)
  /\ UNCHANGED tables

PublishScheduled(w) ==
  /\ At(w, "pubScheduled")
  /\ Publish(task[w].ride, "ride.scheduled")
  /\ Return(w)
  /\ UNCHANGED tables
-----------------------------------------------------------------------------
\* UpdateRideStatus, CancelRide, CompleteRide, AcceptRide and the
\* driver.assigned callback.

\* Writes status to, with driver d, and its history row, in one transaction,
\* and leaves the handler at the re-read.
Commit(w, r, to, d) ==
  /\ status' = [status EXCEPT ![r] = to]
  /\ driver' = [driver EXCEPT ![r] = d]
  /\ history' = [history EXCEPT ![r] = Append(@, to)]
  /\ task' = [task EXCEPT ![w] = [Idle EXCEPT !.pc = "reread", !.ride = r,
                                              !.to = to]]
  /\ UNCHANGED <<passenger, created, estimated, events>>

\* The handler of UpdateRideStatus takes any string as the status; CancelRide
\* and CompleteRide pass their own.
UpdateStatusWithHistory(w, r, to) ==
  /\ At(w, "idle")
  /\ Exists(r)
  /\ CanTransition(status[r], to)
  /\ Commit(w, r, to, driver[r])

\* An assignment that tests for an unfinished ride, not for a requested one.
AssignDriver_AnyActive(w, r, d) ==
  /\ At(w, "idle")
  /\ IsActiveStatus(status[r])
  /\ Commit(w, r, "driver_assigned", d)

\* An assignment that passes the ride's identifier for the driver's.
AssignDriver_Swapped(w, r, d) ==
  /\ At(w, "idle")
  /\ status[r] = "requested"
  /\ Commit(w, r, "driver_assigned", r)

AssignDriver(w, r, d) ==
  /\ At(w, "idle")
  /\ status[r] = "requested"
  /\ Commit(w, r, "driver_assigned", d)

\* A re-read served by a replica one commit behind.
GetByID_Replica(w) ==
  /\ At(w, "reread")
  /\ LET h == history[task[w].ride]
     IN  task' = [task EXCEPT ![w].pc = "pubChanged",
                              ![w].seen = h[Len(h) - 1]]
  /\ UNCHANGED <<tables, events>>

\* GetByID after the commit, outside the transaction: it sees what later
\* transactions wrote.
GetByID(w) ==
  /\ At(w, "reread")
  /\ task' = [task EXCEPT ![w].pc = "pubChanged",
                          ![w].seen = status[task[w].ride]]
  /\ UNCHANGED <<tables, events>>

\* A handler that decides on the second publication from the row it re-read
\* and not from the status it was asked for.
PublishStatusChanged_FromReread(w) ==
  /\ At(w, "pubChanged")
  /\ PublishChange(task[w].ride, task[w].seen)
  /\ IF task[w].seen \in Terminal
     THEN task' = [task EXCEPT ![w].pc = "pubOutcome", ![w].to = task[w].seen]
     ELSE Return(w)
  /\ UNCHANGED tables

\* A handler that announces completion only.
PublishStatusChanged_CompletedOnly(w) ==
  /\ At(w, "pubChanged")
  /\ PublishChange(task[w].ride, task[w].seen)
  /\ IF task[w].to = "completed" THEN Goto(w, "pubOutcome") ELSE Return(w)
  /\ UNCHANGED tables

\* The event carries the re-read status; the handler goes on to the second
\* publication when it was asked to complete or cancel.
PublishStatusChanged(w) ==
  /\ At(w, "pubChanged")
  /\ PublishChange(task[w].ride, task[w].seen)
  /\ IF task[w].to \in Terminal THEN Goto(w, "pubOutcome") ELSE Return(w)
  /\ UNCHANGED tables

PublishOutcome(w) ==
  /\ At(w, "pubOutcome")
  /\ Publish(task[w].ride, OutcomeSubject(task[w].to))
  /\ Return(w)
  /\ UNCHANGED tables
-----------------------------------------------------------------------------
\* RejectRide and RateRide read the ride and publish; rides are never deleted,
\* so the read and the publication are one step.
Reject(r) ==
  /\ Exists(r)
  /\ sent[r]["ride.rejected"] < MaxFeedback
  /\ Publish(r, "ride.rejected")
  /\ UNCHANGED <<tables, task>>

Rate(r) ==
  /\ Exists(r)
  /\ sent[r]["ride.rated"] < MaxFeedback
  /\ Publish(r, "ride.rated")
  /\ UNCHANGED <<tables, task>>
-----------------------------------------------------------------------------
\* A query fails: the database refuses it, or the caller's context has ended.
\* The handler returns its error.  Publications do not look at the context.
QueryFails(w) ==
  /\ "query" \in Faults
  /\ task[w].pc \in {"insert", "reread"}
  /\ Return(w)
  /\ UNCHANGED <<tables, events>>

\* The process dies and every call with it; the tables stay.
Crash ==
  /\ "crash" \in Faults
  /\ task' = [w \in Worker |-> Idle]
  /\ UNCHANGED <<tables, events>>
-----------------------------------------------------------------------------
\* A new call.
Begin(w) ==
  \/ \E p \in Passenger, scheduled \in BOOLEAN : ListByUser(w, p, scheduled)
  \/ \E r \in Ride, to \in Statuses : UpdateStatusWithHistory(w, r, to)
  \/ \E r \in Ride, d \in Driver : AssignDriver(w, r, d)

\* The next step of a call in flight.
Continue(w) ==
  \/ CreateWithHistory(w)
  \/ SavePriceEstimation(w)
  \/ PublishRequested(w)
  \/ PublishScheduled(w)
  \/ GetByID(w)
  \/ PublishStatusChanged(w)
  \/ PublishOutcome(w)

Next ==
  \/ \E w \in Worker : Begin(w) \/ Continue(w) \/ QueryFails(w)
  \/ \E r \in Ride : Reject(r) \/ Rate(r)
  \/ Crash

Spec == Init /\ [][Next]_vars

\* A goroutine that is inside a handler keeps running; nothing says that a
\* user makes another call.
FairSpec == Spec /\ \A w \in Worker : WF_vars(Continue(w))
-----------------------------------------------------------------------------
\* Properties.

\* Every variable has its type (no handler writes a malformed row or task).
TypeOK ==
  /\ status \in [Ride -> Statuses \cup {"absent"}]
  /\ passenger \in [Ride -> Passenger \cup {None}]
  /\ driver \in [Ride -> Driver \cup {None}]
  /\ history \in [Ride -> Seq(Statuses)]
  /\ created \in Seq(Ride)
  /\ estimated \in SUBSET Ride
  /\ task \in [Worker -> Task]
  /\ sent \in [Ride -> [Subject -> Nat]]
  /\ told \in [Ride -> SUBSET Statuses]

\* Rows of h are the statuses a ride went through to reach s.
IsPath(h, s) ==
  /\ Len(h) > 0
  /\ h[1] = "requested"
  /\ h[Len(h)] = s
  /\ \A i \in 1 .. Len(h) - 1 : CanTransition(h[i], h[i + 1])

\* The audit trail agrees with the ride: ride_status_history tells how the
\* ride reached its current status, one allowed transition per row, whatever
\* handlers ran at once and wherever they were cut short.
HistoryIsPath ==
  \A r \in Ride :
    IF Exists(r) THEN IsPath(history[r], status[r]) ELSE history[r] = <<>>

\* Subscribers charge on ride.completed and refund on ride.cancelled: of the
\* two at most one is ever published for a ride, once, and only when the ride
\* has ended that way; concurrent handlers re-reading the row do not add one.
OneOutcome ==
  \A r \in Ride :
    /\ sent[r]["ride.completed"] + sent[r]["ride.cancelled"] <= 1
    /\ sent[r]["ride.completed"] > 0 => status[r] = "completed"
    /\ sent[r]["ride.cancelled"] > 0 => status[r] = "cancelled"

\* The status put into ride.status_changed is re-read after the commit, so it
\* may be newer than the one the handler wrote; it is never an older one.
ReReadNotBehind ==
  \A w \in Worker :
    LET h == history[task[w].ride]
    IN  At(w, "pubChanged") =>
          \E i, j \in 1 .. Len(h) :
            i <= j /\ h[i] = task[w].to /\ h[j] = task[w].seen

\* domain.ErrActiveRideExists: "passenger already has an active ride".
OneActiveRide ==
  \A p \in Passenger : \A r, q \in Ride :
    /\ passenger[r] = p /\ IsActiveStatus(status[r])
    /\ passenger[q] = p /\ IsActiveStatus(status[q])
    => r = q

\* Of several drivers assigned or accepting at once one wins; no later step
\* gives the ride to another.
DriverNeverReplaced ==
  [][\A r \in Ride : driver[r] # None => driver'[r] = driver[r]]_vars

\* Nothing writes to a ride that has ended: not a late driver.assigned, not a
\* handler that started before the end.
FinishedRideFrozen ==
  [][\A r \in Ride : status[r] \in Terminal =>
       /\ status'[r] = status[r]
       /\ driver'[r] = driver[r]
       /\ history'[r] = history[r]]_vars

\* When no fault cuts a handler short, every ride that was stored is offered
\* to the drivers.
RequestAnnounced ==
  \A r \in Ride : Exists(r) ~> sent[r]["ride.requested"] > 0

\* What subscribers are told about the end of a ride, as a record of the
\* abstract specification.
announced == [r \in Ride |-> [o \in Terminal |-> sent[r][OutcomeSubject(o)]]]

Lifecycle == INSTANCE RideLifecycle

\* The service implements the abstract lifecycle, with every fault.
ImplementsLifecycle == Lifecycle!Spec

\* Without faults the announcement also comes.
ImplementsFairLifecycle == Lifecycle!FairSpec
=============================================================================
