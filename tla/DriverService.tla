--------------------------- MODULE DriverService ---------------------------
(***************************************************************************)
(* The driver-service: a driver's availability is kept twice, in the       *)
(* drivers table of PostgreSQL and in the Redis key driver:status:<id>,    *)
(* and the position twice, in the table and in the Redis set driver:geo.   *)
(* Assignment reads Redis only and writes both.  A Worker is one call in   *)
(* flight: a gRPC request or one ride.requested callback; each step of its *)
(* handler is one query, one transaction, one Redis command or one         *)
(* publication.  All pickups are at one point, and a position is the       *)
(* distance from it.  Vehicles and ratings touch none of this state.       *)
(***************************************************************************)
EXTENDS Integers, Sequences, FiniteSets

CONSTANTS Driver, Ride,
          Worker,    \* the calls that can be in flight at once
          None,      \* no driver, no ride
          Distance,  \* the distances from the pickup a driver can be at
          Radius,    \* the search radius of AssignToRide, 10 km
          Limit,     \* the COUNT of GEOSEARCH, 5
          Faults     \* the faults the environment may inject

FaultKinds == {"crash",     \* the process dies, its calls with it
               "query",     \* the database refuses a query, or the caller's context ends
               "redis",     \* one Redis command fails
               "publish"}   \* a publication fails; the error is ignored

ASSUME FaultsAssumption == Faults \subseteq FaultKinds
ASSUME DistanceAssumption == Distance \subseteq Nat /\ Radius \in Nat
ASSUME DriverAssumption == IsFiniteSet(Driver)
ASSUME LimitAssumption == Limit \in Nat \ {0}
ASSUME NoneAssumption == None \notin Driver \cup Ride
-----------------------------------------------------------------------------
VARIABLES
  db,        \* drivers.status, "absent" when there is no row
  logged,    \* the statuses in driver_status_history, per driver
  place,     \* the position in the drivers table
  cache,     \* driver:status:<id>, "missing" when there is no key
  geo,       \* driver:geo, None when the driver is not a member
  recorded,  \* rows <<driver, ride>> of driver_assignments
  published, \* driver.assigned events <<driver, ride>>
  booked,    \* rides recorded for the driver since it last went online
  task       \* what each worker is doing

tables == <<db, logged, place, recorded>>
redis == <<cache, geo>>
vars == <<tables, redis, published, booked, task>>

Status == {"online", "offline", "busy"}

Stage == {"idle", "cacheStatus", "cachePlace", "filter", "setBusy",
          "cacheBusy", "record", "publish"}

Task == [pc : Stage, driver : Driver \cup {None}, ride : Ride \cup {None},
         to : Status, at : Distance \cup {None}, left : Seq(Driver)]

Idle == [pc |-> "idle", driver |-> None, ride |-> None,
         to |-> "offline", at |-> None, left |-> <<>>]

Init ==
  /\ db = [d \in Driver |-> "absent"]
  /\ logged = [d \in Driver |-> {}]
  /\ place = [d \in Driver |-> None]
  /\ cache = [d \in Driver |-> "missing"]
  /\ geo = [d \in Driver |-> None]
  /\ recorded = {}
  /\ published = {}
  /\ booked = [d \in Driver |-> {}]
  /\ task = [w \in Worker |-> Idle]

Exists(d) == db[d] # "absent"
At(w, stage) == task[w].pc = stage
Goto(w, stage) == task' = [task EXCEPT ![w].pc = stage]
Return(w) == task' = [task EXCEPT ![w] = Idle]
Call(w, t) == At(w, "idle") /\ task' = [task EXCEPT ![w] = t]

\* Cache.GetStatus: a missing key reads as offline.
GetStatus(d) == IF cache[d] = "missing" THEN "offline" ELSE cache[d]

\* Cache.SetStatus; every caller ignores its error.
SetStatus(d, s) ==
  \/ cache' = [cache EXCEPT ![d] = s]
  \/ "redis" \in Faults /\ UNCHANGED cache
-----------------------------------------------------------------------------
\* RegisterDriver, UpdateDriverStatus and UpdateDriverLocation.

Register(w, d) ==
  /\ ~Exists(d)
  /\ Call(w, [Idle EXCEPT !.pc = "cacheStatus", !.driver = d])
  /\ db' = [db EXCEPT ![d] = "offline"]
  /\ UNCHANGED <<logged, place, recorded, redis, published, booked>>

\* A handler that goes on to the cache when its transaction has failed.
UpdateStatus_ErrorIgnored(w, d, s) ==
  /\ Exists(d)
  /\ Call(w, [Idle EXCEPT !.pc = "cacheStatus", !.driver = d, !.to = s])
  /\ UNCHANGED <<tables, redis, published, booked>>

\* Repo.UpdateStatus: the status and its history row in one transaction, with
\* no condition on the status before.
UpdateStatus(w, d, s) ==
  /\ Exists(d)
  /\ Call(w, [Idle EXCEPT !.pc = "cacheStatus", !.driver = d, !.to = s])
  /\ db' = [db EXCEPT ![d] = s]
  /\ logged' = [logged EXCEPT ![d] = @ \cup {s}]
  /\ booked' = IF s = "online" THEN [booked EXCEPT ![d] = {}] ELSE booked
  /\ UNCHANGED <<place, recorded, redis, published>>

\* The Redis half of Register and UpdateStatus.  What UpdateStatus does next,
\* GetByID, only reads.
CacheStatus(w) ==
  /\ At(w, "cacheStatus")
  /\ SetStatus(task[w].driver, task[w].to)
  /\ Return(w)
  /\ UNCHANGED <<tables, geo, published, booked>>

UpdateLocation(w, d, x) ==
  /\ Exists(d)
  /\ Call(w, [Idle EXCEPT !.pc = "cachePlace", !.driver = d, !.at = x])
  /\ place' = [place EXCEPT ![d] = x]
  /\ UNCHANGED <<db, logged, recorded, redis, published, booked>>

\* GEOADD.  Nothing in the platform listens to driver.location_updated, which
\* follows it.
CachePlace(w) ==
  /\ At(w, "cachePlace")
  /\ \/ geo' = [geo EXCEPT ![task[w].driver] = task[w].at]
     \/ "redis" \in Faults /\ UNCHANGED geo
  /\ Return(w)
  /\ UNCHANGED <<tables, cache, published, booked>>
-----------------------------------------------------------------------------
\* AssignDriverToRide and the ride.requested callback.

InRadius == {d \in Driver : geo[d] \in Distance /\ geo[d] <= Radius}

\* The drivers of S, each once, in some order.
Orders(S) ==
  LET n == Cardinality(S)
  IN  {s \in [1 .. n -> S] : \A i, j \in 1 .. n : i # j => s[i] # s[j]}

NearestFirst(s) ==
  \A i, j \in 1 .. Len(s) : i < j => geo[s[i]] <= geo[s[j]]

\* A result cut one short.
FirstOf_OneShort(s) == SubSeq(s, 1, IF Len(s) < Limit THEN Len(s) ELSE Limit - 1)

FirstOf(s) == SubSeq(s, 1, IF Len(s) < Limit THEN Len(s) ELSE Limit)

\* A search that forgets to ask Redis for the ascending order.
GeoSearch_Unsorted == {FirstOf(s) : s \in Orders(InRadius)}

\* GEOSEARCH ... ASC COUNT Limit: drivers at one distance come in any order.
GeoSearch == {FirstOf(s) : s \in {o \in Orders(InRadius) : NearestFirst(o)}}

\* FindNearest asks Redis for the members of driver:geo, then reads their
\* statuses one by one.
Search(w, r) ==
  /\ \E s \in GeoSearch :
       Call(w, [Idle EXCEPT !.pc = "filter", !.ride = r, !.left = s])
  /\ UNCHANGED <<tables, redis, published, booked>>

\* The next driver found is not online, or its status cannot be read.
Skip(w) ==
  /\ At(w, "filter")
  /\ task[w].left # <<>>
  /\ GetStatus(Head(task[w].left)) # "online" \/ "redis" \in Faults
  /\ task' = [task EXCEPT ![w].left = Tail(@)]
  /\ UNCHANGED <<tables, redis, published, booked>>

\* A filter that lets every driver through that is not offline.
Choose_NotOffline(w) ==
  /\ At(w, "filter")
  /\ task[w].left # <<>>
  /\ GetStatus(Head(task[w].left)) # "offline"
  /\ task' = [task EXCEPT ![w].pc = "setBusy", ![w].left = <<>>,
                          ![w].driver = Head(task[w].left)]
  /\ UNCHANGED <<tables, redis, published, booked>>

\* The first online driver found is chosen; the statuses read after it do not
\* matter.
Choose(w) ==
  /\ At(w, "filter")
  /\ task[w].left # <<>>
  /\ GetStatus(Head(task[w].left)) = "online"
  /\ task' = [task EXCEPT ![w].pc = "setBusy", ![w].left = <<>>,
                          ![w].driver = Head(task[w].left)]
  /\ UNCHANGED <<tables, redis, published, booked>>

\* ErrNoDriverNearby: the ride gets nobody, and nobody tries again.
Refuse(w) ==
  /\ At(w, "filter")
  /\ task[w].left = <<>>
  /\ Return(w)
  /\ UNCHANGED <<tables, redis, published, booked>>

\* The same transaction as UpdateStatus, whatever the status is by now.
SetBusy(w) ==
  /\ At(w, "setBusy")
  /\ db' = [db EXCEPT ![task[w].driver] = "busy"]
  /\ logged' = [logged EXCEPT ![task[w].driver] = @ \cup {"busy"}]
  /\ Goto(w, "cacheBusy")
  /\ UNCHANGED <<place, recorded, redis, published, booked>>

\* An assignment that leaves the cache alone.
CacheBusy_Forgotten(w) ==
  /\ At(w, "cacheBusy")
  /\ Goto(w, "record")
  /\ UNCHANGED <<tables, redis, published, booked>>

CacheBusy(w) ==
  /\ At(w, "cacheBusy")
  /\ SetStatus(task[w].driver, "busy")
  /\ Goto(w, "record")
  /\ UNCHANGED <<tables, geo, published, booked>>

\* An assignment that publishes although the insert failed.
RecordAssignment_ErrorIgnored(w) ==
  /\ At(w, "record")
  /\ \/ /\ recorded' = recorded \cup {<<task[w].driver, task[w].ride>>}
        /\ booked' = [booked EXCEPT ![task[w].driver] = @ \cup {task[w].ride}]
     \/ UNCHANGED <<recorded, booked>>
  /\ Goto(w, "publish")
  /\ UNCHANGED <<db, logged, place, redis, published>>

\* An insert with its two arguments the wrong way round.
RecordAssignment_Swapped(w) ==
  /\ At(w, "record")
  /\ recorded' = recorded \cup {<<task[w].ride, task[w].driver>>}
  /\ booked' = [booked EXCEPT ![task[w].driver] = @ \cup {task[w].ride}]
  /\ Goto(w, "publish")
  /\ UNCHANGED <<db, logged, place, redis, published>>

RecordAssignment(w) ==
  /\ At(w, "record")
  /\ recorded' = recorded \cup {<<task[w].driver, task[w].ride>>}
  /\ booked' = [booked EXCEPT ![task[w].driver] = @ \cup {task[w].ride}]
  /\ Goto(w, "publish")
  /\ UNCHANGED <<db, logged, place, redis, published>>

PublishAssigned(w) ==
  /\ At(w, "publish")
  /\ \/ published' = published \cup {<<task[w].driver, task[w].ride>>}
     \/ "publish" \in Faults /\ UNCHANGED published
  /\ Return(w)
  /\ UNCHANGED <<tables, redis, booked>>
-----------------------------------------------------------------------------
\* A query fails, or its answer is lost after it was executed: the handler
\* returns the error.  When it is the caller's context that ended, what is left
\* of the handler fails, the writes whose errors it ignores included.
QueryFails(w) ==
  /\ "query" \in Faults
  /\ ~At(w, "idle")
  /\ Return(w)
  /\ UNCHANGED <<tables, redis, published, booked>>

Crash ==
  /\ "crash" \in Faults
  /\ task' = [w \in Worker |-> Idle]
  /\ UNCHANGED <<tables, redis, published, booked>>

Begin(w) ==
  \/ \E d \in Driver : Register(w, d)
  \/ \E d \in Driver, s \in Status : UpdateStatus(w, d, s)
  \/ \E d \in Driver, x \in Distance : UpdateLocation(w, d, x)
  \/ \E r \in Ride : Search(w, r)

Continue(w) ==
  \/ CacheStatus(w) \/ CachePlace(w)
  \/ Skip(w) \/ Choose(w) \/ Refuse(w)
  \/ SetBusy(w) \/ CacheBusy(w) \/ RecordAssignment(w) \/ PublishAssigned(w)

Next == Crash \/ \E w \in Worker : Begin(w) \/ Continue(w) \/ QueryFails(w)

Spec == Init /\ [][Next]_vars
-----------------------------------------------------------------------------
\* Properties.

\* Every variable has its type.
TypeOK ==
  /\ db \in [Driver -> Status \cup {"absent"}]
  /\ logged \in [Driver -> SUBSET Status]
  /\ place \in [Driver -> Distance \cup {None}]
  /\ cache \in [Driver -> Status \cup {"missing"}]
  /\ geo \in [Driver -> Distance \cup {None}]
  /\ recorded \subseteq Driver \X Ride
  /\ published \subseteq Driver \X Ride
  /\ booked \in [Driver -> SUBSET Ride]
  /\ task \in [Worker -> Task]

\* The ride-service acts on driver.assigned: the event is only published for
\* an assignment that has its row and a driver whose history shows it busy,
\* wherever a call was cut short.
AssignedIsRecorded ==
  /\ published \subseteq recorded
  /\ \A a \in recorded : "busy" \in logged[a[1]]

\* Dispatch trusts Redis alone: what it reads there for a driver is a status
\* some transaction committed (offline is where every driver starts), however
\* the two writes of concurrent handlers interleave.
CacheShowsCommitted ==
  \A d \in Driver : GetStatus(d) \in logged[d] \cup {"offline"}

\* docs/architecture.md: driver:status:<id> is the current status.  Once no
\* call is running, the cache agrees with the table, and so do the positions.
CacheFresh ==
  (\A w \in Worker : At(w, "idle")) =>
    \A d \in Driver :
      /\ GetStatus(d) = IF Exists(d) THEN db[d] ELSE "offline"
      /\ geo[d] = place[d]

\* A driver that has been given a ride gets no other one before it has gone
\* online again.
NoDoubleBooking ==
  \A d \in Driver : \A r, q \in booked[d] : r = q

\* The drivers that are within the radius and online.
Available == {d \in InRadius : GetStatus(d) = "online"}

\* docs/demo-script.md: the nearest online driver is picked.
NearestChosen ==
  [][\A w \in Worker : Choose(w) =>
       /\ task'[w].driver \in Available
       /\ \A d \in Available : geo[task'[w].driver] <= geo[d]]_vars

\* GEOSEARCH counts the drivers before the online ones are kept, so a search
\* may find nobody while somebody is available.  It does so for one reason:
\* Limit drivers who are in reach and not online are as near as every driver
\* who is available, and take up the COUNT.
RefusalExplained ==
  [][\A w \in Worker : Refuse(w) =>
       \/ Available = {}
       \/ \E hiding \in SUBSET (InRadius \ Available) :
            /\ Cardinality(hiding) = Limit
            /\ \A h \in hiding, d \in Available : geo[h] <= geo[d]]_vars
=============================================================================
