------------------------ MODULE DriverServiceProofs ------------------------
(***************************************************************************)
(* Theorems about DriverService for any finite set of drivers, any number  *)
(* of rides and calls in flight, any positions and limit, and any faults.  *)
(***************************************************************************)
EXTENDS DriverService, FiniteSetTheorems, SequenceTheorems, TLAPS
-----------------------------------------------------------------------------
\* The inductive invariant.  A call that will write to Redis or record an
\* assignment relies on what its transaction has committed: the history and
\* the assignments only grow, so it stays true whatever others write.

\* What the task t of a call relies on.
Sound(t) ==
  /\ t \in Task
  /\ t.pc \in {"cacheStatus", "cachePlace", "setBusy", "cacheBusy", "record", "publish"}
       => t.driver \in Driver
  /\ t.pc \in {"filter", "setBusy", "cacheBusy", "record", "publish"} => t.ride \in Ride
  /\ t.pc = "cacheStatus" => t.to \in logged[t.driver] \cup {"offline"}
  /\ t.pc \in {"cacheBusy", "record", "publish"} => "busy" \in logged[t.driver]
  /\ t.pc = "publish" => <<t.driver, t.ride>> \in recorded

TaskOK == \A w \in Worker : Sound(task[w])

IInv == TypeOK /\ TaskOK /\ AssignedIsRecorded /\ CacheShowsCommitted
-----------------------------------------------------------------------------
\* What GEOSEARCH returns is a sequence of drivers.
LEMMA GeoSearchType == GeoSearch \subseteq Seq(Driver)
<1>. SUFFICES ASSUME NEW s \in Orders(InRadius)
              PROVE  FirstOf(s) \in Seq(Driver)
  BY DEF GeoSearch
<1>1. InRadius \subseteq Driver /\ IsFiniteSet(InRadius)
  BY DriverAssumption, FS_Subset DEF InRadius
<1>2. Cardinality(InRadius) \in Nat
  BY <1>1, FS_CardinalityType
<1>3. s \in Seq(Driver)
  BY <1>1, <1>2 DEF Orders
<1>4. PICK m \in Nat : m <= Len(s) /\ FirstOf(s) = SubSeq(s, 1, m)
  BY <1>3, LimitAssumption DEF FirstOf
<1>. QED
  BY <1>3, <1>4, SubSeqProperties

\* The idle task is sound in every state.
LEMMA IdleSound == /\ Sound(Idle) /\ Sound(Idle)'
                   /\ Idle \in Task /\ Idle.to = "offline" /\ <<>> \in Seq(Driver)
BY DEF Sound, Idle, Task, Stage, Status

LEMMA InitIInv == Init => IInv
BY IdleSound
   DEF Init, IInv, TypeOK, TaskOK, AssignedIsRecorded, CacheShowsCommitted, GetStatus
-----------------------------------------------------------------------------
\* Steps.

\* A call moves to a task that is sound afterwards; the tables grow; Redis and
\* the bus get nothing that has not been committed.
LEMMA GrowStep ==
  ASSUME IInv, NEW w \in Worker, NEW t,
         task' = [task EXCEPT ![w] = t], Sound(t)',
         db' \in [Driver -> Status \cup {"absent"}],
         place' \in [Driver -> Distance \cup {None}],
         geo' \in [Driver -> Distance \cup {None}],
         booked' \in [Driver -> SUBSET Ride],
         logged' \in [Driver -> SUBSET Status],
         \A d \in Driver : logged[d] \subseteq logged'[d],
         recorded \subseteq recorded', recorded' \subseteq Driver \X Ride,
         \A a \in recorded' : "busy" \in logged'[a[1]],
         published' \subseteq recorded',
         cache' \in [Driver -> Status \cup {"missing"}],
         \A d \in Driver : cache'[d] = cache[d] \/ cache'[d] \in logged'[d] \cup {"offline"}
  PROVE  IInv'
<1>. USE DEF IInv
<1>1. /\ task' \in [Worker -> Task]
      /\ task'[w] = t
      /\ \A v \in Worker \ {w} : task'[v] = task[v]
  BY DEF TypeOK, Sound
<1>2. TypeOK'
  BY <1>1 DEF TypeOK
<1>3. ASSUME NEW v \in Worker
      PROVE  Sound(task[v])'
  <2>1. CASE v = w
    BY <1>1, <2>1 DEF Sound
  <2>2. CASE v # w
    <3>1. PICK u : u = task[v] /\ task'[v] = u /\ Sound(u)
      BY <1>1, <2>2 DEF TaskOK
    <3>. QED
      BY <3>1 DEF Sound
  <2>. QED
    BY <2>1, <2>2
<1>4. TaskOK'
  BY <1>3 DEF TaskOK
<1>5. AssignedIsRecorded'
  BY DEF AssignedIsRecorded
<1>6. CacheShowsCommitted'
  BY DEF CacheShowsCommitted, GetStatus
<1>. QED
  BY <1>2, <1>4, <1>5, <1>6

\* A step that only moves the call.
LEMMA QuietStep ==
  ASSUME IInv, NEW w \in Worker, NEW t, task' = [task EXCEPT ![w] = t], Sound(t),
         UNCHANGED <<tables, redis, published, booked>>
  PROVE  IInv'
<1>1. Sound(t)'
  BY DEF Sound, tables
<1>. QED
  BY <1>1, GrowStep DEF IInv, TypeOK, tables, redis, AssignedIsRecorded

\* A call begins.
LEMMA BeginIInv ==
  ASSUME IInv, NEW w \in Worker, Begin(w)
  PROVE  IInv'
<1>. USE DEF IInv
<1>1. ASSUME NEW d \in Driver, Register(w, d)
      PROVE  IInv'
  <2>. DEFINE t == [Idle EXCEPT !.pc = "cacheStatus", !.driver = d]
  <2>1. /\ t \in Task /\ t.pc = "cacheStatus" /\ t.driver = d /\ t.to = "offline"
    BY IdleSound DEF Task, Stage
  <2>2. /\ task' = [task EXCEPT ![w] = t] /\ db' = [db EXCEPT ![d] = "offline"]
        /\ UNCHANGED <<logged, place, recorded, redis, published, booked>>
    BY <1>1 DEF Register, Call
  <2>. HIDE DEF t
  <2>3. Sound(t)' /\ db' \in [Driver -> Status \cup {"absent"}]
    BY <2>1, <2>2 DEF Sound, TypeOK, Status
  <2>. QED
    BY <2>2, <2>3, GrowStep DEF TypeOK, redis, AssignedIsRecorded
<1>2. ASSUME NEW d \in Driver, NEW s \in Status, UpdateStatus(w, d, s)
      PROVE  IInv'
  <2>. DEFINE t == [Idle EXCEPT !.pc = "cacheStatus", !.driver = d, !.to = s]
  <2>1. /\ t \in Task /\ t.pc = "cacheStatus" /\ t.driver = d /\ t.to = s
    BY IdleSound DEF Task, Stage
  <2>2. /\ task' = [task EXCEPT ![w] = t] /\ db' = [db EXCEPT ![d] = s]
        /\ logged' = [logged EXCEPT ![d] = @ \cup {s}]
        /\ booked' = IF s = "online" THEN [booked EXCEPT ![d] = {}] ELSE booked
        /\ UNCHANGED <<place, recorded, redis, published>>
    BY <1>2 DEF UpdateStatus, Call
  <2>. HIDE DEF t
  <2>3. /\ db' \in [Driver -> Status \cup {"absent"}]
        /\ logged' \in [Driver -> SUBSET Status]
        /\ s \in logged'[d]
        /\ \A e \in Driver : logged[e] \subseteq logged'[e]
        /\ booked' \in [Driver -> SUBSET Ride]
    BY <2>2 DEF TypeOK
  <2>4. Sound(t)'
    BY <2>1, <2>3 DEF Sound
  <2>5. \A a \in recorded' : "busy" \in logged'[a[1]]
    BY <2>2, <2>3 DEF TypeOK, AssignedIsRecorded
  <2>. QED
    BY <2>2, <2>3, <2>4, <2>5, GrowStep DEF TypeOK, redis, AssignedIsRecorded
<1>3. ASSUME NEW d \in Driver, NEW x \in Distance, UpdateLocation(w, d, x)
      PROVE  IInv'
  <2>. DEFINE t == [Idle EXCEPT !.pc = "cachePlace", !.driver = d, !.at = x]
  <2>1. t \in Task /\ t.pc = "cachePlace" /\ t.driver = d
    BY IdleSound DEF Task, Stage
  <2>2. /\ task' = [task EXCEPT ![w] = t] /\ place' = [place EXCEPT ![d] = x]
        /\ UNCHANGED <<db, logged, recorded, redis, published, booked>>
    BY <1>3 DEF UpdateLocation, Call
  <2>. HIDE DEF t
  <2>3. Sound(t)' /\ place' \in [Driver -> Distance \cup {None}]
    BY <2>1, <2>2 DEF Sound, TypeOK
  <2>. QED
    BY <2>2, <2>3, GrowStep DEF TypeOK, redis, AssignedIsRecorded
<1>4. ASSUME NEW r \in Ride, Search(w, r)
      PROVE  IInv'
  <2>1. PICK s \in Seq(Driver) :
          Call(w, [Idle EXCEPT !.pc = "filter", !.ride = r, !.left = s])
    BY <1>4, GeoSearchType DEF Search
  <2>. DEFINE t == [Idle EXCEPT !.pc = "filter", !.ride = r, !.left = s]
  <2>2. t \in Task /\ t.pc = "filter" /\ t.ride = r
    BY IdleSound DEF Task, Stage
  <2>3. /\ task' = [task EXCEPT ![w] = t]
        /\ UNCHANGED <<tables, redis, published, booked>>
    BY <1>4, <2>1 DEF Search, Call
  <2>. HIDE DEF t
  <2>4. Sound(t)
    BY <2>2 DEF Sound
  <2>. QED
    BY <2>3, <2>4, QuietStep
<1>. QED
  BY <1>1, <1>2, <1>3, <1>4 DEF Begin

\* A write to Redis, if it succeeds.
LEMMA SetStatusFacts ==
  ASSUME TypeOK, NEW d \in Driver, NEW s \in Status, SetStatus(d, s)
  PROVE  /\ cache' \in [Driver -> Status \cup {"missing"}]
         /\ \A e \in Driver : cache'[e] = cache[e] \/ (e = d /\ cache'[e] = s)
BY DEF TypeOK, SetStatus

\* A call goes on or ends.
LEMMA ContinueIInv ==
  ASSUME IInv, NEW w \in Worker, Continue(w)
  PROVE  IInv'
<1>. USE DEF IInv
<1>0. PICK t0 \in Task : t0 = task[w] /\ Sound(t0)
  BY DEF TypeOK, TaskOK
<1>1. CASE CacheStatus(w)
  <2>1. t0.driver \in Driver /\ t0.to \in Status /\ t0.to \in logged[t0.driver] \cup {"offline"}
    BY <1>0, <1>1 DEF CacheStatus, At, Sound, Task
  <2>2. /\ SetStatus(t0.driver, t0.to) /\ task' = [task EXCEPT ![w] = Idle]
        /\ UNCHANGED <<tables, geo, published, booked>>
    BY <1>0, <1>1 DEF CacheStatus, Return
  <2>3. /\ cache' \in [Driver -> Status \cup {"missing"}]
        /\ \A d \in Driver :
             cache'[d] = cache[d] \/ cache'[d] \in logged[d] \cup {"offline"}
    BY <2>1, <2>2, SetStatusFacts
  <2>. QED
    BY <2>2, <2>3, IdleSound, GrowStep DEF TypeOK, tables, AssignedIsRecorded
<1>2. CASE CachePlace(w)
  <2>1. t0.driver \in Driver /\ t0.at \in Distance \cup {None}
    BY <1>0, <1>2 DEF CachePlace, At, Sound, Task
  <2>2. /\ task' = [task EXCEPT ![w] = Idle]
        /\ UNCHANGED <<tables, cache, published, booked>>
        /\ geo' \in [Driver -> Distance \cup {None}]
    BY <1>0, <1>2, <2>1 DEF CachePlace, Return, TypeOK
  <2>. QED
    BY <2>2, IdleSound, GrowStep DEF TypeOK, tables, AssignedIsRecorded
<1>3. CASE Skip(w)
  <2>. DEFINE t == [t0 EXCEPT !.left = Tail(t0.left)]
  <2>1. /\ task' = [task EXCEPT ![w] = t] /\ t0.pc = "filter" /\ t0.left # <<>>
        /\ UNCHANGED <<tables, redis, published, booked>>
    BY <1>0, <1>3 DEF Skip, At
  <2>2. t0.left \in Seq(Driver) /\ Tail(t0.left) \in Seq(Driver)
    BY <2>1 DEF Task
  <2>3. t \in Task /\ t.pc = "filter" /\ t.ride = t0.ride
    BY <2>1, <2>2 DEF Task
  <2>. HIDE DEF t
  <2>4. Sound(t)
    BY <1>0, <2>1, <2>3 DEF Sound
  <2>. QED
    BY <2>1, <2>4, QuietStep
<1>4. CASE Choose(w)
  <2>. DEFINE d == Head(t0.left)
              t == [t0 EXCEPT !.pc = "setBusy", !.left = <<>>, !.driver = d]
  <2>1. /\ task' = [task EXCEPT ![w] = t] /\ t0.pc = "filter" /\ t0.left # <<>>
        /\ UNCHANGED <<tables, redis, published, booked>>
    BY <1>0, <1>4 DEF Choose, At
  <2>2. d \in Driver
    BY <2>1 DEF Task
  <2>3. t \in Task /\ t.pc = "setBusy" /\ t.ride = t0.ride /\ t.driver = d
    <3>. HIDE DEF d
    <3>. QED
      BY <2>2, IdleSound DEF Task, Stage
  <2>. HIDE DEF t, d
  <2>4. Sound(t)
    BY <1>0, <2>1, <2>2, <2>3 DEF Sound
  <2>. QED
    BY <2>1, <2>4, QuietStep
<1>5. CASE Refuse(w)
  BY <1>5, IdleSound, QuietStep DEF Refuse, Return
<1>6. CASE SetBusy(w)
  <2>. DEFINE t == [t0 EXCEPT !.pc = "cacheBusy"]
  <2>1. t0.pc = "setBusy" /\ t0.driver \in Driver /\ t0.ride \in Ride
    BY <1>0, <1>6 DEF SetBusy, At, Sound
  <2>2. /\ db' = [db EXCEPT ![t0.driver] = "busy"]
        /\ logged' = [logged EXCEPT ![t0.driver] = @ \cup {"busy"}]
        /\ task' = [task EXCEPT ![w] = t]
        /\ UNCHANGED <<place, recorded, redis, published, booked>>
    BY <1>0, <1>6 DEF SetBusy, Goto
  <2>3. /\ db' \in [Driver -> Status \cup {"absent"}]
        /\ logged' \in [Driver -> SUBSET Status]
        /\ "busy" \in logged'[t0.driver]
        /\ \A d \in Driver : logged[d] \subseteq logged'[d]
    BY <2>1, <2>2 DEF TypeOK, Status
  <2>4. t \in Task /\ t.pc = "cacheBusy" /\ t.driver = t0.driver /\ t.ride = t0.ride
    BY DEF Task, Stage
  <2>. HIDE DEF t
  <2>5. Sound(t)'
    BY <2>1, <2>3, <2>4 DEF Sound
  <2>6. \A a \in recorded' : "busy" \in logged'[a[1]]
    BY <2>2, <2>3 DEF TypeOK, AssignedIsRecorded
  <2>. QED
    BY <2>2, <2>3, <2>5, <2>6, GrowStep DEF TypeOK, redis, AssignedIsRecorded
<1>7. CASE CacheBusy(w)
  <2>. DEFINE t == [t0 EXCEPT !.pc = "record"]
  <2>1. /\ t0.pc = "cacheBusy" /\ t0.driver \in Driver /\ t0.ride \in Ride
        /\ "busy" \in logged[t0.driver] /\ "busy" \in Status
    BY <1>0, <1>7 DEF CacheBusy, At, Sound, Status
  <2>2. /\ SetStatus(t0.driver, "busy") /\ task' = [task EXCEPT ![w] = t]
        /\ UNCHANGED <<tables, geo, published, booked>>
    BY <1>0, <1>7 DEF CacheBusy, Goto
  <2>3. /\ cache' \in [Driver -> Status \cup {"missing"}]
        /\ \A d \in Driver :
             cache'[d] = cache[d] \/ cache'[d] \in logged[d] \cup {"offline"}
    BY <2>1, <2>2, SetStatusFacts
  <2>4. t \in Task /\ t.pc = "record" /\ t.driver = t0.driver /\ t.ride = t0.ride
    BY DEF Task, Stage
  <2>. HIDE DEF t
  <2>5. Sound(t)'
    BY <2>1, <2>2, <2>4 DEF Sound, tables
  <2>. QED
    BY <2>2, <2>3, <2>5, GrowStep DEF TypeOK, tables, AssignedIsRecorded
<1>8. CASE RecordAssignment(w)
  <2>. DEFINE t == [t0 EXCEPT !.pc = "publish"]
  <2>1. t0.pc = "record" /\ t0.driver \in Driver /\ t0.ride \in Ride
        /\ "busy" \in logged[t0.driver]
    BY <1>0, <1>8 DEF RecordAssignment, At, Sound
  <2>2. /\ recorded' = recorded \cup {<<t0.driver, t0.ride>>}
        /\ booked' = [booked EXCEPT ![t0.driver] = @ \cup {t0.ride}]
        /\ task' = [task EXCEPT ![w] = t]
        /\ UNCHANGED <<db, logged, place, redis, published>>
    BY <1>0, <1>8 DEF RecordAssignment, Goto
  <2>3. /\ booked' \in [Driver -> SUBSET Ride]
        /\ recorded' \subseteq Driver \X Ride
        /\ \A a \in recorded' : "busy" \in logged'[a[1]]
        /\ <<t0.driver, t0.ride>> \in recorded'
    BY <2>1, <2>2 DEF TypeOK, AssignedIsRecorded
  <2>4. t \in Task /\ t.pc = "publish" /\ t.driver = t0.driver /\ t.ride = t0.ride
    BY DEF Task, Stage
  <2>. HIDE DEF t
  <2>5. Sound(t)'
    BY <2>1, <2>2, <2>3, <2>4 DEF Sound
  <2>. QED
    BY <2>2, <2>3, <2>5, GrowStep DEF TypeOK, redis, AssignedIsRecorded
<1>9. CASE PublishAssigned(w)
  <2>1. <<t0.driver, t0.ride>> \in recorded
    BY <1>0, <1>9 DEF PublishAssigned, At, Sound
  <2>2. /\ published' \subseteq published \cup {<<t0.driver, t0.ride>>}
        /\ task' = [task EXCEPT ![w] = Idle]
        /\ UNCHANGED <<tables, redis, booked>>
    BY <1>0, <1>9 DEF PublishAssigned, Return
  <2>3. published' \subseteq recorded
    BY <2>1, <2>2 DEF AssignedIsRecorded
  <2>. QED
    BY <2>2, <2>3, IdleSound, GrowStep DEF TypeOK, tables, redis, AssignedIsRecorded
<1>. QED
  BY <1>1, <1>2, <1>3, <1>4, <1>5, <1>6, <1>7, <1>8, <1>9 DEF Continue
-----------------------------------------------------------------------------
\* Every step keeps the invariant.
LEMMA NextIInv == IInv /\ [Next]_vars => IInv'
<1>. SUFFICES ASSUME IInv, [Next]_vars PROVE IInv'
  OBVIOUS
<1>1. ASSUME NEW w \in Worker, Begin(w) PROVE IInv'
  BY <1>1, BeginIInv
<1>2. ASSUME NEW w \in Worker, Continue(w) PROVE IInv'
  BY <1>2, ContinueIInv
<1>3. ASSUME NEW w \in Worker, QueryFails(w) PROVE IInv'
  BY <1>3, IdleSound, QuietStep DEF QueryFails, Return
<1>4. ASSUME task' = [w \in Worker |-> Idle] \/ UNCHANGED task,
             UNCHANGED <<tables, redis, published, booked>>
      PROVE  IInv'
  <2>1. \A w \in Worker : task'[w] = task[w] \/ task'[w] = Idle
    BY <1>4
  <2>2. TypeOK'
    BY <1>4, IdleSound DEF IInv, TypeOK, tables, redis
  <2>3. ASSUME NEW w \in Worker PROVE Sound(task[w])'
    <3>1. PICK u : u = task'[w] /\ Sound(u)
      BY <2>1, IdleSound DEF IInv, TaskOK
    <3>. QED
      BY <1>4, <3>1 DEF Sound, tables
  <2>4. TaskOK'
    BY <2>3 DEF TaskOK
  <2>. QED
    BY <1>4, <2>2, <2>4
       DEF IInv, tables, redis, AssignedIsRecorded, CacheShowsCommitted, GetStatus
<1>. QED
  BY <1>1, <1>2, <1>3, <1>4 DEF Next, Crash, vars
-----------------------------------------------------------------------------
\* The invariant holds in every behaviour.
LEMMA SpecIInv == Spec => []IInv
BY InitIInv, NextIInv, PTL DEF Spec

\* No call writes a malformed row, key, event or task.
THEOREM TypeCorrect == Spec => []TypeOK
BY SpecIInv, PTL DEF IInv

\* driver.assigned is published only for an assignment with a row and a driver
\* that was made busy, wherever calls are cut short.
THEOREM AssignedCorrect == Spec => []AssignedIsRecorded
BY SpecIInv, PTL DEF IInv

\* Redis never shows dispatch a status that was not committed, although the
\* two writes of concurrent calls cross and any of them may fail.
THEOREM CacheCommitted == Spec => []CacheShowsCommitted
BY SpecIInv, PTL DEF IInv
-----------------------------------------------------------------------------
\* Calls that do not cross.  The table and Redis agree, and nobody is booked
\* twice, as long as no two calls are between their first and their last write
\* for one driver and none of them is cut short; calls for different drivers
\* may cross at will, and publications may fail.

\* The task t has a write for driver d before it.
Writes(t, d) ==
  /\ t.pc \in {"cacheStatus", "cachePlace", "setBusy", "cacheBusy", "record"}
  /\ t.driver = d

Apart ==
  \A v, w \in Worker, d \in Driver : Writes(task[v], d) /\ Writes(task[w], d) => v = w

Committed(d) == IF Exists(d) THEN db[d] ELSE "offline"

\* What the writes of task t rely on: nobody has written for its driver since
\* its transaction, and a driver is only made busy when it has no ride.
Settled(t) ==
  /\ t.pc = "cacheStatus" => t.to = db[t.driver]
  /\ t.pc = "cachePlace" => t.at = place[t.driver]
  /\ t.pc \in {"setBusy", "cacheBusy", "record"} => booked[t.driver] = {}
  /\ t.pc \in {"cacheBusy", "record"} => db[t.driver] = "busy"

\* A driver with a ride is not online, and has no other ride.
OneRide(d) ==
  /\ booked[d] # {} => db[d] # "online"
  /\ \A r, q \in booked[d] : r = q

\* Redis agrees with the table about driver d, but for what a call is about to
\* write.
InStep(d) ==
  /\ OneRide(d)
  /\ \/ GetStatus(d) = Committed(d)
     \/ \E w \in Worker :
          Writes(task[w], d) /\ task[w].pc \in {"cacheStatus", "cacheBusy"}
  /\ geo[d] = place[d] \/ \E w \in Worker : Writes(task[w], d) /\ At(w, "cachePlace")
  /\ \A w \in Worker : Writes(task[w], d) => Settled(task[w])

AInv == \A d \in Driver : InStep(d)

\* At first there is nothing to disagree about.
LEMMA InitAInv == Init => AInv
BY DEF Init, AInv, InStep, OneRide, Writes, GetStatus, Committed, Exists, Idle

\* A call that writes for d before or after a step is the only one that does.
LEMMA Alone ==
  ASSUME TypeOK, AInv, Apart, Apart', NEW w \in Worker, NEW d \in Driver,
         NEW t0, t0 = task[w], NEW t \in Task, task' = [task EXCEPT ![w] = t],
         Writes(t0, d) \/ Writes(t, d)
  PROVE  /\ \A v \in Worker \ {w} : ~Writes(task[v], d)
         /\ \/ GetStatus(d) = Committed(d)
            \/ Writes(t0, d) /\ t0.pc \in {"cacheStatus", "cacheBusy"}
         /\ geo[d] = place[d] \/ (Writes(t0, d) /\ t0.pc = "cachePlace")
         /\ Writes(t0, d) => Settled(t0)
         /\ OneRide(d)
<1>1. /\ task'[w] = t
      /\ \A v \in Worker \ {w} : task'[v] = task[v]
  BY DEF TypeOK
<1>2. ASSUME NEW v \in Worker \ {w} PROVE ~Writes(task[v], d)
  BY <1>1 DEF Apart
<1>. QED
  BY <1>2 DEF AInv, InStep, At

\* A step of a call that writes nothing for driver e.
LEMMA OtherDriver ==
  ASSUME TypeOK, NEW e \in Driver, InStep(e), NEW w \in Worker,
         NEW t0, t0 = task[w], NEW t \in Task, task' = [task EXCEPT ![w] = t],
         ~Writes(t0, e), ~Writes(t, e),
         db'[e] = db[e], place'[e] = place[e], cache'[e] = cache[e], geo'[e] = geo[e],
         booked'[e] = booked[e]
  PROVE  InStep(e)'
<1>1. /\ task'[w] = t
      /\ \A v \in Worker \ {w} : task'[v] = task[v]
  BY DEF TypeOK
<1>2. \A v \in Worker : Writes(task'[v], e) => v # w /\ Writes(task[v], e)
  BY <1>1
<1>3. \A v \in Worker : Writes(task[v], e) => v # w /\ Writes(task'[v], e)
  BY <1>1
<1>4. GetStatus(e)' = GetStatus(e) /\ Committed(e)' = Committed(e) /\ OneRide(e)'
  BY DEF InStep, OneRide, GetStatus, Committed, Exists
<1>5. ASSUME NEW v \in Worker, Writes(task'[v], e) PROVE Settled(task[v])'
  <2>1. PICK u : u = task[v] /\ u = task'[v] /\ Settled(u) /\ u.driver = e
    BY <1>1, <1>2, <1>5 DEF InStep, Writes
  <2>. QED
    BY <2>1 DEF Settled
<1>6. \/ GetStatus(e)' = Committed(e)'
      \/ \E v \in Worker :
           Writes(task'[v], e) /\ task'[v].pc \in {"cacheStatus", "cacheBusy"}
  BY <1>1, <1>3, <1>4 DEF InStep
<1>7. geo'[e] = place'[e] \/ \E v \in Worker : Writes(task'[v], e) /\ task'[v].pc = "cachePlace"
  BY <1>1, <1>3 DEF InStep, At
<1>. QED
  BY <1>4, <1>5, <1>6, <1>7 DEF InStep, At

\* A step of a call that writes for driver d, and for no other.
LEMMA OwnDriver ==
  ASSUME TypeOK, AInv, Apart, Apart', NEW w \in Worker, NEW d \in Driver,
         NEW t0, t0 = task[w], NEW t \in Task, task' = [task EXCEPT ![w] = t],
         Writes(t0, d) \/ Writes(t, d),
         \A e \in Driver \ {d} :
           /\ ~Writes(t0, e) /\ ~Writes(t, e)
           /\ db'[e] = db[e] /\ place'[e] = place[e] /\ cache'[e] = cache[e]
           /\ geo'[e] = geo[e] /\ booked'[e] = booked[e],
         \/ GetStatus(d)' = Committed(d)'
         \/ Writes(t, d) /\ t.pc \in {"cacheStatus", "cacheBusy"},
         geo'[d] = place'[d] \/ (Writes(t, d) /\ t.pc = "cachePlace"),
         OneRide(d)',
         Writes(t, d) => Settled(t)'
  PROVE  AInv'
<1>1. /\ task'[w] = t
      /\ \A v \in Worker \ {w} : task'[v] = task[v]
  BY DEF TypeOK
<1>2. \A v \in Worker \ {w} : ~Writes(task'[v], d)
  BY <1>1, Alone
<1>3. InStep(d)'
  <2>1. ASSUME NEW v \in Worker, Writes(task'[v], d) PROVE Settled(task[v])'
    BY <1>1, <1>2, <2>1 DEF Settled
  <2>. QED
    BY <1>1, <2>1 DEF InStep, At
<1>4. ASSUME NEW e \in Driver, e # d PROVE InStep(e)'
  BY <1>4, OtherDriver DEF AInv
<1>. QED
  BY <1>3, <1>4 DEF AInv

\* A step that writes nothing of what Redis and the table hold twice.
LEMMA NoDriver ==
  ASSUME TypeOK, AInv, NEW w \in Worker,
         NEW t0, t0 = task[w], NEW t \in Task, task' = [task EXCEPT ![w] = t],
         \A e \in Driver : ~Writes(t0, e) /\ ~Writes(t, e),
         UNCHANGED <<db, place, cache, geo, booked>>
  PROVE  AInv'
<1>1. ASSUME NEW e \in Driver PROVE InStep(e)'
  BY OtherDriver DEF AInv
<1>. QED
  BY <1>1 DEF AInv

\* The first write of a call is its own driver's, or none.
LEMMA BeginAInv ==
  ASSUME IInv, AInv, Apart, Apart', NEW w \in Worker, Begin(w)
  PROVE  AInv'
<1>. USE DEF IInv
<1>0. PICK t0 \in Task : t0 = task[w]
  BY DEF TypeOK
<1>i. t0.pc = "idle"
  BY <1>0 DEF Begin, Register, UpdateStatus, UpdateLocation, Search, Call, At
<1>1. ASSUME NEW d \in Driver, Register(w, d)
      PROVE  AInv'
  <2>. DEFINE t == [Idle EXCEPT !.pc = "cacheStatus", !.driver = d]
  <2>1. /\ t \in Task /\ t.pc = "cacheStatus" /\ t.driver = d /\ t.to = "offline"
    BY IdleSound DEF Task, Stage
  <2>2. /\ task' = [task EXCEPT ![w] = t] /\ db' = [db EXCEPT ![d] = "offline"]
        /\ UNCHANGED <<place, redis, booked>>
    BY <1>1 DEF Register, Call
  <2>. HIDE DEF t
  <2>3. Writes(t, d) /\ \A e \in Driver : ~Writes(t0, e) /\ (e # d => ~Writes(t, e))
    BY <1>i, <2>1 DEF Writes
  <2>4. geo[d] = place[d] /\ OneRide(d)
    BY <1>0, <2>1, <2>2, <2>3, Alone
  <2>5. /\ Settled(t)' /\ OneRide(d)'
        /\ \A e \in Driver \ {d} : db'[e] = db[e]
    BY <2>1, <2>2, <2>4 DEF Settled, OneRide, TypeOK
  <2>. QED
    BY <1>0, <2>1, <2>2, <2>3, <2>4, <2>5, OwnDriver DEF redis
<1>2. ASSUME NEW d \in Driver, NEW s \in Status, UpdateStatus(w, d, s)
      PROVE  AInv'
  <2>. DEFINE t == [Idle EXCEPT !.pc = "cacheStatus", !.driver = d, !.to = s]
  <2>1. /\ t \in Task /\ t.pc = "cacheStatus" /\ t.driver = d /\ t.to = s
    BY IdleSound DEF Task, Stage
  <2>2. /\ task' = [task EXCEPT ![w] = t] /\ db' = [db EXCEPT ![d] = s]
        /\ UNCHANGED <<place, redis>>
    BY <1>2 DEF UpdateStatus, Call
  <2>. HIDE DEF t
  <2>3. Writes(t, d) /\ \A e \in Driver : ~Writes(t0, e) /\ (e # d => ~Writes(t, e))
    BY <1>i, <2>1 DEF Writes
  <2>4. geo[d] = place[d] /\ OneRide(d)
    BY <1>0, <2>1, <2>2, <2>3, Alone
  <2>5. Settled(t)' /\ db'[d] = s /\ \A e \in Driver \ {d} : db'[e] = db[e]
    BY <2>1, <2>2 DEF Settled, TypeOK
  <2>6. OneRide(d)' /\ \A e \in Driver \ {d} : booked'[e] = booked[e]
    <3>1. /\ booked'[d] = IF s = "online" THEN {} ELSE booked[d]
          /\ \A e \in Driver \ {d} : booked'[e] = booked[e]
      BY <1>2 DEF UpdateStatus, TypeOK
    <3>. QED
      BY <2>4, <2>5, <3>1 DEF OneRide
  <2>. QED
    BY <1>0, <2>1, <2>2, <2>3, <2>4, <2>5, <2>6, OwnDriver DEF redis
<1>3. ASSUME NEW d \in Driver, NEW x \in Distance, UpdateLocation(w, d, x)
      PROVE  AInv'
  <2>. DEFINE t == [Idle EXCEPT !.pc = "cachePlace", !.driver = d, !.at = x]
  <2>1. t \in Task /\ t.pc = "cachePlace" /\ t.driver = d /\ t.at = x
    BY IdleSound DEF Task, Stage
  <2>2. /\ task' = [task EXCEPT ![w] = t] /\ place' = [place EXCEPT ![d] = x]
        /\ UNCHANGED <<db, redis, booked>>
    BY <1>3 DEF UpdateLocation, Call
  <2>. HIDE DEF t
  <2>3. Writes(t, d) /\ \A e \in Driver : ~Writes(t0, e) /\ (e # d => ~Writes(t, e))
    BY <1>i, <2>1 DEF Writes
  <2>4. /\ GetStatus(d) = Committed(d)
        /\ OneRide(d)
    BY <1>0, <2>1, <2>2, <2>3, Alone
  <2>5. /\ Settled(t)' /\ OneRide(d)' /\ GetStatus(d)' = Committed(d)'
        /\ \A e \in Driver \ {d} : place'[e] = place[e]
    BY <2>1, <2>2, <2>4 DEF Settled, OneRide, TypeOK, GetStatus, Committed, Exists, redis
  <2>. QED
    BY <1>0, <2>1, <2>2, <2>3, <2>4, <2>5, OwnDriver DEF redis
<1>4. ASSUME NEW r \in Ride, Search(w, r)
      PROVE  AInv'
  <2>1. PICK s \in Seq(Driver) :
          Call(w, [Idle EXCEPT !.pc = "filter", !.ride = r, !.left = s])
    BY <1>4, GeoSearchType DEF Search
  <2>. DEFINE t == [Idle EXCEPT !.pc = "filter", !.ride = r, !.left = s]
  <2>2. t \in Task /\ t.pc = "filter"
    BY IdleSound DEF Task, Stage
  <2>3. /\ task' = [task EXCEPT ![w] = t]
        /\ UNCHANGED <<tables, redis, booked>>
    BY <1>4, <2>1 DEF Search, Call
  <2>. HIDE DEF t
  <2>. QED
    BY <1>0, <1>i, <2>2, <2>3, NoDriver DEF Writes, tables, redis
<1>. QED
  BY <1>1, <1>2, <1>3, <1>4 DEF Begin

\* No fault that cuts a call short or makes Redis fail.
Reliable == Faults \subseteq {"publish"}

\* The later writes of a call end what its first one began.
LEMMA ContinueAInv ==
  ASSUME Reliable, IInv, AInv, Apart, Apart', NEW w \in Worker, Continue(w)
  PROVE  AInv'
<1>. USE DEF IInv
<1>0. PICK t0 \in Task : t0 = task[w] /\ Sound(t0)
  BY DEF TypeOK, TaskOK
<1>i. Idle \in Task /\ \A e \in Driver : ~Writes(Idle, e)
  BY IdleSound DEF Idle, Writes
<1>1. CASE CacheStatus(w)
  <2>. DEFINE d == t0.driver
  <2>1. d \in Driver /\ t0.to \in Status /\ t0.pc = "cacheStatus" /\ Writes(t0, d)
    BY <1>0, <1>1 DEF CacheStatus, At, Sound, Task, Writes
  <2>2. /\ cache' = [cache EXCEPT ![d] = t0.to] /\ task' = [task EXCEPT ![w] = Idle]
        /\ UNCHANGED <<tables, geo, booked>>
    BY <1>0, <1>1 DEF CacheStatus, Return, SetStatus, Reliable
  <2>3. \A e \in Driver \ {d} : ~Writes(t0, e)
    BY DEF Writes
  <2>4. /\ Settled(t0) /\ geo[d] = place[d]
        /\ OneRide(d)
    BY <1>0, <1>i, <2>1, <2>2, Alone
  <2>5. /\ GetStatus(d)' = Committed(d)' /\ OneRide(d)'
        /\ \A e \in Driver \ {d} : cache'[e] = cache[e]
    BY <2>1, <2>2, <2>4
       DEF Settled, OneRide, TypeOK, GetStatus, Committed, Exists, tables, Status
  <2>. HIDE DEF d
  <2>. QED
    BY <1>0, <1>i, <2>1, <2>2, <2>3, <2>4, <2>5, OwnDriver DEF tables
<1>2. CASE CachePlace(w)
  <2>. DEFINE d == t0.driver
  <2>1. d \in Driver /\ t0.pc = "cachePlace" /\ Writes(t0, d)
    BY <1>0, <1>2 DEF CachePlace, At, Sound, Task, Writes
  <2>2. /\ geo' = [geo EXCEPT ![d] = t0.at] /\ task' = [task EXCEPT ![w] = Idle]
        /\ UNCHANGED <<tables, cache, booked>>
    BY <1>0, <1>2 DEF CachePlace, Return, Reliable
  <2>3. \A e \in Driver \ {d} : ~Writes(t0, e)
    BY DEF Writes
  <2>4. /\ Settled(t0) /\ GetStatus(d) = Committed(d)
        /\ OneRide(d)
    BY <1>0, <1>i, <2>1, <2>2, Alone
  <2>5. /\ GetStatus(d)' = Committed(d)' /\ geo'[d] = place'[d] /\ OneRide(d)'
        /\ \A e \in Driver \ {d} : geo'[e] = geo[e]
    BY <2>1, <2>2, <2>4
       DEF Settled, OneRide, TypeOK, GetStatus, Committed, Exists, tables
  <2>. HIDE DEF d
  <2>. QED
    BY <1>0, <1>i, <2>1, <2>2, <2>3, <2>4, <2>5, OwnDriver DEF tables
<1>3. CASE Skip(w)
  <2>. DEFINE t == [t0 EXCEPT !.left = Tail(t0.left)]
  <2>1. /\ task' = [task EXCEPT ![w] = t] /\ t0.pc = "filter" /\ t0.left # <<>>
        /\ UNCHANGED <<tables, redis, booked>>
    BY <1>0, <1>3 DEF Skip, At
  <2>2. t0.left \in Seq(Driver) /\ Tail(t0.left) \in Seq(Driver)
    BY <2>1 DEF Task
  <2>3. t \in Task /\ t.pc = "filter"
    BY <2>1, <2>2 DEF Task
  <2>. HIDE DEF t
  <2>. QED
    BY <1>0, <2>1, <2>3, NoDriver DEF Writes, tables, redis
<1>4. CASE Choose(w)
  <2>. DEFINE d == Head(t0.left)
              t == [t0 EXCEPT !.pc = "setBusy", !.left = <<>>, !.driver = d]
  <2>1. /\ task' = [task EXCEPT ![w] = t] /\ t0.pc = "filter" /\ t0.left # <<>>
        /\ GetStatus(d) = "online" /\ UNCHANGED <<tables, redis, booked>>
    BY <1>0, <1>4 DEF Choose, At
  <2>2. d \in Driver
    BY <2>1 DEF Task
  <2>3. t \in Task /\ t.pc = "setBusy" /\ t.driver = d
    <3>. HIDE DEF d
    <3>. QED
      BY <2>2, IdleSound DEF Task, Stage
  <2>. HIDE DEF t, d
  <2>4. Writes(t, d) /\ \A e \in Driver : ~Writes(t0, e) /\ (e # d => ~Writes(t, e))
    BY <2>1, <2>3 DEF Writes
  <2>5. GetStatus(d) = Committed(d) /\ geo[d] = place[d]
    BY <1>0, <2>1, <2>2, <2>3, <2>4, Alone
  <2>6. booked[d] = {}
    BY <2>1, <2>2, <2>5 DEF AInv, InStep, OneRide, Committed
  <2>7. Settled(t)' /\ OneRide(d)' /\ GetStatus(d)' = Committed(d)'
    BY <2>1, <2>3, <2>5, <2>6 DEF Settled, OneRide, GetStatus, Committed, Exists, tables, redis
  <2>. QED
    BY <1>0, <2>1, <2>2, <2>3, <2>4, <2>5, <2>6, <2>7, OwnDriver DEF tables, redis
<1>5. CASE Refuse(w)
  BY <1>0, <1>5, <1>i, NoDriver DEF Refuse, Return, At, Writes, tables, redis
<1>6. CASE SetBusy(w)
  <2>. DEFINE d == t0.driver
              t == [t0 EXCEPT !.pc = "cacheBusy"]
  <2>1. t0.pc = "setBusy" /\ d \in Driver /\ Writes(t0, d)
    BY <1>0, <1>6 DEF SetBusy, At, Sound, Writes
  <2>2. /\ db' = [db EXCEPT ![d] = "busy"] /\ task' = [task EXCEPT ![w] = t]
        /\ UNCHANGED <<place, redis, booked>>
    BY <1>0, <1>6 DEF SetBusy, Goto
  <2>3. t \in Task /\ t.pc = "cacheBusy" /\ t.driver = d
    BY DEF Task, Stage
  <2>. HIDE DEF t
  <2>4. Writes(t, d) /\ \A e \in Driver \ {d} : ~Writes(t0, e) /\ ~Writes(t, e)
    BY <2>3 DEF Writes
  <2>5. Settled(t0) /\ geo[d] = place[d]
    BY <1>0, <2>1, <2>2, <2>3, Alone
  <2>6. /\ Settled(t)' /\ OneRide(d)'
        /\ \A e \in Driver \ {d} : db'[e] = db[e]
    BY <2>1, <2>2, <2>3, <2>5 DEF Settled, OneRide, TypeOK
  <2>. HIDE DEF d
  <2>. QED
    BY <1>0, <2>1, <2>2, <2>3, <2>4, <2>5, <2>6, OwnDriver DEF redis
<1>7. CASE CacheBusy(w)
  <2>. DEFINE d == t0.driver
              t == [t0 EXCEPT !.pc = "record"]
  <2>1. t0.pc = "cacheBusy" /\ d \in Driver /\ Writes(t0, d)
    BY <1>0, <1>7 DEF CacheBusy, At, Sound, Writes
  <2>2. /\ cache' = [cache EXCEPT ![d] = "busy"] /\ task' = [task EXCEPT ![w] = t]
        /\ UNCHANGED <<tables, geo, booked>>
    BY <1>0, <1>7 DEF CacheBusy, Goto, SetStatus, Reliable
  <2>3. t \in Task /\ t.pc = "record" /\ t.driver = d
    BY DEF Task, Stage
  <2>. HIDE DEF t
  <2>4. Writes(t, d) /\ \A e \in Driver \ {d} : ~Writes(t0, e) /\ ~Writes(t, e)
    BY <2>3 DEF Writes
  <2>5. Settled(t0) /\ geo[d] = place[d]
    BY <1>0, <2>1, <2>2, <2>3, Alone
  <2>6. /\ Settled(t)' /\ OneRide(d)' /\ GetStatus(d)' = Committed(d)'
        /\ \A e \in Driver \ {d} : cache'[e] = cache[e]
    BY <2>1, <2>2, <2>3, <2>5 DEF Settled, OneRide, TypeOK, GetStatus, Committed, Exists, tables
  <2>. HIDE DEF d
  <2>. QED
    BY <1>0, <2>1, <2>2, <2>3, <2>4, <2>5, <2>6, OwnDriver DEF tables
<1>8. CASE RecordAssignment(w)
  <2>. DEFINE d == t0.driver
              t == [t0 EXCEPT !.pc = "publish"]
  <2>1. t0.pc = "record" /\ d \in Driver /\ Writes(t0, d)
    BY <1>0, <1>8 DEF RecordAssignment, At, Sound, Writes
  <2>2. /\ booked' = [booked EXCEPT ![d] = @ \cup {t0.ride}]
        /\ task' = [task EXCEPT ![w] = t]
        /\ UNCHANGED <<db, place, redis>>
    BY <1>0, <1>8 DEF RecordAssignment, Goto
  <2>3. t \in Task /\ t.pc = "publish"
    BY DEF Task, Stage
  <2>. HIDE DEF t
  <2>4. ~Writes(t, d) /\ \A e \in Driver \ {d} : ~Writes(t0, e) /\ ~Writes(t, e)
    BY <2>3 DEF Writes
  <2>5. Settled(t0) /\ geo[d] = place[d] /\ GetStatus(d) = Committed(d)
    BY <1>0, <2>1, <2>2, <2>3, Alone
  <2>6. /\ OneRide(d)' /\ GetStatus(d)' = Committed(d)'
        /\ \A e \in Driver \ {d} : booked'[e] = booked[e]
    BY <2>1, <2>2, <2>5 DEF Settled, OneRide, TypeOK, GetStatus, Committed, Exists, redis
  <2>. HIDE DEF d
  <2>. QED
    BY <1>0, <2>1, <2>2, <2>3, <2>4, <2>5, <2>6, OwnDriver DEF redis
<1>9. CASE PublishAssigned(w)
  BY <1>0, <1>9, <1>i, NoDriver DEF PublishAssigned, Return, At, Writes, tables, redis
<1>. QED
  BY <1>1, <1>2, <1>3, <1>4, <1>5, <1>6, <1>7, <1>8, <1>9 DEF Continue

\* Every step keeps the agreement.
LEMMA NextAInv ==
  ASSUME Reliable, IInv, AInv, Apart, Apart', [Next]_vars
  PROVE  AInv'
<1>1. CASE UNCHANGED vars
  BY <1>1 DEF vars, tables, redis, AInv, InStep, OneRide, Settled, GetStatus, Committed, Exists, At
<1>2. ASSUME NEW w \in Worker, Begin(w) PROVE AInv'
  BY <1>2, BeginAInv
<1>3. ASSUME NEW w \in Worker, Continue(w) PROVE AInv'
  BY <1>3, ContinueAInv
<1>. QED
  BY <1>1, <1>2, <1>3 DEF Next, Crash, QueryFails, Reliable

\* It holds as long as calls are apart.
LEMMA SpecAInv == ASSUME Reliable PROVE Spec /\ []Apart => [](IInv /\ AInv)
<1>1. Init => AInv
  BY InitAInv
<1>2. IInv /\ AInv /\ Apart /\ Apart' /\ [Next]_vars => AInv'
  BY NextAInv
<1>. QED
  BY <1>1, <1>2, SpecIInv, PTL DEF Spec

\* With calls that are apart and Redis that works, the cache and the positions
\* are those of the table whenever no call is running.
THEOREM CacheCorrect == ASSUME Reliable PROVE Spec /\ []Apart => []CacheFresh
<1>1. AInv => CacheFresh
  BY DEF AInv, InStep, CacheFresh, At, Writes, Committed
<1>. QED
  BY <1>1, SpecAInv, PTL

\* Under the same conditions nobody is booked twice: what makes double bookings
\* is two calls that cross on one driver, or a write that is lost, and nothing
\* else.
THEOREM BookingCorrect == ASSUME Reliable PROVE Spec /\ []Apart => []NoDoubleBooking
<1>1. AInv => NoDoubleBooking
  BY DEF AInv, InStep, OneRide, NoDoubleBooking
<1>. QED
  BY <1>1, SpecAInv, PTL
-----------------------------------------------------------------------------
\* One call at a time.  Then nothing moves while a search goes through what
\* GEOSEARCH has returned, whatever becomes of the other calls.

Serial == \A v, w \in Worker : v = w \/ At(v, "idle") \/ At(w, "idle")

In(d, s) == \E i \in 1 .. Len(s) : s[i] = d

\* The drivers in hiding were skipped: they are not online, and as near as
\* anybody who is.
Hiding(hiding, s) ==
  /\ hiding \subseteq InRadius \ Available
  /\ \A h \in hiding, d \in Available : geo[h] <= geo[d]
  /\ \A h \in hiding : ~In(h, s)
  /\ Cardinality(hiding) + Len(s) = Limit

\* The list s that a search still has to go through has each driver once and
\* is nearest first, and an available driver that is not in it is no nearer.
\* When there is one, the COUNT was used up by s and by those skipped.
Searched(s) ==
  /\ \A i \in 1 .. Len(s) : s[i] \in InRadius
  /\ \A i, j \in 1 .. Len(s) : i # j => s[i] # s[j]
  /\ NearestFirst(s)
  /\ \A d \in Available : In(d, s) \/ \A i \in 1 .. Len(s) : geo[s[i]] <= geo[d]
  /\ (\A d \in Available : In(d, s)) \/ (\E hiding : Hiding(hiding, s))

SInv == \A w \in Worker : At(w, "filter") => Searched(task[w].left)

\* An order of a finite set is a sequence that has all its members.
LEMMA OrderIsOnto ==
  ASSUME NEW S, IsFiniteSet(S), NEW o \in Orders(S), NEW d \in S
  PROVE  /\ Len(o) = Cardinality(S)
         /\ \A i \in 1 .. Len(o) : o[i] \in S
         /\ \E i \in 1 .. Len(o) : o[i] = d
<1>. DEFINE n == Cardinality(S)
<1>1. n \in Nat
  BY FS_CardinalityType
<1>2. o \in [1 .. n -> S] /\ \A i, j \in 1 .. n : i # j => o[i] # o[j]
  BY DEF Orders
<1>3. o \in Injection(1 .. n, S)
  BY <1>2 DEF Injection, IsInjective
<1>4. Cardinality(1 .. n) = n
  BY <1>1, FS_Interval
<1>. HIDE DEF n
<1>5. o \in Surjection(1 .. n, S)
  BY <1>3, <1>4, FS_Injection DEF n
<1>6. Len(o) = n
  BY <1>1, <1>2
<1>. QED
  BY <1>2, <1>5, <1>6 DEF Surjection, n

\* What GEOSEARCH returns has the nearest drivers, as many as it counts.
LEMMA GeoSearchFinds ==
  ASSUME TypeOK, NEW s \in GeoSearch
  PROVE  Searched(s)
<1>1. PICK o \in Orders(InRadius) : NearestFirst(o) /\ s = FirstOf(o)
  BY DEF GeoSearch
<1>2. /\ InRadius \subseteq Driver /\ IsFiniteSet(InRadius)
      /\ Cardinality(InRadius) <= Cardinality(Driver)
      /\ Cardinality(InRadius) \in Nat /\ Cardinality(Driver) \in Nat
  BY DriverAssumption, FS_Subset, FS_CardinalityType DEF InRadius
<1>3. o \in Seq(Driver)
  BY <1>2 DEF Orders
<1>4. \A d \in InRadius : geo[d] \in Nat
  BY DistanceAssumption DEF InRadius
<1>5. PICK m \in Nat : /\ m = IF Len(o) < Limit THEN Len(o) ELSE Limit
                       /\ s = SubSeq(o, 1, m)
  BY <1>1, <1>3, LimitAssumption DEF FirstOf
<1>6. m <= Len(o) /\ Len(s) = m /\ \A i \in 1 .. m : s[i] = o[i]
  BY <1>3, <1>5, LimitAssumption, SubSeqProperties
<1>7. \A i \in 1 .. Len(o) : o[i] \in InRadius
  <2>1. Len(o) = Cardinality(InRadius) /\ o \in [1 .. Cardinality(InRadius) -> InRadius]
    BY <1>2 DEF Orders
  <2>. QED
    BY <2>1
<1>8. \A i, j \in 1 .. m : i # j => s[i] # s[j]
  <2>1. \A i, j \in 1 .. Len(o) : i # j => o[i] # o[j]
    BY <1>2 DEF Orders
  <2>. QED
    BY <1>3, <1>6, <2>1
<1>9. ASSUME NEW d \in Available
      PROVE  \/ In(d, s)
             \/ m = Limit /\ \A i \in 1 .. m : geo[s[i]] <= geo[d]
  <2>1. d \in InRadius
    BY DEF Available
  <2>2. PICK j \in 1 .. Len(o) : o[j] = d
    BY <1>2, <2>1, OrderIsOnto
  <2>3. CASE j <= m
    BY <1>6, <2>2, <2>3 DEF In
  <2>4. CASE j > m
    <3>1. m = Limit
      BY <1>3, <1>5, <2>2, <2>4, LimitAssumption
    <3>2. \A i \in 1 .. m : geo[s[i]] <= geo[d]
      BY <1>1, <1>3, <1>6, <2>2, <2>4 DEF NearestFirst
    <3>. QED
      BY <3>1, <3>2
  <2>. QED
    BY <1>3, <2>2, <2>3, <2>4
<1>10. m = Limit => Hiding({}, s)
  BY <1>6, FS_EmptySet, LimitAssumption DEF Hiding
<1>. QED
  BY <1>1, <1>3, <1>6, <1>7, <1>8, <1>9, <1>10 DEF Searched, NearestFirst

\* At first nobody searches.
LEMMA InitSInv == Init => SInv
BY DEF Init, SInv, At, Idle

\* A search depends on Redis alone.
LEMMA SearchedSame ==
  ASSUME UNCHANGED redis, NEW s, Searched(s)
  PROVE  Searched(s)'
BY DEF redis, Searched, In, Hiding, InRadius, NearestFirst, Available, GetStatus

\* A call that begins is not idle; only a search is at its filter.
LEMMA BeginMoves ==
  ASSUME TypeOK, NEW w \in Worker, Begin(w)
  PROVE  /\ At(w, "idle") /\ ~At(w, "idle")'
         /\ \A v \in Worker \ {w} : task'[v] = task[v]
         /\ At(w, "filter")' =>
              UNCHANGED redis /\ \E s \in GeoSearch : s = task'[w].left
<1>1. ASSUME NEW r \in Ride, NEW s \in GeoSearch,
             Call(w, [Idle EXCEPT !.pc = "filter", !.ride = r, !.left = s])
      PROVE  /\ At(w, "idle") /\ task'[w].pc = "filter" /\ task'[w].left = s
             /\ \A v \in Worker \ {w} : task'[v] = task[v]
  BY <1>1 DEF Call, Idle, TypeOK
<1>2. ASSUME NEW d \in Driver, Register(w, d)
      PROVE  /\ At(w, "idle") /\ task'[w].pc = "cacheStatus"
             /\ \A v \in Worker \ {w} : task'[v] = task[v]
  BY <1>2 DEF Register, Call, Idle, TypeOK
<1>3. ASSUME NEW d \in Driver, NEW s \in Status, UpdateStatus(w, d, s)
      PROVE  /\ At(w, "idle") /\ task'[w].pc = "cacheStatus"
             /\ \A v \in Worker \ {w} : task'[v] = task[v]
  BY <1>3 DEF UpdateStatus, Call, Idle, TypeOK
<1>4. ASSUME NEW d \in Driver, NEW x \in Distance, UpdateLocation(w, d, x)
      PROVE  /\ At(w, "idle") /\ task'[w].pc = "cachePlace"
             /\ \A v \in Worker \ {w} : task'[v] = task[v]
  BY <1>4 DEF UpdateLocation, Call, Idle, TypeOK
<1>5. CASE \E r \in Ride : Search(w, r)
  BY <1>1, <1>5 DEF Search, At
<1>. QED
  BY <1>2, <1>3, <1>4, <1>5 DEF Begin, At

\* A call that goes on was not idle; it stays at its filter by skipping a driver.
LEMMA ContinueMoves ==
  ASSUME TypeOK, NEW w \in Worker, Continue(w)
  PROVE  /\ ~At(w, "idle")
         /\ \A v \in Worker \ {w} : task'[v] = task[v]
         /\ At(w, "filter")' => Skip(w)
<1>. USE DEF At, TypeOK
<1>1. ASSUME CacheStatus(w) \/ CachePlace(w) \/ Refuse(w) \/ PublishAssigned(w)
      PROVE  /\ task[w].pc # "idle" /\ task'[w].pc = "idle"
             /\ \A v \in Worker \ {w} : task'[v] = task[v]
  BY <1>1 DEF CacheStatus, CachePlace, Refuse, PublishAssigned, Return, Idle
<1>2. ASSUME Skip(w)
      PROVE  task[w].pc # "idle" /\ \A v \in Worker \ {w} : task'[v] = task[v]
  BY <1>2 DEF Skip
<1>3. ASSUME Choose(w) \/ SetBusy(w) \/ CacheBusy(w) \/ RecordAssignment(w)
      PROVE  /\ task[w].pc # "idle" /\ task'[w].pc # "filter"
             /\ \A v \in Worker \ {w} : task'[v] = task[v]
  BY <1>3 DEF Choose, SetBusy, CacheBusy, RecordAssignment, Goto, Task
<1>. QED
  BY <1>1, <1>2, <1>3 DEF Continue

\* What is left after skipping a driver that is not online.
LEMMA TailSearched ==
  ASSUME TypeOK, NEW s \in Seq(Driver), s # <<>>, Searched(s),
         GetStatus(Head(s)) # "online"
  PROVE  Searched(Tail(s))
<1>. DEFINE t == Tail(s)
<1>1. Len(s) \in Nat /\ Len(s) >= 1 /\ Len(t) = Len(s) - 1 /\ Head(s) = s[1]
  OBVIOUS
<1>2. \A i \in 1 .. Len(t) : i + 1 \in 1 .. Len(s) /\ t[i] = s[i + 1]
  BY <1>1
<1>3. ASSUME NEW d \in Available, In(d, s)
      PROVE  In(d, t)
  <2>1. PICK i \in 1 .. Len(s) : s[i] = d
    BY <1>3 DEF In
  <2>2. i # 1
    BY <1>1, <2>1 DEF Available
  <2>3. i - 1 \in 1 .. Len(t) /\ t[i - 1] = s[i]
    BY <1>1, <1>2, <2>1, <2>2
  <2>. QED
    BY <2>1, <2>3 DEF In
<1>. HIDE DEF t
<1>4. \A i \in 1 .. Len(t) : t[i] \in InRadius
  BY <1>2 DEF Searched
<1>5. NearestFirst(t)
  BY <1>1, <1>2 DEF Searched, NearestFirst
<1>6. \A i, j \in 1 .. Len(t) : i # j => t[i] # t[j]
  BY <1>1, <1>2 DEF Searched
<1>7. \A d \in Available : In(d, t) \/ \A i \in 1 .. Len(t) : geo[t[i]] <= geo[d]
  BY <1>2, <1>3 DEF Searched
<1>8. ASSUME NEW hiding, Hiding(hiding, s)
      PROVE  Hiding(hiding \cup {s[1]}, t)
  <2>1. s[1] \in InRadius /\ s[1] \notin Available
    BY <1>1 DEF Searched, Available
  <2>2. s[1] \notin hiding
    BY <1>1, <1>8 DEF Hiding, In
  <2>3. /\ IsFiniteSet(hiding)
        /\ Cardinality(hiding) \in Nat
        /\ Cardinality(hiding \cup {s[1]}) = Cardinality(hiding) + 1
    <3>1. hiding \subseteq Driver
      BY <1>8 DEF Hiding, InRadius
    <3>. QED
      BY <2>2, <3>1, DriverAssumption, FS_Subset, FS_AddElement, FS_CardinalityType
  <2>4. ASSUME NEW d \in Available PROVE geo[s[1]] <= geo[d]
    <3>1. geo[s[1]] \in Nat
      BY <2>1, DistanceAssumption DEF InRadius
    <3>2. CASE In(d, s)
      BY <1>1, <3>1, <3>2 DEF Searched, NearestFirst, In
    <3>. QED
      BY <1>1, <3>2 DEF Searched
  <2>5. ~In(s[1], t) /\ \A h \in hiding : ~In(h, t)
    BY <1>1, <1>2, <1>8 DEF In, Searched, Hiding
  <2>. QED
    BY <1>1, <1>8, <2>1, <2>3, <2>4, <2>5, LimitAssumption DEF Hiding
<1>9. (\A d \in Available : In(d, t)) \/ (\E hiding : Hiding(hiding, t))
  BY <1>3, <1>8 DEF Searched
<1>. QED
  BY <1>4, <1>5, <1>6, <1>7, <1>9 DEF Searched, t

\* While a call is at its filter, a step is its own.
LEMMA NextSInv ==
  ASSUME "redis" \notin Faults, IInv, SInv, Serial, Serial', [Next]_vars
  PROVE  SInv'
<1>. USE DEF IInv
<1>. SUFFICES ASSUME NEW v \in Worker, NEW s, s = task'[v].left, task'[v].pc = "filter"
              PROVE  Searched(s)'
  BY DEF SInv, At
<1>1. CASE UNCHANGED vars
  BY <1>1, SearchedSame DEF vars, SInv, At
<1>2. CASE Crash
  BY <1>2 DEF Crash, Idle
<1>3. ASSUME NEW w \in Worker, Begin(w) PROVE Searched(s)'
  <2>1. w = v
    BY <1>3, BeginMoves DEF Serial, At
  <2>. QED
    BY <1>3, <2>1, BeginMoves, GeoSearchFinds, SearchedSame DEF At
<1>4. ASSUME NEW w \in Worker, Continue(w) PROVE Searched(s)'
  <2>1. w = v
    BY <1>4, ContinueMoves DEF Serial, At
  <2>2. Skip(v)
    BY <1>4, <2>1, ContinueMoves DEF At
  <2>3. PICK t0 \in Task : t0 = task[v]
    BY DEF TypeOK
  <2>4. t0.left \in Seq(Driver) /\ t0.left # <<>> /\ Searched(t0.left)
    BY <2>2, <2>3 DEF Skip, SInv, At, Task
  <2>5. GetStatus(Head(t0.left)) # "online" /\ UNCHANGED redis /\ s = Tail(t0.left)
    BY <2>2, <2>3 DEF Skip, TypeOK, Task
  <2>. QED
    BY <2>4, <2>5, TailSearched, SearchedSame
<1>5. ASSUME NEW w \in Worker, QueryFails(w) PROVE Searched(s)'
  <2>1. /\ task[w].pc # "idle" /\ task'[w].pc = "idle"
        /\ \A u \in Worker \ {w} : task'[u] = task[u]
    BY <1>5 DEF QueryFails, Return, Idle, At, TypeOK
  <2>. QED
    BY <2>1 DEF Serial, At
<1>. QED
  BY <1>1, <1>2, <1>3, <1>4, <1>5 DEF Next

\* Searches are right as long as calls come one at a time.
LEMMA SpecSInv ==
  ASSUME "redis" \notin Faults
  PROVE  Spec /\ []Serial => [](IInv /\ SInv)
<1>1. Init => SInv
  BY InitSInv
<1>2. IInv /\ SInv /\ Serial /\ Serial' /\ [Next]_vars => SInv'
  BY NextSInv
<1>. QED
  BY <1>1, <1>2, SpecIInv, PTL DEF Spec

\* With one call at a time and Redis that works, the driver chosen is online,
\* within the radius, and no available one is nearer, whatever GEOSEARCH's
\* limit and whoever dies or gives up when.
THEOREM NearestCorrect ==
  ASSUME "redis" \notin Faults
  PROVE  Spec /\ []Serial => NearestChosen
<1>. DEFINE P(w) == /\ task'[w].driver \in Available
                    /\ \A d \in Available : geo[task'[w].driver] <= geo[d]
<1>1. ASSUME IInv, SInv, NEW w \in Worker, Choose(w)
      PROVE  P(w)
  <2>1. PICK t0 \in Task : t0 = task[w]
    BY <1>1 DEF IInv, TypeOK
  <2>. DEFINE s == t0.left
              h == Head(s)
  <2>2. s \in Seq(Driver) /\ s # <<>> /\ Searched(s) /\ GetStatus(h) = "online"
    BY <1>1, <2>1 DEF Choose, SInv, At, Task
  <2>3. task'[w].driver = h
    BY <1>1, <2>1 DEF Choose, IInv, TypeOK, Task
  <2>. HIDE DEF s
  <2>4. Len(s) \in Nat /\ Len(s) >= 1 /\ h = s[1]
    BY <2>2
  <2>. HIDE DEF h
  <2>5. h \in Available
    BY <2>2, <2>4 DEF Searched, Available
  <2>6. ASSUME NEW d \in Available PROVE geo[h] <= geo[d]
    <3>1. geo[h] \in Nat
      BY <2>5, DistanceAssumption DEF Available, InRadius
    <3>2. CASE In(d, s)
      BY <2>2, <2>4, <3>1, <3>2 DEF Searched, NearestFirst, In
    <3>. QED
      BY <2>2, <2>4, <3>2 DEF Searched
  <2>. QED
    BY <2>3, <2>5, <2>6
<1>. HIDE DEF P
<1>2. IInv /\ SInv /\ [Next]_vars => [\A w \in Worker : Choose(w) => P(w)]_vars
  BY <1>1
<1>3. [](IInv /\ SInv) /\ [][Next]_vars => [][\A w \in Worker : Choose(w) => P(w)]_vars
  BY <1>2, PTL
<1>. QED
  BY <1>3, SpecSInv, PTL DEF Spec, NearestChosen, P

\* Under the same conditions a ride is refused with somebody available for one
\* reason only: Limit drivers as near as every available one are not online
\* and take up the COUNT of GEOSEARCH.
THEOREM RefusalCorrect ==
  ASSUME "redis" \notin Faults
  PROVE  Spec /\ []Serial => RefusalExplained
<1>. DEFINE E == \/ Available = {}
                 \/ \E hiding \in SUBSET (InRadius \ Available) :
                      /\ Cardinality(hiding) = Limit
                      /\ \A h \in hiding, d \in Available : geo[h] <= geo[d]
<1>1. ASSUME IInv, SInv, NEW w \in Worker, Refuse(w)
      PROVE  E
  <2>1. Searched(<<>>)
    BY <1>1 DEF Refuse, SInv, At
  <2>2. CASE \A d \in Available : In(d, <<>>)
    BY <2>2 DEF In
  <2>3. ASSUME NEW hiding, Hiding(hiding, <<>>) PROVE E
    <3>1. Cardinality(hiding) \in Nat
      <4>1. hiding \subseteq Driver
        BY <2>3 DEF Hiding, InRadius
      <4>. QED
        BY <4>1, DriverAssumption, FS_Subset, FS_CardinalityType
    <3>. QED
      BY <2>3, <3>1 DEF Hiding
  <2>. QED
    BY <2>1, <2>2, <2>3 DEF Searched
<1>. HIDE DEF E
<1>2. IInv /\ SInv /\ [Next]_vars => [\A w \in Worker : Refuse(w) => E]_vars
  BY <1>1
<1>3. [](IInv /\ SInv) /\ [][Next]_vars => [][\A w \in Worker : Refuse(w) => E]_vars
  BY <1>2, PTL
<1>. QED
  BY <1>3, SpecSInv, PTL DEF Spec, RefusalExplained, E

\* A service with one worker is the simplest that takes calls one at a time.
LEMMA OneWorkerIsSerial == (\A v, w \in Worker : v = w) => Apart /\ Serial
BY DEF Apart, Serial
=============================================================================
