------------------------- MODULE RideServiceProofs -------------------------
(***************************************************************************)
(* Theorems about RideService for any number of rides, users, drivers,     *)
(* calls in flight and any set of faults.                                  *)
(***************************************************************************)
EXTENDS RideService, FiniteSetTheorems, TLAPS
-----------------------------------------------------------------------------
\* The inductive invariant: besides the type, a call that has committed the
\* end of a ride is the only one that will announce it, and it has not yet.

\* The call is past its commit.
Committed(w) == task[w].pc \in {"reread", "pubChanged", "pubOutcome"}

\* The call still has to announce the end of its ride.
Due(w) == Committed(w) /\ task[w].to \in Terminal

TaskOK ==
  \A w \in Worker :
    /\ task[w].pc \notin {"idle", "insert"} => task[w].ride \in Ride
    /\ task[w].pc = "insert" => task[w].who \in Passenger
    /\ task[w].pc = "pubOutcome" => task[w].to \in Terminal

CommittedOK == \A w \in Worker : Committed(w) => Exists(task[w].ride)

DueOK ==
  \A w \in Worker : Due(w) =>
    /\ status[task[w].ride] = task[w].to
    /\ sent[task[w].ride]["ride.completed"] = 0
    /\ sent[task[w].ride]["ride.cancelled"] = 0

DueUnique ==
  \A v, w \in Worker :
    Due(v) /\ Due(w) /\ task[v].ride = task[w].ride => v = w

IInv == /\ TypeOK /\ TaskOK /\ HistoryIsPath /\ OneOutcome
        /\ CommittedOK /\ DueOK /\ DueUnique
-----------------------------------------------------------------------------
\* Facts about the status machine.

\* The two final statuses, spelt out.
LEMMA TerminalStatuses == Terminal = {"completed", "cancelled"}
BY DEF Terminal, Statuses, allowedTransitions

\* The table relates statuses to statuses and has no row for a final one.
LEMMA TransitionFacts ==
  ASSUME NEW s, NEW t, CanTransition(s, t)
  PROVE  /\ s \in Statuses /\ t \in Statuses
         /\ s \notin Terminal /\ t # "requested" /\ IsActiveStatus(s)
  BY DEF CanTransition, Statuses, allowedTransitions, Terminal, IsActiveStatus

\* AssignDriver makes a transition of the table although it does not call
\* CanTransition.
LEMMA AssignIsTransition == CanTransition("requested", "driver_assigned")
BY DEF CanTransition, allowedTransitions

\* Appending an allowed status keeps the history a path.
LEMMA AppendPath ==
  ASSUME NEW h \in Seq(Statuses), NEW s, NEW t, IsPath(h, s), CanTransition(s, t)
  PROVE  Append(h, t) \in Seq(Statuses) /\ IsPath(Append(h, t), t)
<1>1. t \in Statuses
  BY TransitionFacts
<1>2. Len(h) \in Nat /\ Len(h) > 0 /\ h[1] = "requested" /\ h[Len(h)] = s
  BY DEF IsPath
<1>3. /\ Append(h, t) \in Seq(Statuses)
      /\ Len(Append(h, t)) = Len(h) + 1
      /\ Append(h, t)[Len(h) + 1] = t
      /\ \A i \in 1 .. Len(h) : Append(h, t)[i] = h[i]
  BY <1>1
<1>4. ASSUME NEW i \in 1 .. Len(h)
      PROVE  CanTransition(Append(h, t)[i], Append(h, t)[i + 1])
  <2>1. CASE i = Len(h)
    BY <1>2, <1>3, <2>1
  <2>2. CASE i # Len(h)
    <3>1. i \in 1 .. Len(h) - 1 /\ i + 1 \in 1 .. Len(h)
      BY <1>2, <2>2
    <3>. QED
      BY <1>3, <3>1 DEF IsPath
  <2>. QED
    BY <2>1, <2>2
<1>. QED
  BY <1>2, <1>3, <1>4 DEF IsPath
-----------------------------------------------------------------------------
\* The first state.
LEMMA InitIInv == Init => IInv
BY DEF Init, IInv, TypeOK, TaskOK, HistoryIsPath, OneOutcome, CommittedOK, DueOK,
       DueUnique, Due, Committed, Exists, Idle, Task, Stage, Subject, Statuses
-----------------------------------------------------------------------------
\* Steps.

\* The call of w moves from its task to task t and no other call moves.
Moves(w, t) ==
  /\ task'[w] = t
  /\ \A v \in Worker \ {w} : task'[v] = task[v]

\* A task that satisfies TaskOK.
Sound(t) ==
  /\ t \in Task
  /\ t.pc \notin {"idle", "insert"} => t.ride \in Ride
  /\ t.pc = "insert" => t.who \in Passenger
  /\ t.pc = "pubOutcome" => t.to \in Terminal

\* A call that goes to a sound task keeps every task sound.
LEMMA MoveTask ==
  ASSUME TypeOK, TaskOK, NEW w \in Worker, NEW t, Sound(t),
         task' = [task EXCEPT ![w] = t]
  PROVE  task' \in [Worker -> Task] /\ TaskOK' /\ Moves(w, t)
BY DEF TypeOK, TaskOK, Sound, Moves

\* Where each step sends a call: every destination is a sound task.
LEMMA IdleSound == Sound(Idle)
BY DEF Sound, Idle, Task, Stage, Statuses

LEMMA InsertSound ==
  ASSUME NEW p \in Passenger, NEW b \in BOOLEAN
  PROVE  Sound([Idle EXCEPT !.pc = "insert", !.who = p, !.scheduled = b])
BY DEF Sound, Idle, Task, Stage, Statuses

LEMMA RereadSound ==
  ASSUME NEW r \in Ride, NEW to \in Statuses
  PROVE  Sound([Idle EXCEPT !.pc = "reread", !.ride = r, !.to = to])
BY DEF Sound, Idle, Task, Stage, Statuses

LEMMA EstimateSound ==
  ASSUME NEW u \in Task, NEW r \in Ride
  PROVE  Sound([u EXCEPT !.pc = "estimate", !.ride = r])
BY DEF Sound, Task, Stage

LEMMA PublishSound ==
  ASSUME NEW u \in Task, u.ride \in Ride,
         NEW stage \in {"pubRequested", "pubScheduled"}
  PROVE  Sound([u EXCEPT !.pc = stage])
BY DEF Sound, Task, Stage

LEMMA ChangedSound ==
  ASSUME NEW u \in Task, u.ride \in Ride, NEW s \in Statuses
  PROVE  Sound([u EXCEPT !.pc = "pubChanged", !.seen = s])
BY DEF Sound, Task, Stage

LEMMA OutcomeSound ==
  ASSUME NEW u \in Task, u.ride \in Ride, u.to \in Terminal
  PROVE  Sound([u EXCEPT !.pc = "pubOutcome"])
BY DEF Sound, Task, Stage

\* A step that moves the call of w to a sound task, writes neither a table the
\* invariant reads nor an outcome, and does not commit anything, keeps the
\* invariant.
LEMMA QuietStep ==
  ASSUME IInv, NEW w \in Worker, NEW t, Sound(t),
         task' = [task EXCEPT ![w] = t],
         UNCHANGED <<status, passenger, driver, history, created>>,
         estimated' \in SUBSET Ride,
         told' \in [Ride -> SUBSET Statuses],
         sent' \in [Ride -> [Subject -> Nat]],
         \A r \in Ride : /\ sent'[r]["ride.completed"] = sent[r]["ride.completed"]
                         /\ sent'[r]["ride.cancelled"] = sent[r]["ride.cancelled"],
         Committed(w)' => /\ Committed(w)
                          /\ t.ride = task[w].ride /\ t.to = task[w].to
  PROVE  IInv'
<1>. USE DEF IInv
<1>1. task' \in [Worker -> Task] /\ TaskOK' /\ Moves(w, t)
  BY MoveTask
<1>2. TypeOK'
  BY <1>1 DEF TypeOK
<1>3. HistoryIsPath' /\ OneOutcome'
  BY DEF HistoryIsPath, OneOutcome, Exists
<1>4. ASSUME NEW v \in Worker, Committed(v)'
      PROVE  /\ Committed(v)
             /\ task'[v].ride = task[v].ride /\ task'[v].to = task[v].to
             /\ task[v].ride \in Ride
  BY <1>1, <1>4 DEF Moves, Committed, TaskOK
<1>5. CommittedOK' /\ DueOK'
  BY <1>4 DEF CommittedOK, DueOK, Due, Exists
<1>6. DueUnique'
  BY <1>4 DEF DueUnique, Due
<1>. QED
  BY <1>1, <1>2, <1>3, <1>5, <1>6

\* A publication adds one to one counter.
LEMMA SentUpdate ==
  ASSUME NEW f \in [Ride -> [Subject -> Nat]], NEW r \in Ride, NEW s \in Subject,
         NEW g, g = [f EXCEPT ![r][s] = @ + 1]
  PROVE  /\ g \in [Ride -> [Subject -> Nat]]
         /\ \A q \in Ride, u \in Subject :
              g[q][u] = IF q = r /\ u = s THEN f[q][u] + 1 ELSE f[q][u]
<1>1. f[r] \in [Subject -> Nat] /\ f[r][s] + 1 \in Nat
  OBVIOUS
<1>2. g = [f EXCEPT ![r] = [f[r] EXCEPT ![s] = f[r][s] + 1]]
  OBVIOUS
<1>3. g[r] = [f[r] EXCEPT ![s] = f[r][s] + 1] /\ \A q \in Ride \ {r} : g[q] = f[q]
  BY <1>2
<1>4. g[r] \in [Subject -> Nat]
  BY <1>1, <1>3
<1>5. g \in [Ride -> [Subject -> Nat]]
  BY <1>1, <1>2
<1>. QED
  BY <1>1, <1>3, <1>5

\* The publications, as QuietStep wants them.
LEMMA PublishQuiet ==
  ASSUME TypeOK, NEW r \in Ride, NEW subject \in Subject,
         subject \notin {"ride.completed", "ride.cancelled"}, Publish(r, subject)
  PROVE  /\ told' \in [Ride -> SUBSET Statuses]
         /\ sent' \in [Ride -> [Subject -> Nat]]
         /\ \A q \in Ride : /\ sent'[q]["ride.completed"] = sent[q]["ride.completed"]
                            /\ sent'[q]["ride.cancelled"] = sent[q]["ride.cancelled"]
<1>1. {"ride.completed", "ride.cancelled"} \subseteq Subject
  BY DEF Subject
<1>2. sent \in [Ride -> [Subject -> Nat]] /\ told \in [Ride -> SUBSET Statuses]
  BY DEF TypeOK
<1>3. told' = told /\ (sent' = sent \/ sent' = [sent EXCEPT ![r][subject] = @ + 1])
  BY DEF Publish
<1>4. CASE sent' = sent
  BY <1>2, <1>3, <1>4
<1>5. CASE sent' = [sent EXCEPT ![r][subject] = @ + 1]
  <2>1. /\ sent' \in [Ride -> [Subject -> Nat]]
        /\ \A q \in Ride, u \in Subject :
             sent'[q][u] = IF q = r /\ u = subject THEN sent[q][u] + 1 ELSE sent[q][u]
    BY <1>2, <1>5, SentUpdate
  <2>. QED
    BY <1>1, <1>2, <1>3, <2>1
<1>. QED
  BY <1>3, <1>4, <1>5

\* The same for ride.status_changed.
LEMMA PublishChangeQuiet ==
  ASSUME TypeOK, NEW r \in Ride, NEW s \in Statuses, PublishChange(r, s)
  PROVE  told' \in [Ride -> SUBSET Statuses] /\ UNCHANGED sent
BY DEF TypeOK, PublishChange
-----------------------------------------------------------------------------
\* The two steps that write the outcome of a ride or create it.

\* A ride is created.
LEMMA CreateStep ==
  ASSUME IInv, NEW w \in Worker, CreateWithHistory(w)
  PROVE  IInv'
<1>. USE DEF IInv
<1>1. PICK r \in Ride :
        /\ ~Exists(r)
        /\ status' = [status EXCEPT ![r] = "requested"]
        /\ passenger' = [passenger EXCEPT ![r] = task[w].who]
        /\ created' = Append(created, r)
        /\ history' = [history EXCEPT ![r] = <<"requested">>]
        /\ \/ task' = [task EXCEPT ![w].pc = "estimate", ![w].ride = r]
           \/ Return(w)
  BY DEF CreateWithHistory
<1>2. UNCHANGED <<driver, estimated, sent, told>>
  BY DEF CreateWithHistory, events
<1>3. task[w].who \in Passenger /\ task[w] \in Task /\ ~Committed(w)
  BY DEF CreateWithHistory, At, TaskOK, TypeOK, Committed
<1>4. PICK t : /\ Sound(t) /\ t.pc \in {"idle", "estimate"}
               /\ task' = [task EXCEPT ![w] = t]
  <2>1. CASE Return(w)
    BY <2>1, IdleSound DEF Return, Idle
  <2>2. CASE task' = [task EXCEPT ![w].pc = "estimate", ![w].ride = r]
    <3>. DEFINE t == [task[w] EXCEPT !.pc = "estimate", !.ride = r]
    <3>1. task' = [task EXCEPT ![w] = t] /\ t.pc = "estimate"
      BY <2>2, <1>3 DEF Task
    <3>. QED
      BY <3>1, <1>3, EstimateSound
  <2>. QED
    BY <1>1, <2>1, <2>2
<1>5. task' \in [Worker -> Task] /\ TaskOK' /\ Moves(w, t)
  BY <1>4, MoveTask
<1>6. TypeOK'
  BY <1>1, <1>2, <1>3, <1>5 DEF TypeOK, Statuses
<1>7. HistoryIsPath'
  BY <1>1 DEF TypeOK, HistoryIsPath, Exists, IsPath
<1>8. OneOutcome'
  BY <1>1, <1>2 DEF TypeOK, OneOutcome, Exists
<1>9. ASSUME NEW v \in Worker, Committed(v)'
      PROVE  Committed(v) /\ task'[v] = task[v] /\ task[v].ride \in Ride
  BY <1>4, <1>5, <1>9 DEF Moves, Committed, TaskOK
<1>10. CommittedOK' /\ DueOK'
  BY <1>1, <1>2, <1>9, TerminalStatuses
     DEF CommittedOK, DueOK, Exists, TypeOK, Due
<1>11. DueUnique'
  BY <1>9 DEF DueUnique, Due
<1>. QED
  BY <1>5, <1>6, <1>7, <1>8, <1>10, <1>11

\* A transition is committed: nothing is due for the ride yet, because its old
\* status is not final.
LEMMA CommitStep ==
  ASSUME IInv, NEW w \in Worker, NEW r \in Ride, NEW to, NEW d \in Driver \cup {None},
         CanTransition(status[r], to), Commit(w, r, to, d)
  PROVE  IInv'
<1>. USE DEF IInv
<1>. DEFINE t == [Idle EXCEPT !.pc = "reread", !.ride = r, !.to = to]
<1>1. /\ status' = [status EXCEPT ![r] = to]
      /\ driver' = [driver EXCEPT ![r] = d]
      /\ history' = [history EXCEPT ![r] = Append(@, to)]
      /\ task' = [task EXCEPT ![w] = t]
      /\ UNCHANGED <<passenger, created, estimated, sent, told>>
  BY DEF Commit, events
<1>2. /\ status[r] \in Statuses /\ to \in Statuses
      /\ status[r] \notin Terminal /\ Exists(r)
  BY TransitionFacts DEF Exists, Statuses
<1>3. task' \in [Worker -> Task] /\ TaskOK' /\ Moves(w, t)
  BY <1>1, <1>2, RereadSound, MoveTask
<1>4. Append(history[r], to) \in Seq(Statuses) /\ IsPath(Append(history[r], to), to)
  BY <1>2, AppendPath DEF TypeOK, HistoryIsPath
<1>5. TypeOK'
  BY <1>1, <1>2, <1>3, <1>4 DEF TypeOK
<1>6. HistoryIsPath'
  BY <1>1, <1>2, <1>4 DEF TypeOK, HistoryIsPath, Exists, Statuses
<1>7. OneOutcome'
  BY <1>1, <1>2, TerminalStatuses DEF TypeOK, OneOutcome
<1>8. sent[r]["ride.completed"] = 0 /\ sent[r]["ride.cancelled"] = 0
  BY <1>2, TerminalStatuses DEF TypeOK, OneOutcome, Subject
<1>9. t.ride = r /\ t.to = to
  BY DEF Idle
<1>10. ASSUME NEW v \in Worker, v # w, Committed(v)'
       PROVE  /\ Committed(v) /\ task'[v] = task[v] /\ task[v].ride \in Ride
              /\ Due(v) => task[v].ride # r
  <2>1. Committed(v) /\ task'[v] = task[v] /\ task[v].ride \in Ride
    BY <1>3, <1>10 DEF Moves, Committed, TaskOK
  <2>2. Due(v) => task[v].ride # r
    BY <1>2, <2>1 DEF DueOK, Due
  <2>. QED
    BY <2>1, <2>2
<1>11. CommittedOK' /\ DueOK'
  BY <1>1, <1>2, <1>3, <1>8, <1>9, <1>10
     DEF CommittedOK, DueOK, Due, Moves, TypeOK, Exists, Statuses
<1>12. DueUnique'
  BY <1>3, <1>9, <1>10 DEF DueUnique, Due, Moves
<1>. QED
  BY <1>3, <1>5, <1>6, <1>7, <1>11, <1>12

\* The end of a ride is announced by the one call that still owed it.
LEMMA OutcomeStep ==
  ASSUME IInv, NEW w \in Worker, PublishOutcome(w)
  PROVE  IInv'
<1>. USE DEF IInv
<1>. DEFINE r == task[w].ride
            o == OutcomeSubject(task[w].to)
<1>1. Due(w) /\ r \in Ride /\ task[w].to \in Terminal
  BY DEF PublishOutcome, At, TaskOK, Due, Committed
<1>2. /\ status[r] = task[w].to
      /\ sent[r]["ride.completed"] = 0 /\ sent[r]["ride.cancelled"] = 0
  BY <1>1 DEF DueOK
<1>3. /\ task' = [task EXCEPT ![w] = Idle]
      /\ UNCHANGED <<status, passenger, driver, history, created, estimated, told>>
      /\ sent' = [sent EXCEPT ![r][o] = @ + 1] \/ sent' = sent
  BY DEF PublishOutcome, Publish, Return, tables
<1>4. o \in Subject
  BY DEF OutcomeSubject, Subject
<1>5. task' \in [Worker -> Task] /\ TaskOK' /\ Moves(w, Idle)
  BY <1>3, IdleSound, MoveTask
<1>6. /\ sent' \in [Ride -> [Subject -> Nat]]
      /\ \A q \in Ride, u \in Subject :
           /\ q # r \/ u # o => sent'[q][u] = sent[q][u]
           /\ sent'[q][u] <= sent[q][u] + 1
  <2>. sent \in [Ride -> [Subject -> Nat]]
    BY DEF TypeOK
  <2>1. CASE sent' = sent
    BY <2>1
  <2>2. CASE sent' = [sent EXCEPT ![r][o] = @ + 1]
    BY <1>1, <1>4, <2>2, SentUpdate
  <2>. QED
    BY <1>3, <2>1, <2>2
<1>7. TypeOK' /\ HistoryIsPath'
  BY <1>3, <1>5, <1>6 DEF TypeOK, HistoryIsPath, Exists
<1>8. OneOutcome'
  <2>1. /\ "ride.completed" \in Subject /\ "ride.cancelled" \in Subject
        /\ \A q \in Ride : sent[q] \in [Subject -> Nat] /\ sent'[q] \in [Subject -> Nat]
    BY <1>6 DEF TypeOK, Subject
  <2>2. \/ status[r] = "completed" /\ o = "ride.completed"
        \/ status[r] = "cancelled" /\ o = "ride.cancelled"
    BY <1>1, <1>2, TerminalStatuses DEF OutcomeSubject
  <2>3. /\ sent'[r]["ride.completed"] + sent'[r]["ride.cancelled"] <= 1
        /\ sent'[r]["ride.completed"] > 0 => status[r] = "completed"
        /\ sent'[r]["ride.cancelled"] > 0 => status[r] = "cancelled"
    BY <1>1, <1>2, <1>6, <2>1, <2>2
  <2>. QED
    BY <1>3, <1>6, <2>1, <2>3 DEF OneOutcome
<1>9. ASSUME NEW v \in Worker, Committed(v)'
      PROVE  /\ Committed(v) /\ task'[v] = task[v] /\ task[v].ride \in Ride
             /\ Due(v) => task[v].ride # r
  <2>1. v # w /\ Committed(v) /\ task'[v] = task[v] /\ task[v].ride \in Ride
    BY <1>5, <1>9 DEF Moves, Committed, TaskOK, Idle
  <2>. QED
    BY <1>1, <2>1 DEF DueUnique
<1>10. CommittedOK' /\ DueOK' /\ DueUnique'
  BY <1>3, <1>9 DEF CommittedOK, DueOK, DueUnique, Due, Exists, TypeOK
<1>. QED
  BY <1>5, <1>7, <1>8, <1>10
-----------------------------------------------------------------------------
\* Every step keeps the invariant.
LEMMA NextIInv == IInv /\ [Next]_vars => IInv'
<1>. SUFFICES ASSUME IInv, [Next]_vars PROVE IInv'
  OBVIOUS
<1>t. TypeOK /\ TaskOK
  BY DEF IInv
<1>. \A w \in Worker : task[w] \in Task
  BY <1>t DEF TypeOK
<1>1. ASSUME NEW w \in Worker, NEW p \in Passenger, NEW b \in BOOLEAN,
             ListByUser(w, p, b)
      PROVE  IInv'
  <2>. DEFINE t == [Idle EXCEPT !.pc = "insert", !.who = p, !.scheduled = b]
  <2>1. Sound(t) /\ t.pc = "insert" /\ task' = [task EXCEPT ![w] = t]
    BY <1>1, InsertSound DEF ListByUser, Idle
  <2>2. ~Committed(w)'
    BY <2>1, <1>t, MoveTask DEF Moves, Committed
  <2>. QED
    BY <1>1, <1>t, <2>1, <2>2, QuietStep DEF ListByUser, TypeOK, tables, events
<1>2. ASSUME NEW w \in Worker, NEW r \in Ride, NEW to \in Statuses,
             UpdateStatusWithHistory(w, r, to)
      PROVE  IInv'
  BY <1>2, <1>t, CommitStep DEF UpdateStatusWithHistory, TypeOK
<1>3. ASSUME NEW w \in Worker, NEW r \in Ride, NEW d \in Driver, AssignDriver(w, r, d)
      PROVE  IInv'
  BY <1>3, CommitStep, AssignIsTransition DEF AssignDriver
<1>4. ASSUME NEW w \in Worker, CreateWithHistory(w)
      PROVE  IInv'
  BY <1>4, CreateStep
<1>5. ASSUME NEW w \in Worker, SavePriceEstimation(w)
      PROVE  IInv'
  <2>. DEFINE t == [task[w] EXCEPT !.pc = "pubRequested"]
  <2>1. /\ task[w].ride \in Ride
        /\ Sound(t) /\ t.pc = "pubRequested" /\ task' = [task EXCEPT ![w] = t]
    BY <1>5, <1>t, PublishSound DEF SavePriceEstimation, Goto, At, TaskOK, Task
  <2>2. ~Committed(w)'
    BY <2>1, <1>t, MoveTask DEF Moves, Committed
  <2>. QED
    BY <1>5, <1>t, <2>1, <2>2, QuietStep DEF SavePriceEstimation, TypeOK, events
<1>6. ASSUME NEW w \in Worker, PublishRequested(w)
      PROVE  IInv'
  <2>1. task[w].ride \in Ride
    BY <1>6, <1>t DEF PublishRequested, At, TaskOK
  <2>2. PICK t : Sound(t) /\ t.pc \in {"idle", "pubScheduled"}
                 /\ task' = [task EXCEPT ![w] = t]
    <3>1. CASE Return(w)
      BY <3>1, IdleSound DEF Return, Idle
    <3>2. CASE Goto(w, "pubScheduled")
      <4>. DEFINE t == [task[w] EXCEPT !.pc = "pubScheduled"]
      <4>1. task' = [task EXCEPT ![w] = t] /\ t.pc = "pubScheduled"
        BY <3>2 DEF Goto, Task
      <4>. QED
        BY <2>1, <4>1, PublishSound
    <3>. QED
      BY <1>6, <3>1, <3>2 DEF PublishRequested
  <2>3. ~Committed(w)'
    BY <2>2, <1>t, MoveTask DEF Moves, Committed
  <2>4. /\ UNCHANGED <<status, passenger, driver, history, created, estimated>>
        /\ Publish(task[w].ride, "ride.requested") /\ "ride.requested" \in Subject
    BY <1>6 DEF PublishRequested, tables, Subject
  <2>. QED
    BY <1>t, <2>1, <2>2, <2>3, <2>4, PublishQuiet, QuietStep DEF TypeOK
<1>7. ASSUME NEW w \in Worker, PublishScheduled(w)
      PROVE  IInv'
  <2>1. /\ task[w].ride \in Ride
        /\ task' = [task EXCEPT ![w] = Idle]
        /\ UNCHANGED <<status, passenger, driver, history, created, estimated>>
        /\ Publish(task[w].ride, "ride.scheduled") /\ "ride.scheduled" \in Subject
    BY <1>7, <1>t DEF PublishScheduled, Return, At, TaskOK, tables, Subject
  <2>2. ~Committed(w)'
    BY <2>1, <1>t, IdleSound, MoveTask DEF Moves, Committed, Idle
  <2>. QED
    BY <1>t, <2>1, <2>2, IdleSound, PublishQuiet, QuietStep DEF TypeOK
<1>8. ASSUME NEW w \in Worker, GetByID(w)
      PROVE  IInv'
  <2>. DEFINE r == task[w].ride
              t == [task[w] EXCEPT !.pc = "pubChanged", !.seen = status[r]]
  <2>1. r \in Ride /\ task[w].pc = "reread"
    BY <1>8, <1>t DEF GetByID, At, TaskOK
  <2>2. status[r] \in Statuses
    BY <2>1 DEF IInv, CommittedOK, Committed, Exists, TypeOK
  <2>3. Sound(t) /\ task' = [task EXCEPT ![w] = t]
    BY <1>8, <2>1, <2>2, ChangedSound DEF GetByID
  <2>4. t.ride = task[w].ride /\ t.to = task[w].to /\ t.pc = "pubChanged"
    BY DEF Task
  <2>5. Committed(w)
    BY <2>1 DEF Committed
  <2>. QED
    BY <1>8, <1>t, <2>3, <2>4, <2>5, QuietStep DEF GetByID, tables, events, TypeOK
<1>9. ASSUME NEW w \in Worker, PublishStatusChanged(w)
      PROVE  IInv'
  <2>. DEFINE u == [task[w] EXCEPT !.pc = "pubOutcome"]
  <2>1. task[w].ride \in Ride /\ task[w].seen \in Statuses /\ task[w].pc = "pubChanged"
    BY <1>9, <1>t DEF PublishStatusChanged, At, TaskOK, Task
  <2>2. told' \in [Ride -> SUBSET Statuses] /\ UNCHANGED sent
    BY <1>9, <1>t, <2>1, PublishChangeQuiet DEF PublishStatusChanged
  <2>3. u.ride = task[w].ride /\ u.to = task[w].to /\ u.pc = "pubOutcome"
    BY DEF Task
  <2>4. CASE task[w].to \in Terminal
    <3>1. Sound(u) /\ task' = [task EXCEPT ![w] = u]
      BY <1>9, <2>1, <2>4, OutcomeSound DEF PublishStatusChanged, Goto
    <3>2. Committed(w)
      BY <2>1 DEF Committed
    <3>. QED
      BY <1>9, <1>t, <2>2, <2>3, <3>1, <3>2, QuietStep
         DEF PublishStatusChanged, tables, TypeOK
  <2>5. CASE task[w].to \notin Terminal
    <3>1. task' = [task EXCEPT ![w] = Idle]
      BY <1>9, <2>5 DEF PublishStatusChanged, Return
    <3>2. ~Committed(w)'
      BY <3>1, <1>t, IdleSound, MoveTask DEF Moves, Committed, Idle
    <3>. QED
      BY <1>9, <1>t, <2>2, <3>1, <3>2, IdleSound, QuietStep
         DEF PublishStatusChanged, tables, TypeOK
  <2>. QED
    BY <2>4, <2>5
<1>10. ASSUME NEW w \in Worker, PublishOutcome(w)
       PROVE  IInv'
  BY <1>10, OutcomeStep
<1>11. ASSUME NEW w \in Worker, QueryFails(w)
       PROVE  IInv'
  <2>1. task' = [task EXCEPT ![w] = Idle]
    BY <1>11 DEF QueryFails, Return
  <2>2. ~Committed(w)'
    BY <2>1, <1>t, IdleSound, MoveTask DEF Moves, Committed, Idle
  <2>. QED
    BY <1>11, <1>t, <2>1, <2>2, IdleSound, QuietStep DEF QueryFails, tables, events, TypeOK
<1>12. ASSUME NEW r \in Ride, Reject(r) \/ Rate(r)
       PROVE  IInv'
  <2>1. UNCHANGED <<status, passenger, driver, history, created, estimated, task>>
    BY <1>12 DEF Reject, Rate, tables
  <2>2. /\ told' \in [Ride -> SUBSET Statuses]
        /\ sent' \in [Ride -> [Subject -> Nat]]
        /\ \A q \in Ride : /\ sent'[q]["ride.completed"] = sent[q]["ride.completed"]
                           /\ sent'[q]["ride.cancelled"] = sent[q]["ride.cancelled"]
    BY <1>12, <1>t, PublishQuiet DEF Reject, Rate, Subject
  <2>3. TypeOK' /\ TaskOK' /\ HistoryIsPath' /\ OneOutcome'
    BY <2>1, <2>2 DEF IInv, TypeOK, TaskOK, HistoryIsPath, OneOutcome, Exists
  <2>4. CommittedOK' /\ DueOK' /\ DueUnique'
    BY <2>1, <2>2
       DEF IInv, TaskOK, CommittedOK, DueOK, DueUnique, Due, Committed, Exists
  <2>. QED
    BY <2>3, <2>4 DEF IInv
<1>13. CASE Crash
  <2>1. /\ task' = [w \in Worker |-> Idle]
        /\ UNCHANGED <<status, passenger, driver, history, created, estimated, sent, told>>
    BY <1>13 DEF Crash, tables, events
  <2>2. TypeOK' /\ TaskOK'
    BY <1>t, <2>1, IdleSound DEF TypeOK, TaskOK, Sound
  <2>3. HistoryIsPath' /\ OneOutcome'
    BY <2>1 DEF IInv, HistoryIsPath, OneOutcome, Exists
  <2>4. \A w \in Worker : ~Committed(w)'
    BY <2>1 DEF Committed, Idle
  <2>. QED
    BY <2>2, <2>3, <2>4 DEF IInv, CommittedOK, DueOK, DueUnique, Due
<1>14. CASE UNCHANGED vars
  BY <1>14 DEF vars, tables, events, IInv, TypeOK, TaskOK, HistoryIsPath, OneOutcome,
               CommittedOK, DueOK, DueUnique, Due, Committed, Exists
<1>. QED
  BY <1>1, <1>2, <1>3, <1>4, <1>5, <1>6, <1>7, <1>8, <1>9, <1>10, <1>11, <1>12,
     <1>13, <1>14 DEF Next, Begin, Continue
-----------------------------------------------------------------------------
\* The invariant holds in every behaviour.
LEMMA SpecIInv == Spec => []IInv
BY InitIInv, NextIInv, PTL DEF Spec

\* No handler ever writes a malformed row, task or event.
THEOREM TypeCorrect == Spec => []TypeOK
BY SpecIInv, PTL DEF IInv

\* The audit trail of every ride is the path to its current status.
THEOREM HistoryCorrect == Spec => []HistoryIsPath
BY SpecIInv, PTL DEF IInv

\* Of ride.completed and ride.cancelled at most one event is published for a
\* ride, and it tells how the ride ended.
THEOREM OutcomeCorrect == Spec => []OneOutcome
BY SpecIInv, PTL DEF IInv
-----------------------------------------------------------------------------
\* The steps sorted by what they do to the tables and to the outcomes.

\* A new ride r.
Creates(r) ==
  /\ status[r] = "absent" /\ status' = [status EXCEPT ![r] = "requested"]
  /\ history' = [history EXCEPT ![r] = <<"requested">>]
  /\ UNCHANGED <<driver, sent>>

\* A transition of ride r.
Advances(r) ==
  /\ \E to \in Statuses, d \in Driver \cup {None} :
       /\ CanTransition(status[r], to)
       /\ status' = [status EXCEPT ![r] = to]
       /\ driver' = [driver EXCEPT ![r] = d]
       /\ history' = [history EXCEPT ![r] = Append(@, to)]
       /\ d # driver[r] => status[r] = "requested"
  /\ UNCHANGED sent

\* The announcement of how ride r ended.
Announces(r) ==
  /\ status[r] \in Terminal
  /\ sent[r]["ride.completed"] = 0 /\ sent[r]["ride.cancelled"] = 0
  /\ sent' = [sent EXCEPT ![r][OutcomeSubject(status[r])] = @ + 1]
  /\ UNCHANGED <<status, driver, history>>

\* Neither.
Quiet ==
  /\ UNCHANGED <<status, driver, history>>
  /\ \A r \in Ride : /\ sent'[r]["ride.completed"] = sent[r]["ride.completed"]
                     /\ sent'[r]["ride.cancelled"] = sent[r]["ride.cancelled"]

\* There is no other kind of step.
LEMMA StepKinds ==
  ASSUME IInv, [Next]_vars
  PROVE  (\E r \in Ride : Creates(r) \/ Advances(r) \/ Announces(r)) \/ Quiet
<1>t. TypeOK /\ TaskOK
  BY DEF IInv
<1>1. ASSUME NEW w \in Worker, CreateWithHistory(w)
      PROVE  \E r \in Ride : Creates(r)
  BY <1>1 DEF CreateWithHistory, Creates, Exists, events
<1>2. ASSUME NEW w \in Worker, NEW r \in Ride, NEW to \in Statuses,
             UpdateStatusWithHistory(w, r, to)
      PROVE  Advances(r)
  BY <1>2, <1>t DEF UpdateStatusWithHistory, Commit, Advances, TypeOK, events
<1>3. ASSUME NEW w \in Worker, NEW r \in Ride, NEW d \in Driver, AssignDriver(w, r, d)
      PROVE  Advances(r)
  BY <1>3, AssignIsTransition, TransitionFacts DEF AssignDriver, Commit, Advances, events
<1>4. ASSUME NEW w \in Worker, PublishOutcome(w)
      PROVE  (\E r \in Ride : Announces(r)) \/ Quiet
  <2>1. /\ task[w].ride \in Ride /\ task[w].to \in Terminal /\ Due(w)
    BY <1>4, <1>t DEF PublishOutcome, At, TaskOK, Due, Committed
  <2>2. /\ status[task[w].ride] = task[w].to
        /\ sent[task[w].ride]["ride.completed"] = 0
        /\ sent[task[w].ride]["ride.cancelled"] = 0
    BY <2>1 DEF IInv, DueOK
  <2>. QED
    BY <1>4, <2>1, <2>2 DEF PublishOutcome, Publish, Announces, Quiet, tables
<1>5. ASSUME NEW w \in Worker, PublishRequested(w) \/ PublishScheduled(w)
      PROVE  Quiet
  <2>1. task[w].ride \in Ride
    BY <1>5, <1>t DEF PublishRequested, PublishScheduled, At, TaskOK
  <2>. QED
    BY <1>5, <1>t, <2>1, PublishQuiet
       DEF PublishRequested, PublishScheduled, Quiet, Subject, tables
<1>6. ASSUME NEW r \in Ride, Reject(r) \/ Rate(r)
      PROVE  Quiet
  BY <1>6, <1>t, PublishQuiet DEF Reject, Rate, Quiet, Subject, tables
<1>7. ASSUME NEW w \in Worker,
             \/ \E p \in Passenger, b \in BOOLEAN : ListByUser(w, p, b)
             \/ SavePriceEstimation(w) \/ GetByID(w) \/ PublishStatusChanged(w)
             \/ QueryFails(w)
      PROVE  Quiet
  BY <1>7 DEF ListByUser, SavePriceEstimation, GetByID, PublishStatusChanged,
              PublishChange, QueryFails, Quiet, tables, events
<1>8. CASE Crash \/ UNCHANGED vars
  BY <1>8 DEF Crash, Quiet, vars, tables, events
<1>. QED
  BY <1>1, <1>2, <1>3, <1>4, <1>5, <1>6, <1>7, <1>8 DEF Next, Begin, Continue
-----------------------------------------------------------------------------
\* Nothing writes to a ride that has ended.
THEOREM EndedRidesStay == Spec => FinishedRideFrozen
<1>1. ASSUME IInv, [Next]_vars, NEW r \in Ride, status[r] \in Terminal
      PROVE  status'[r] = status[r] /\ driver'[r] = driver[r] /\ history'[r] = history[r]
  <2>1. status[r] # "absent" /\ \A to : ~CanTransition(status[r], to)
    BY <1>1, TransitionFacts, TerminalStatuses
  <2>2. ASSUME NEW q \in Ride, Creates(q) \/ Advances(q)
        PROVE  /\ q # r
               /\ \E s, d, h : /\ status' = [status EXCEPT ![q] = s]
                               /\ driver' = [driver EXCEPT ![q] = d]
                               /\ history' = [history EXCEPT ![q] = h]
    BY <1>1, <2>1, <2>2 DEF Creates, Advances, IInv, TypeOK
  <2>3. CASE \E q \in Ride : Creates(q) \/ Advances(q)
    BY <1>1, <2>2, <2>3 DEF IInv, TypeOK
  <2>4. CASE (\E q \in Ride : Announces(q)) \/ Quiet
    BY <2>4 DEF Announces, Quiet
  <2>. QED
    BY <1>1, <2>3, <2>4, StepKinds
<1>2. IInv /\ [Next]_vars =>
        [\A r \in Ride : status[r] \in Terminal =>
           /\ status'[r] = status[r]
           /\ driver'[r] = driver[r]
           /\ history'[r] = history[r]]_vars
  BY <1>1
<1>. QED
  BY <1>2, SpecIInv, PTL DEF Spec, FinishedRideFrozen

\* A ride that has its driver is past the one status in which it is assigned.
DriverOK == \A r \in Ride : driver[r] # None => status[r] \notin {"absent", "requested"}

LEMMA SpecDriverOK == Spec => []DriverOK
<1>1. Init => DriverOK
  BY DEF Init, DriverOK
<1>2. ASSUME IInv, DriverOK, [Next]_vars
      PROVE  DriverOK'
  <2>1. ASSUME NEW q \in Ride, Creates(q)
        PROVE  DriverOK'
    BY <1>2, <2>1 DEF DriverOK, Creates, IInv, TypeOK
  <2>2. ASSUME NEW q \in Ride, Advances(q)
        PROVE  DriverOK'
    BY <1>2, <2>2, TransitionFacts DEF DriverOK, Advances, IInv, TypeOK, Statuses
  <2>3. CASE (\E q \in Ride : Announces(q)) \/ Quiet
    BY <1>2, <2>3 DEF DriverOK, Announces, Quiet
  <2>. QED
    BY <1>2, <2>1, <2>2, <2>3, StepKinds
<1>. QED
  BY <1>1, <1>2, SpecIInv, PTL DEF Spec

\* A ride keeps the driver it was given.
THEOREM DriverStays == Spec => DriverNeverReplaced
<1>1. ASSUME IInv, DriverOK, [Next]_vars, NEW r \in Ride, driver[r] # None
      PROVE  driver'[r] = driver[r]
  <2>1. CASE \E q \in Ride : Advances(q)
    BY <1>1, <2>1 DEF Advances, DriverOK, IInv, TypeOK
  <2>2. CASE (\E q \in Ride : Creates(q) \/ Announces(q)) \/ Quiet
    BY <2>2 DEF Creates, Announces, Quiet
  <2>. QED
    BY <1>1, <2>1, <2>2, StepKinds
<1>2. IInv /\ DriverOK /\ [Next]_vars =>
        [\A r \in Ride : driver[r] # None => driver'[r] = driver[r]]_vars
  BY <1>1
<1>. QED
  BY <1>2, SpecIInv, SpecDriverOK, PTL DEF Spec, DriverNeverReplaced
-----------------------------------------------------------------------------
\* The status that is published was read after the commit.

\* Rows are only added to a history.
Extends(g, h) == Len(h) <= Len(g) /\ \A i \in 1 .. Len(h) : g[i] = h[i]

LEMMA HistoryGrows ==
  ASSUME IInv, [Next]_vars, NEW r \in Ride, Exists(r)
  PROVE  Extends(history'[r], history[r])
<1>. history \in [Ride -> Seq(Statuses)]
  BY DEF IInv, TypeOK
<1>1. ASSUME NEW q \in Ride, Creates(q)
      PROVE  history'[r] = history[r]
  BY <1>1 DEF Creates, Exists
<1>2. ASSUME NEW q \in Ride, Advances(q)
      PROVE  history'[r] = history[r] \/ \E to \in Statuses : history'[r] = Append(history[r], to)
  BY <1>2 DEF Advances
<1>3. ASSUME NEW q \in Ride, Announces(q) \/ Quiet
      PROVE  history'[r] = history[r]
  BY <1>3 DEF Announces, Quiet
<1>4. CASE history'[r] = history[r]
  BY <1>4 DEF Extends
<1>5. ASSUME NEW to \in Statuses, history'[r] = Append(history[r], to)
      PROVE  Extends(history'[r], history[r])
  BY <1>5 DEF Extends
<1>. QED
  BY <1>1, <1>2, <1>3, <1>4, <1>5, StepKinds

\* What a step does to one call, as far as the re-read is concerned: the call
\* commits, reads again, stays where it is, or is elsewhere.
Commits(w) ==
  \E r \in Ride, to \in Statuses :
    /\ task'[w].pc = "reread" /\ task'[w].ride = r /\ task'[w].to = to
    /\ history'[r] = Append(history[r], to)

ReadsAgain(w) ==
  /\ task[w].pc = "reread" /\ task'[w].pc = "pubChanged"
  /\ task'[w].ride = task[w].ride /\ task'[w].to = task[w].to
  /\ task'[w].seen = status[task[w].ride]
  /\ UNCHANGED history

LEMMA CallSteps ==
  ASSUME IInv, [Next]_vars, NEW w \in Worker
  PROVE  \/ Commits(w) \/ ReadsAgain(w) \/ task'[w] = task[w]
         \/ task'[w].pc \notin {"reread", "pubChanged"}
<1>. DEFINE Goal == \/ Commits(w) \/ ReadsAgain(w) \/ task'[w] = task[w]
                    \/ task'[w].pc \notin {"reread", "pubChanged"}
<1>t. task \in [Worker -> Task] /\ history \in [Ride -> Seq(Statuses)]
  BY DEF IInv, TypeOK
<1>i. Idle.pc = "idle"
  BY DEF Idle
<1>1. ASSUME NEW v \in Worker, NEW r \in Ride, NEW to \in Statuses,
             NEW d, Commit(v, r, to, d)
      PROVE  Goal
  <2>. DEFINE t == [Idle EXCEPT !.pc = "reread", !.ride = r, !.to = to]
  <2>1. t.pc = "reread" /\ t.ride = r /\ t.to = to
    BY DEF Idle
  <2>2. task' = [task EXCEPT ![v] = t] /\ history'[r] = Append(history[r], to)
    BY <1>1, <1>t DEF Commit
  <2>3. CASE v = w
    <3>1. task'[w] = t
      BY <1>t, <2>2, <2>3
    <3>. QED
      BY <2>1, <2>2, <3>1 DEF Commits
  <2>4. CASE v # w
    BY <1>t, <2>2, <2>4
  <2>. QED
    BY <2>3, <2>4
<1>2. ASSUME NEW v \in Worker, GetByID(v)
      PROVE  Goal
  <2>1. CASE v = w
    BY <1>2, <1>t, <2>1 DEF GetByID, At, ReadsAgain, tables, Task
  <2>2. CASE v # w
    BY <1>2, <1>t, <2>2 DEF GetByID
  <2>. QED
    BY <2>1, <2>2
<1>3. ASSUME NEW v \in Worker, NEW t \in Task,
             task' = [task EXCEPT ![v] = t], t.pc \notin {"reread", "pubChanged"}
      PROVE  Goal
  BY <1>3, <1>t
<1>4. ASSUME NEW v \in Worker, NEW p \in Passenger, NEW b \in BOOLEAN, ListByUser(v, p, b)
      PROVE  Goal
  <2>1. [Idle EXCEPT !.pc = "insert", !.who = p, !.scheduled = b].pc = "insert"
    BY DEF Idle
  <2>. QED
    BY <1>4, <1>t, <2>1 DEF ListByUser
<1>5. ASSUME NEW v \in Worker, NEW stage \in {"estimate", "pubRequested", "pubScheduled", "pubOutcome"},
             \/ Goto(v, stage)
             \/ \E r \in Ride : task' = [task EXCEPT ![v].pc = stage, ![v].ride = r]
      PROVE  Goal
  BY <1>5, <1>t DEF Goto, Task
<1>6. ASSUME NEW v \in Worker, Return(v)
      PROVE  Goal
  BY <1>6, <1>i, <1>t DEF Return
<1>7. ASSUME NEW v \in Worker, Continue(v), ~GetByID(v)
      PROVE  Goal
  BY <1>5, <1>6, <1>7
     DEF Continue, CreateWithHistory, SavePriceEstimation, PublishRequested,
         PublishScheduled, PublishStatusChanged, PublishOutcome
<1>8. ASSUME NEW v \in Worker, Begin(v)
      PROVE  Goal
  <2>1. "driver_assigned" \in Statuses
    BY DEF Statuses, allowedTransitions
  <2>. QED
    BY <1>1, <1>4, <1>8, <2>1 DEF Begin, UpdateStatusWithHistory, AssignDriver
<1>9. CASE Crash
  BY <1>9, <1>i DEF Crash
<1>10. CASE UNCHANGED vars \/ \E r \in Ride : Reject(r) \/ Rate(r)
  BY <1>10 DEF vars, Reject, Rate
<1>. QED
  BY <1>2, <1>6, <1>7, <1>8, <1>9, <1>10 DEF Next, QueryFails

\* A call that is about to read again has its own status in the history.
OwnRowOK ==
  \A w \in Worker : task[w].pc = "reread" =>
    LET h == history[task[w].ride] IN \E i \in 1 .. Len(h) : h[i] = task[w].to

\* The status put into ride.status_changed is never older than the one the
\* handler committed.
THEOREM ReReadCorrect == Spec => []ReReadNotBehind
<1>1. Init => OwnRowOK /\ ReReadNotBehind
  BY DEF Init, OwnRowOK, ReReadNotBehind, At, Idle
<1>2. ASSUME IInv, OwnRowOK, ReReadNotBehind, [Next]_vars
      PROVE  (OwnRowOK /\ ReReadNotBehind)'
  <2>. DEFINE Own(h, t) == \E i \in 1 .. Len(h) : h[i] = t.to
              After(h, t) == \E i, j \in 1 .. Len(h) :
                               i <= j /\ h[i] = t.to /\ h[j] = t.seen
  <2>t. /\ task \in [Worker -> Task]
        /\ history \in [Ride -> Seq(Statuses)]
        /\ status \in [Ride -> Statuses \cup {"absent"}]
    BY <1>2 DEF IInv, TypeOK
  <2>1. ASSUME NEW w \in Worker
        PROVE  /\ task'[w].pc = "reread" => Own(history'[task'[w].ride], task'[w])
               /\ task'[w].pc = "pubChanged" => After(history'[task'[w].ride], task'[w])
    <3>1. CASE Commits(w)
      <4>1. PICK r \in Ride, to \in Statuses :
              /\ task'[w].pc = "reread" /\ task'[w].ride = r /\ task'[w].to = to
              /\ history'[r] = Append(history[r], to)
        BY <3>1 DEF Commits
      <4>2. history[r] \in Seq(Statuses)
        BY <2>t
      <4>3. LET n == Len(history[r]) + 1
            IN  n \in 1 .. Len(history'[r]) /\ history'[r][n] = to
        BY <4>1, <4>2
      <4>. QED
        BY <4>1, <4>3
    <3>2. CASE ReadsAgain(w)
      <4>. DEFINE h == history[task[w].ride]
      <4>1. task[w].ride \in Ride /\ Exists(task[w].ride) /\ task[w].pc = "reread"
        BY <1>2, <3>2 DEF ReadsAgain, IInv, TaskOK, CommittedOK, Committed
      <4>2. h \in Seq(Statuses) /\ Len(h) > 0 /\ h[Len(h)] = status[task[w].ride]
        BY <1>2, <2>t, <4>1 DEF IInv, HistoryIsPath, IsPath
      <4>3. PICK i \in 1 .. Len(h) : h[i] = task[w].to
        BY <1>2, <4>1 DEF OwnRowOK
      <4>4. Len(h) \in 1 .. Len(h) /\ i <= Len(h)
        BY <4>2, <4>3
      <4>5. After(h, task'[w])
        BY <3>2, <4>2, <4>3, <4>4 DEF ReadsAgain
      <4>. QED
        BY <3>2, <4>5 DEF ReadsAgain
    <3>3. CASE task'[w] = task[w] /\ task[w].pc \in {"reread", "pubChanged"}
      <4>. DEFINE h == history[task[w].ride]
                  g == history'[task[w].ride]
      <4>1. task[w].ride \in Ride /\ Exists(task[w].ride)
        BY <1>2, <3>3 DEF IInv, TaskOK, CommittedOK, Committed
      <4>2. Extends(g, h)
        BY <1>2, <4>1, HistoryGrows
      <4>3. h \in Seq(Statuses) /\ g \in Seq(Statuses)
        BY <1>2, <2>t, <4>1, NextIInv DEF IInv, TypeOK
      <4>4. \A i \in 1 .. Len(h) : i \in 1 .. Len(g) /\ g[i] = h[i]
        BY <4>2, <4>3 DEF Extends
      <4>5. /\ task[w].pc = "reread" => Own(h, task[w])
            /\ task[w].pc = "pubChanged" => After(h, task[w])
        BY <1>2 DEF OwnRowOK, ReReadNotBehind, At
      <4>6. /\ task[w].pc = "reread" => Own(g, task[w])
            /\ task[w].pc = "pubChanged" => After(g, task[w])
        BY <4>4, <4>5
      <4>. QED
        BY <3>3, <4>6
    <3>. QED
      BY <1>2, <3>1, <3>2, <3>3, CallSteps
  <2>. QED
    BY <2>1 DEF OwnRowOK, ReReadNotBehind, At
<1>. QED
  BY <1>1, <1>2, SpecIInv, PTL DEF Spec
-----------------------------------------------------------------------------
\* The service, with its handlers, races and faults, implements the abstract
\* lifecycle: every step is a creation, a transition, an announcement or
\* nothing at all.
THEOREM LifecycleImplemented == Spec => ImplementsLifecycle
<1>1. Init => Lifecycle!Init
  BY TerminalStatuses DEF Init, announced, Lifecycle!Init, Lifecycle!Outcome, OutcomeSubject, Subject
<1>2. ASSUME IInv, [Next]_vars
      PROVE  [Lifecycle!Next]_(Lifecycle!vars)
  <2>1. ASSUME NEW r \in Ride, Creates(r)
        PROVE  Lifecycle!Create(r)
    BY <2>1 DEF Creates, Lifecycle!Create, announced
  <2>2. ASSUME NEW r \in Ride, Advances(r)
        PROVE  Lifecycle!Advance(r)
    <3>1. \A from, to : CanTransition(from, to) <=> Lifecycle!CanTransition(from, to)
      BY DEF CanTransition, Lifecycle!CanTransition,
             allowedTransitions, Lifecycle!allowedTransitions
    <3>2. Statuses = Lifecycle!Statuses
      BY DEF Statuses, Lifecycle!Statuses
    <3>. QED
      BY <2>2, <3>1, <3>2 DEF Advances, Lifecycle!Advance, announced
  <2>3. ASSUME NEW r \in Ride, Announces(r)
        PROVE  Lifecycle!Announce(r)
    <3>. DEFINE o == status[r]
    <3>1. /\ o \in {"completed", "cancelled"} /\ UNCHANGED status
          /\ sent[r]["ride.completed"] = 0 /\ sent[r]["ride.cancelled"] = 0
          /\ sent' = [sent EXCEPT ![r][OutcomeSubject(o)] = @ + 1]
      BY <2>3, TerminalStatuses DEF Announces
    <3>2. /\ sent \in [Ride -> [Subject -> Nat]]
          /\ "ride.completed" \in Subject /\ "ride.cancelled" \in Subject
      BY <1>2 DEF IInv, TypeOK, Subject
    <3>3. \A q \in Ride, u \in Subject :
            sent'[q][u] = IF q = r /\ u = OutcomeSubject(o)
                          THEN sent[q][u] + 1 ELSE sent[q][u]
      BY <3>1, <3>2, SentUpdate DEF OutcomeSubject
    <3>4. /\ announced[r]["completed"] = 0 /\ announced[r]["cancelled"] = 0
          /\ announced \in [Ride -> [{"completed", "cancelled"} -> Nat]]
      BY <3>1, <3>2, TerminalStatuses DEF announced, OutcomeSubject
    <3>5. ASSUME NEW q \in Ride, NEW u \in {"completed", "cancelled"}
          PROVE  announced'[q][u] = IF q = r /\ u = o THEN 1 ELSE announced[q][u]
      BY <3>1, <3>2, <3>3, TerminalStatuses DEF announced, OutcomeSubject
    <3>6. announced' = [q \in Ride |-> [u \in {"completed", "cancelled"} |->
                                         announced'[q][u]]]
      BY TerminalStatuses DEF announced
    <3>7. announced' = [announced EXCEPT ![r][o] = 1]
      BY <3>1, <3>4, <3>5, <3>6
    <3>. QED
      BY <3>1, <3>4, <3>7 DEF Lifecycle!Announce, Lifecycle!Outcome
  <2>4. CASE Quiet
    <3>1. announced' = announced
      BY <2>4 DEF Quiet, announced, OutcomeSubject
    <3>. QED
      BY <2>4, <3>1 DEF Quiet, Lifecycle!vars
  <2>. QED
    BY <1>2, <2>1, <2>2, <2>3, <2>4, StepKinds DEF Lifecycle!Next
<1>. QED
  BY <1>1, <1>2, SpecIInv, PTL DEF Spec, ImplementsLifecycle, Lifecycle!Spec
-----------------------------------------------------------------------------
\* The request is announced once.

\* The call has stored its ride and has not yet offered it to the drivers.
Requesting(w) == task[w].pc \in {"estimate", "pubRequested"}

\* A ride is offered to the drivers once at most, and only after it was stored.
RequestedOnce ==
  \A r \in Ride : /\ sent[r]["ride.requested"] <= 1
                  /\ sent[r]["ride.requested"] > 0 => Exists(r)

RequestDue ==
  \A w \in Worker : Requesting(w) =>
    Exists(task[w].ride) /\ sent[task[w].ride]["ride.requested"] = 0

RequestUnique ==
  \A v, w \in Worker :
    Requesting(v) /\ Requesting(w) /\ task[v].ride = task[w].ride => v = w

RequestOK == RequestedOnce /\ RequestDue /\ RequestUnique

\* A step of w that offers no ride and takes no other call on the way to doing so.
LEMMA RequestKept ==
  ASSUME TypeOK, TaskOK, RequestOK,
         \A r \in Ride : /\ Exists(r) => Exists(r)'
                         /\ sent'[r]["ride.requested"] = sent[r]["ride.requested"],
         \A v \in Worker : Requesting(v)' =>
           Requesting(v) /\ task'[v].ride = task[v].ride
  PROVE  RequestOK'
<1>1. RequestedOnce'
  BY DEF RequestOK, RequestedOnce
<1>2. \A v \in Worker : Requesting(v) => task[v].ride \in Ride
  BY DEF Requesting, TaskOK
<1>3. RequestDue' /\ RequestUnique'
  BY <1>2 DEF RequestOK, RequestDue, RequestUnique
<1>. QED
  BY <1>1, <1>3 DEF RequestOK

\* No step offers a ride that was offered before.
LEMMA RequestStep ==
  ASSUME IInv, RequestOK, [Next]_vars
  PROVE  /\ RequestOK'
         /\ \A r \in Ride :
              LET n == sent[r]["ride.requested"]
              IN  n' = n \/ (n = 0 /\ n' = 1)
<1>. DEFINE Offered(r) == sent[r]["ride.requested"]
            Goal == RequestOK' /\ \A r \in Ride :
                      Offered(r)' = Offered(r) \/ (Offered(r) = 0 /\ Offered(r)' = 1)
<1>t. /\ TypeOK /\ TaskOK
      /\ task \in [Worker -> Task]
      /\ sent \in [Ride -> [Subject -> Nat]]
      /\ status \in [Ride -> Statuses \cup {"absent"}]
  BY DEF IInv, TypeOK
<1>i. Idle.pc = "idle" /\ "absent" \notin Statuses /\ "ride.requested" \in Subject
  BY DEF Idle, Statuses, Subject
<1>1. ASSUME NEW w \in Worker, CreateWithHistory(w)
      PROVE  Goal
  <2>1. PICK r \in Ride :
          /\ ~Exists(r)
          /\ status' = [status EXCEPT ![r] = "requested"]
          /\ \/ task' = [task EXCEPT ![w].pc = "estimate", ![w].ride = r]
             \/ task' = [task EXCEPT ![w] = Idle]
    BY <1>1 DEF CreateWithHistory, Return
  <2>2. sent' = sent
    BY <1>1 DEF CreateWithHistory, events
  <2>3. /\ Requesting(w)' => task'[w].ride = r
        /\ \A v \in Worker \ {w} : task'[v] = task[v]
    BY <1>t, <1>i, <2>1 DEF Requesting, Task
  <2>4. \A q \in Ride : Exists(q)' <=> Exists(q) \/ q = r
    BY <1>t, <2>1 DEF Exists
  <2>5. Offered(r) = 0
    BY <1>t, <1>i, <2>1 DEF RequestOK, RequestedOnce
  <2>6. \A v \in Worker : Requesting(v) => task[v].ride \in Ride /\ task[v].ride # r
    BY <1>t, <2>1 DEF RequestOK, RequestDue, TaskOK, Requesting
  <2>7. RequestedOnce'
    BY <2>2, <2>4 DEF RequestOK, RequestedOnce
  <2>8. \A v \in Worker \ {w} : Requesting(v)' => Requesting(v)
    BY <2>3 DEF Requesting
  <2>9. RequestDue'
    BY <2>2, <2>3, <2>4, <2>5, <2>6, <2>8 DEF RequestOK, RequestDue
  <2>10. RequestUnique'
    BY <2>3, <2>6, <2>8 DEF RequestOK, RequestUnique
  <2>. QED
    BY <2>2, <2>7, <2>9, <2>10 DEF RequestOK
<1>2. ASSUME NEW w \in Worker, PublishRequested(w)
      PROVE  Goal
  <2>0. PICK r \in Ride : r = task[w].ride
    BY <1>2, <1>t DEF PublishRequested, At, TaskOK
  <2>1. /\ Requesting(w) /\ Exists(r) /\ Offered(r) = 0
    BY <1>2, <2>0 DEF PublishRequested, At, Requesting, RequestOK, RequestDue
  <2>2. /\ status' = status
        /\ sent' = [sent EXCEPT ![r]["ride.requested"] = @ + 1] \/ sent' = sent
        /\ \/ task' = [task EXCEPT ![w].pc = "pubScheduled"]
           \/ task' = [task EXCEPT ![w] = Idle]
    BY <1>2, <2>0 DEF PublishRequested, Publish, Goto, Return, tables
  <2>3. ~Requesting(w)' /\ \A v \in Worker \ {w} : task'[v] = task[v]
    BY <1>t, <1>i, <2>2 DEF Requesting, Task
  <2>4. \A q \in Ride \ {r} : Offered(q)' = Offered(q)
    BY <1>t, <2>2
  <2>5. Offered(r)' \in {0, 1}
    BY <1>t, <1>i, <2>1, <2>2, SentUpdate
  <2>6. \A v \in Worker : Requesting(v)' =>
          v # w /\ Requesting(v) /\ task'[v] = task[v] /\ task[v].ride \in Ride \ {r}
    BY <1>t, <2>0, <2>1, <2>3 DEF Requesting, RequestOK, RequestUnique, TaskOK
  <2>7. \A q \in Ride : Exists(q)' <=> Exists(q)
    BY <2>2 DEF Exists
  <2>8. RequestedOnce'
    BY <2>1, <2>4, <2>5, <2>7 DEF RequestOK, RequestedOnce
  <2>9. RequestDue'
    BY <2>4, <2>6, <2>7 DEF RequestOK, RequestDue
  <2>10. RequestUnique'
    BY <2>6 DEF RequestOK, RequestUnique
  <2>. QED
    BY <2>1, <2>4, <2>5, <2>8, <2>9, <2>10 DEF RequestOK
<1>3. ASSUME \A r \in Ride : Exists(r) => Exists(r)',
             \A r \in Ride : Offered(r)' = Offered(r),
             \A v \in Worker : Requesting(v)' => Requesting(v) /\ task'[v].ride = task[v].ride
      PROVE  Goal
  BY <1>t, <1>3, RequestKept
<1>4. ASSUME NEW w \in Worker,
             \/ SavePriceEstimation(w) \/ GetByID(w) \/ PublishStatusChanged(w)
             \/ QueryFails(w) \/ \E p \in Passenger, b \in BOOLEAN : ListByUser(w, p, b)
      PROVE  Goal
  <2>1. sent' = sent /\ status' = status
    BY <1>4 DEF SavePriceEstimation, GetByID, PublishStatusChanged, PublishChange, QueryFails,
       ListByUser, tables, events
  <2>2. \A v \in Worker : Requesting(v)' => Requesting(v) /\ task'[v].ride = task[v].ride
    <3>1. CASE SavePriceEstimation(w)
      BY <1>t, <3>1 DEF SavePriceEstimation, Goto, At, Requesting, Task
    <3>2. CASE GetByID(w)
      BY <1>t, <3>2 DEF GetByID, Requesting, Task
    <3>3. CASE PublishStatusChanged(w)
      BY <1>t, <1>i, <3>3 DEF PublishStatusChanged, Goto, Return, Requesting, Task
    <3>4. CASE QueryFails(w)
      BY <1>t, <1>i, <3>4 DEF QueryFails, Return, Requesting, Task
    <3>5. CASE \E p \in Passenger, b \in BOOLEAN : ListByUser(w, p, b)
      BY <1>t, <3>5 DEF ListByUser, Requesting, Task, Idle
    <3>. QED
      BY <1>4, <3>1, <3>2, <3>3, <3>4, <3>5
  <2>. QED
    BY <1>3, <2>1, <2>2 DEF Exists
<1>5. ASSUME NEW w \in Worker, NEW r \in Ride, NEW to \in Statuses, NEW d, Commit(w, r, to, d)
      PROVE  Goal
  <2>1. /\ sent' = sent /\ status' = [status EXCEPT ![r] = to]
        /\ \A v \in Worker : Requesting(v)' => Requesting(v) /\ task'[v].ride = task[v].ride
    BY <1>t, <1>5 DEF Commit, events, Requesting, Idle
  <2>. QED
    BY <1>t, <1>i, <1>3, <1>5, <2>1 DEF Exists
<1>6. ASSUME NEW w \in Worker, PublishScheduled(w) \/ PublishOutcome(w)
      PROVE  Goal
  <2>1. PICK r \in Ride, s \in Subject \ {"ride.requested"} : Publish(r, s)
    BY <1>6, <1>t
    DEF PublishScheduled, PublishOutcome, OutcomeSubject, Subject, At, TaskOK
  <2>2. \A q \in Ride : Offered(q)' = Offered(q)
    BY <1>t, <1>i, <2>1 DEF Publish
  <2>3. status' = status /\ task' = [task EXCEPT ![w] = Idle]
    BY <1>6 DEF PublishScheduled, PublishOutcome, Return, tables
  <2>4. \A v \in Worker : Requesting(v)' => Requesting(v) /\ task'[v].ride = task[v].ride
    BY <1>t, <1>i, <2>3 DEF Requesting
  <2>. QED
    BY <1>3, <2>2, <2>3, <2>4 DEF Exists
<1>7. ASSUME NEW r \in Ride, Reject(r) \/ Rate(r)
      PROVE  Goal
  <2>1. PICK s \in Subject \ {"ride.requested"} : Publish(r, s)
    BY <1>7 DEF Reject, Rate, Subject
  <2>2. \A q \in Ride : Offered(q)' = Offered(q)
    BY <1>t, <1>i, <2>1 DEF Publish
  <2>3. status' = status /\ task' = task
    BY <1>7 DEF Reject, Rate, tables
  <2>. QED
    BY <1>3, <2>2, <2>3 DEF Exists, Requesting
<1>8. ASSUME Crash
      PROVE  Goal
  <2>1. UNCHANGED <<sent, status>> /\ \A v \in Worker : ~Requesting(v)'
    BY <1>8, <1>i DEF Crash, tables, events, Requesting
  <2>. QED
    BY <1>3, <2>1 DEF Exists
<1>9. ASSUME UNCHANGED vars
      PROVE  Goal
  BY <1>3, <1>9 DEF vars, tables, events, Exists, Requesting
<1>10. ASSUME NEW w \in Worker, NEW r \in Ride, NEW to \in Statuses,
              UpdateStatusWithHistory(w, r, to)
       PROVE  Goal
  BY <1>5, <1>10 DEF UpdateStatusWithHistory
<1>11. ASSUME NEW w \in Worker, NEW r \in Ride, NEW d \in Driver, AssignDriver(w, r, d)
       PROVE  Goal
  <2>1. "driver_assigned" \in Statuses
    BY AssignIsTransition, TransitionFacts
  <2>. QED
    BY <1>5, <1>11, <2>1 DEF AssignDriver
<1>12. Goal
  <2>. HIDE DEF Goal
  <2>1. ASSUME NEW w \in Worker, Begin(w)
        PROVE  Goal
    BY <1>4, <1>10, <1>11, <2>1 DEF Begin
  <2>2. ASSUME NEW w \in Worker, Continue(w)
        PROVE  Goal
    BY <1>1, <1>2, <1>4, <1>6, <2>2 DEF Continue
  <2>3. ASSUME NEW w \in Worker, QueryFails(w)
        PROVE  Goal
    BY <1>4, <2>3
  <2>. QED
    BY <1>7, <1>8, <1>9, <2>1, <2>2, <2>3 DEF Next
<1>. QED
  BY <1>12

\* However many calls run at once and wherever they are cut short, a ride is
\* offered to the drivers once at most, and not before it is stored.
THEOREM RequestCorrect == Spec => []RequestedOnce
<1>1. Init => RequestOK
  BY DEF Init, RequestOK, RequestedOnce, RequestDue, RequestUnique, Requesting, Idle, Subject
<1>2. RequestOK => RequestedOnce
  BY DEF RequestOK
<1>. QED
  BY <1>1, <1>2, SpecIInv, RequestStep, PTL DEF Spec
-----------------------------------------------------------------------------
\* One active ride.  OneActiveRide is false.  What follows shows that it fails in
\* two ways only: two calls of one passenger both pass the test before either has
\* stored its ride, or the active ride is no longer on the page the test reads,
\* because the passenger has since driven PageSize rides of others.

\* No two calls of one passenger are between the test and the insert.
CallsApart ==
  \A v, w \in Worker :
    At(v, "insert") /\ At(w, "insert") /\ task[v].who = task[w].who => v = w

\* The rides stored after the i-th that its passenger drives.
DrivenSince(i) ==
  {k \in DOMAIN created : k > i /\ driver[created[k]] = passenger[created[i]]}

\* No passenger drives so many rides while his own is active.
DrivesFew ==
  \A i \in DOMAIN created :
    IsActiveStatus(status[created[i]]) => Cardinality(DrivenSince(i)) < PageSize

Riding(p, r) == passenger[r] = p /\ IsActiveStatus(status[r])

\* What a call tested still holds when it inserts.
TestHolds ==
  \A w \in Worker : At(w, "insert") => \A r \in Ride : ~Riding(task[w].who, r)

\* created lists the stored rides, each with its passenger.
Listed ==
  /\ \A i \in DOMAIN created :
       Exists(created[i]) /\ passenger[created[i]] \in Passenger
  /\ \A r \in Ride : Exists(r) => \E i \in DOMAIN created : created[i] = r

\* No passenger ordered another ride after the one that is active.
ActiveIsNewest ==
  \A i, k \in DOMAIN created :
    i < k /\ IsActiveStatus(status[created[i]])
      => passenger[created[k]] # passenger[created[i]]

Single == OneActiveRide /\ TestHolds /\ Listed /\ ActiveIsNewest

\* While a passenger drives few rides, his active ride is on his page.
LEMMA ActiveOnPage ==
  ASSUME TypeOK, Listed, ActiveIsNewest, DrivesFew,
         NEW p \in Passenger, NEW r \in Ride, Riding(p, r)
  PROVE  r \in RidesOf(p)
<1>. DEFINE Matching == {i \in DOMAIN created :
                           passenger[created[i]] = p \/ driver[created[i]] = p}
            Newer(i) == {k \in Matching : k > i}
<1>1. Exists(r)
  BY DEF Riding, Exists, IsActiveStatus
<1>2. PICK i \in DOMAIN created : created[i] = r
  BY <1>1 DEF Listed
<1>3. i \in Matching /\ passenger[created[i]] = p /\ IsActiveStatus(status[created[i]])
  BY <1>2 DEF Riding
<1>4. \A k \in DOMAIN created : k > i <=> i < k
  BY DEF TypeOK
<1>5. Newer(i) = DrivenSince(i)
  BY <1>3, <1>4 DEF ActiveIsNewest, DrivenSince
<1>6. Cardinality(Newer(i)) < PageSize
  BY <1>3, <1>5 DEF DrivesFew
<1>. QED
  BY <1>2, <1>3, <1>6 DEF RidesOf

\* A step that stores no ride, makes none active and sends no call to the insert.
LEMMA RidingKept ==
  ASSUME Single, UNCHANGED <<passenger, created>>,
         \A r \in Ride : Exists(r)' <=> Exists(r),
         \A r \in Ride : IsActiveStatus(status'[r]) => IsActiveStatus(status[r]),
         created \in Seq(Ride),
         \A w \in Worker : At(w, "insert")' =>
           At(w, "insert") /\ task'[w].who = task[w].who /\ task[w].who \in Passenger
  PROVE  Single'
<1>0. \A i \in DOMAIN created : created[i] \in Ride
  OBVIOUS
<1>1. OneActiveRide'
  BY DEF Single, OneActiveRide
<1>2. TestHolds'
  BY DEF Single, TestHolds, Riding
<1>3. Listed'
  BY <1>0 DEF Single, Listed
<1>4. ActiveIsNewest'
  BY <1>0 DEF Single, ActiveIsNewest
<1>. QED
  BY <1>1, <1>2, <1>3, <1>4 DEF Single

\* No step gives a passenger a second active ride while the calls are apart and
\* the passengers drive few rides.
LEMMA RidingStep ==
  ASSUME IInv, CallsApart, DrivesFew, Single, [Next]_vars
  PROVE  Single'
<1>. DEFINE Goal == Single'
<1>t. /\ TypeOK /\ TaskOK
      /\ task \in [Worker -> Task]
      /\ status \in [Ride -> Statuses \cup {"absent"}]
      /\ passenger \in [Ride -> Passenger \cup {None}]
      /\ created \in Seq(Ride)
  BY DEF IInv, TypeOK
<1>i. Idle.pc = "idle" /\ IsActiveStatus("requested")
  BY DEF Idle, IsActiveStatus
<1>w. \A w \in Worker : At(w, "insert") => task[w].who \in Passenger
  BY <1>t DEF TaskOK, At
<1>1. ASSUME NEW w \in Worker, CreateWithHistory(w)
      PROVE  Goal
  <2>. DEFINE p == task[w].who
              n == Len(created) + 1
  <2>1. PICK r \in Ride :
          /\ ~Exists(r)
          /\ status' = [status EXCEPT ![r] = "requested"]
          /\ passenger' = [passenger EXCEPT ![r] = p]
          /\ created' = Append(created, r)
          /\ \/ task' = [task EXCEPT ![w].pc = "estimate", ![w].ride = r]
             \/ task' = [task EXCEPT ![w] = Idle]
    BY <1>1 DEF CreateWithHistory, Return
  <2>2. At(w, "insert") /\ p \in Passenger
    BY <1>1, <1>w DEF CreateWithHistory
  <2>3. ~At(w, "insert")' /\ \A v \in Worker \ {w} : task'[v] = task[v]
    BY <1>t, <1>i, <2>1 DEF At, Task
  <2>4. \A u \in Passenger, q \in Ride :
          Riding(u, q)' => (q = r /\ u = p) \/ (q # r /\ Riding(u, q))
    BY <1>t, <2>1 DEF Riding
  <2>5. \A q \in Ride : ~Riding(p, q)
    BY <2>2 DEF Single, TestHolds
  <2>6. OneActiveRide'
    <3>1. SUFFICES ASSUME NEW u \in Passenger, NEW a \in Ride, NEW b \in Ride,
                          Riding(u, a)', Riding(u, b)'
                   PROVE  a = b
      BY DEF OneActiveRide, Riding
    <3>2. CASE u = p
      BY <2>4, <2>5, <3>1, <3>2
    <3>3. CASE u # p
      <4>1. Riding(u, a) /\ Riding(u, b)
        BY <2>4, <3>1, <3>3
      <4>. QED
        BY <4>1 DEF Single, OneActiveRide, Riding
    <3>. QED
      BY <3>2, <3>3
  <2>7. \A v \in Worker : At(v, "insert")' =>
          At(v, "insert") /\ task'[v] = task[v] /\ task[v].who # p
    BY <2>2, <2>3 DEF At, CallsApart
  <2>8. TestHolds'
    BY <1>w, <2>4, <2>7 DEF Single, TestHolds
  <2>9. /\ DOMAIN created = 1 .. Len(created) /\ Len(created) \in Nat
        /\ DOMAIN created' = 1 .. n
        /\ created'[n] = r
        /\ \A i \in DOMAIN created : /\ created'[i] = created[i]
                                     /\ created[i] \in Ride /\ created[i] # r
    BY <1>t, <2>1 DEF Single, Listed
  <2>10. Listed'
    <3>1. \A q \in Ride : Exists(q)' <=> Exists(q) \/ q = r
      BY <1>t, <2>1 DEF Exists
    <3>2. \A i \in 1 .. n : passenger'[created'[i]] \in Passenger
      BY <1>t, <2>1, <2>2, <2>9 DEF Single, Listed
    <3>. QED
      BY <2>9, <3>1, <3>2 DEF Single, Listed
  <2>11. ActiveIsNewest'
    <3>1. SUFFICES ASSUME NEW i \in 1 .. n, NEW k \in 1 .. n, i < k,
                          IsActiveStatus(status'[created'[i]])
                   PROVE  passenger'[created'[k]] # passenger'[created'[i]]
      BY <2>9 DEF ActiveIsNewest
    <3>2. i \in DOMAIN created
      BY <2>9, <3>1
    <3>3. /\ created'[i] = created[i] /\ created[i] \in Ride \ {r}
          /\ status'[created[i]] = status[created[i]]
          /\ passenger'[created[i]] = passenger[created[i]]
      BY <1>t, <2>1, <2>9, <3>2
    <3>4. CASE k = n
      <4>1. passenger'[created'[k]] = p
        BY <1>t, <2>1, <2>9, <3>4
      <4>. QED
        BY <2>5, <3>1, <3>3, <4>1 DEF Riding
    <3>5. CASE k # n
      <4>1. k \in DOMAIN created
        BY <2>9, <3>1, <3>5
      <4>2. passenger'[created'[k]] = passenger[created[k]]
        BY <1>t, <2>1, <2>9, <4>1
      <4>. QED
        BY <3>1, <3>2, <3>3, <4>1, <4>2 DEF Single, ActiveIsNewest
    <3>. QED
      BY <3>4, <3>5
  <2>. QED
    BY <2>6, <2>8, <2>10, <2>11 DEF Single
<1>2. ASSUME NEW w \in Worker, NEW p \in Passenger, NEW b \in BOOLEAN, ListByUser(w, p, b)
      PROVE  Goal
  <2>1. UNCHANGED <<status, passenger, driver, created>>
    BY <1>2 DEF ListByUser, tables
  <2>2. \A q \in Ride : ~Riding(p, q)
    BY <1>2, <1>t, ActiveOnPage DEF ListByUser, Single, Riding
  <2>3. task'[w].who = p /\ \A v \in Worker \ {w} : task'[v] = task[v]
    BY <1>t, <1>2 DEF ListByUser, Idle
  <2>4. TestHolds'
    BY <2>1, <2>2, <2>3 DEF Single, TestHolds, At, Riding
  <2>5. OneActiveRide' /\ Listed' /\ ActiveIsNewest'
    BY <2>1 DEF Single, OneActiveRide, Listed, ActiveIsNewest, Exists
  <2>. QED
    BY <2>4, <2>5 DEF Single
<1>3. ASSUME UNCHANGED <<passenger, created>>,
             \A r \in Ride : Exists(r)' <=> Exists(r),
             \A r \in Ride : IsActiveStatus(status'[r]) => IsActiveStatus(status[r]),
             \A w \in Worker : At(w, "insert")' => At(w, "insert") /\ task'[w].who = task[w].who
      PROVE  Goal
  BY <1>t, <1>w, <1>3, RidingKept
<1>4. ASSUME NEW w \in Worker, NEW r \in Ride, NEW to, NEW d,
             CanTransition(status[r], to), Commit(w, r, to, d)
      PROVE  Goal
  <2>1. UNCHANGED <<passenger, created>> /\ status' = [status EXCEPT ![r] = to]
    BY <1>4 DEF Commit
  <2>2. IsActiveStatus(status[r]) /\ status[r] # "absent" /\ to # "absent"
    BY <1>4, TransitionFacts DEF Statuses
  <2>3. \A q \in Ride : /\ IsActiveStatus(status'[q]) => IsActiveStatus(status[q])
                        /\ Exists(q)' <=> Exists(q)
    BY <1>t, <2>1, <2>2 DEF Exists
  <2>4. \A v \in Worker : At(v, "insert")' => At(v, "insert") /\ task'[v].who = task[v].who
    BY <1>t, <1>4 DEF Commit, At, Idle
  <2>. QED
    BY <1>3, <2>1, <2>3, <2>4
<1>5. ASSUME UNCHANGED <<passenger, created, status>>,
             \A w \in Worker : At(w, "insert")' => At(w, "insert") /\ task'[w] = task[w]
      PROVE  Goal
  BY <1>3, <1>5 DEF Exists
<1>6. ASSUME NEW w \in Worker,
             \/ SavePriceEstimation(w) \/ PublishRequested(w) \/ PublishScheduled(w)
             \/ GetByID(w) \/ PublishStatusChanged(w) \/ PublishOutcome(w) \/ QueryFails(w)
      PROVE  Goal
  <2>1. UNCHANGED <<passenger, created, status>>
    BY <1>6 DEF SavePriceEstimation, PublishRequested, PublishScheduled, GetByID,
       PublishStatusChanged, PublishOutcome, QueryFails, tables
  <2>2. \/ \E stage \in {"pubRequested", "pubScheduled", "pubOutcome"} :
             task' = [task EXCEPT ![w].pc = stage]
        \/ task' = [task EXCEPT ![w].pc = "pubChanged", ![w].seen = status[task[w].ride]]
        \/ task' = [task EXCEPT ![w] = Idle]
    BY <1>6 DEF SavePriceEstimation, PublishRequested, PublishScheduled, GetByID,
       PublishStatusChanged, PublishOutcome, QueryFails, Goto, Return
  <2>3. task'[w].pc # "insert" /\ \A v \in Worker \ {w} : task'[v] = task[v]
    BY <1>t, <1>i, <2>2 DEF Task
  <2>. QED
    BY <1>5, <2>1, <2>3 DEF At
<1>7. ASSUME NEW r \in Ride, Reject(r) \/ Rate(r)
      PROVE  Goal
  BY <1>5, <1>7 DEF Reject, Rate, tables, At
<1>8. ASSUME Crash
      PROVE  Goal
  BY <1>5, <1>8, <1>i DEF Crash, tables, At
<1>9. ASSUME UNCHANGED vars
      PROVE  Goal
  BY <1>5, <1>9 DEF vars, tables, At
<1>10. ASSUME NEW w \in Worker, NEW r \in Ride, NEW to \in Statuses,
              UpdateStatusWithHistory(w, r, to)
       PROVE  Goal
  BY <1>4, <1>10 DEF UpdateStatusWithHistory
<1>11. ASSUME NEW w \in Worker, NEW r \in Ride, NEW d \in Driver, AssignDriver(w, r, d)
       PROVE  Goal
  BY <1>4, <1>11, AssignIsTransition DEF AssignDriver
<1>12. Goal
  <2>. HIDE DEF Goal
  <2>1. ASSUME NEW w \in Worker, Begin(w)
        PROVE  Goal
    BY <1>2, <1>10, <1>11, <2>1 DEF Begin
  <2>2. ASSUME NEW w \in Worker, Continue(w)
        PROVE  Goal
    BY <1>1, <1>6, <2>2 DEF Continue
  <2>3. ASSUME NEW w \in Worker, QueryFails(w)
        PROVE  Goal
    BY <1>6, <2>3
  <2>. QED
    BY <1>7, <1>8, <1>9, <2>1, <2>2, <2>3 DEF Next
<1>. QED
  BY <1>12

\* The passenger of an active ride gets no second one, with every fault and however
\* the calls run, unless two of his calls are between the test and the insert at
\* once or PageSize rides that he drives were stored after his own: the test, its
\* page and the transition table leave no other gap.
THEOREM OneRideWhenApart ==
  Spec /\ []CallsApart /\ []DrivesFew => []OneActiveRide
<1>1. Init => Single
  BY DEF Init, Single, OneActiveRide, IsActiveStatus, TestHolds, Listed, ActiveIsNewest,
         Exists, At, Idle
<1>2. Single => OneActiveRide
  BY DEF Single
<1>. QED
  BY <1>1, <1>2, SpecIInv, RidingStep, PTL DEF Spec

\* Where no passenger is a driver, the race of two calls is the only way.
THEOREM OneRideOfRiders ==
  ASSUME Passenger \cap Driver = {}
  PROVE  Spec /\ []CallsApart => []OneActiveRide
<1>1. Init => Single
  BY DEF Init, Single, OneActiveRide, IsActiveStatus, TestHolds, Listed, ActiveIsNewest,
         Exists, At, Idle
<1>2. Single => OneActiveRide
  BY DEF Single
<1>3. ASSUME IInv, Single
      PROVE  DrivesFew
  <2>1. SUFFICES ASSUME NEW i \in DOMAIN created
                 PROVE  Cardinality(DrivenSince(i)) < PageSize
    BY DEF DrivesFew
  <2>2. passenger[created[i]] \in Passenger
    BY <1>3 DEF Single, Listed
  <2>3. \A k \in DOMAIN created : driver[created[k]] \in Driver \cup {None}
    BY <1>3 DEF IInv, TypeOK
  <2>4. DrivenSince(i) = {}
    BY <2>2, <2>3, NoneAssumption DEF DrivenSince
  <2>5. Cardinality(DrivenSince(i)) = 0
    BY <2>4, FS_EmptySet
  <2>. QED
    BY <2>5, PageAssumption
<1>4. IInv /\ CallsApart /\ Single /\ [Next]_vars => Single'
  BY <1>3, RidingStep
<1>. QED
  BY <1>1, <1>2, <1>4, SpecIInv, PTL DEF Spec
=============================================================================
