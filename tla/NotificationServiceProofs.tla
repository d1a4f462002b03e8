---------------------- MODULE NotificationServiceProofs ----------------------
(***************************************************************************)
(* Theorems about NotificationService for any number of users, mails and   *)
(* calls, any subscriptions, either sender and any faults.                 *)
(***************************************************************************)
EXTENDS NotificationService, TLAPS
-----------------------------------------------------------------------------
\* The inductive invariant.  A row has one worker at most, from before its
\* insert to its event.  The worker sends before it writes the outcome, and
\* what marks and deletions write meanwhile is never taken for a mail.

Mailed == {"sent", "mock_sent"}

\* What the task t of a worker relies on.
Sound(t) ==
  /\ t \in Task
  /\ t.pc = "idle" => t.note = None
  /\ t.pc # "idle" => t.note \in Notification
  /\ t.pc = "insert" => status[t.note] = "absent"
  /\ t.pc \notin {"idle", "insert"} => status[t.note] # "absent"
  /\ t.pc = "send" => mails[t.note] = 0
  /\ t.pc \in {"update", "publish"} =>
       t.outcome # "queued" /\ (t.outcome \in Mailed => mails[t.note] = 1)
  /\ t.pc \in {"reread", "publish"} => status[t.note] # "queued"

TaskOK == \A w \in Worker : Sound(task[w])

OneWorker ==
  \A v, w \in Worker, n \in Notification : Working(v, n) /\ Working(w, n) => v = w

AbsentOK == \A n \in Notification : status[n] = "absent" => mails[n] = 0

IInv == /\ TypeOK /\ TaskOK /\ OneWorker /\ AbsentOK
        /\ SentIsMailed /\ QueuedHasSender
-----------------------------------------------------------------------------
\* The idle task is sound in every state.
LEMMA IdleSound == Sound(Idle) /\ Sound(Idle)' /\ Idle.note = None /\ Idle.pc = "idle"
BY DEF Sound, Idle, Task, Stage, Status

LEMMA InitIInv == Init => IInv
<1>. SUFFICES ASSUME Init PROVE IInv
  OBVIOUS
<1>1. TypeOK
  BY IdleSound DEF Init, TypeOK, Sound
<1>2. TaskOK /\ OneWorker
  BY IdleSound, NoneAssumption DEF Init, TaskOK, OneWorker, Working
<1>. QED
  BY <1>1, <1>2 DEF Init, IInv, AbsentOK, SentIsMailed, QueuedHasSender, Status
-----------------------------------------------------------------------------
\* Steps.

\* A worker takes the next step for its row n, and touches no other row.  What
\* is left to show is what the step makes of n.
LEMMA NoteStep ==
  ASSUME IInv, NEW w \in Worker, NEW n \in Notification, NEW t \in Task,
         task' = [task EXCEPT ![w] = t],
         \A v \in Worker \ {w} : ~Working(v, n),
         t.note \in {n, None}, Sound(t)',
         status' \in [Notification -> Status \cup {"absent", "deleted"}],
         user' \in [Notification -> User \cup {None}],
         mails' \in [Notification -> Nat],
         announced' \in [Notification -> SUBSET Status],
         \A m \in Notification \ {n} :
           /\ status'[m] = status[m] /\ mails'[m] = mails[m]
           /\ announced'[m] = announced[m]
           /\ ~Working(w, m),
         cut' \subseteq Notification, cut \subseteq cut', UNCHANGED stopping,
         status'[n] = "absent" => mails'[n] = 0,
         mails'[n] <= 1, "queued" \notin announced'[n],
         \A s \in {status'[n]} \cup announced'[n] : s \in Mailed => mails'[n] = 1,
         status'[n] = "queued" => t.note = n \/ n \in cut'
  PROVE  IInv'
<1>. USE DEF IInv
<1>1. /\ task' \in [Worker -> Task]
      /\ task'[w] = t
      /\ \A v \in Worker \ {w} : task'[v] = task[v]
  BY DEF TypeOK
<1>2. TypeOK'
  BY <1>1 DEF TypeOK
<1>3. ASSUME NEW v \in Worker, v # w
      PROVE  Sound(task[v])'
  <2>1. PICK u : u = task[v] /\ task'[v] = u /\ Sound(u) /\ u.note # n
    BY <1>1, <1>3 DEF TaskOK, Working
  <2>. QED
    BY <2>1 DEF Sound
<1>4. Sound(task[w])'
  BY <1>1 DEF Sound
<1>5. TaskOK'
  BY <1>3, <1>4 DEF TaskOK
<1>6. ASSUME NEW u \in Worker, NEW v \in Worker, NEW m \in Notification,
             task'[u].note = m, task'[v].note = m
      PROVE  u = v
  <2>1. CASE u # w /\ v # w
    BY <1>1, <1>6, <2>1 DEF OneWorker, Working
  <2>2. CASE u = w \/ v = w
    BY <1>1, <1>6, <2>2, NoneAssumption DEF Working
  <2>. QED
    BY <2>1, <2>2
<1>7. OneWorker'
  BY <1>6 DEF OneWorker, Working
<1>8. AbsentOK'
  BY DEF AbsentOK
<1>9. SentIsMailed'
  BY DEF SentIsMailed, Mailed
<1>10. ASSUME NEW m \in Notification, status'[m] = "queued"
       PROVE  (\E v \in Worker : task'[v].note = m) \/ m \in cut'
  <2>1. CASE m = n
    BY <1>1, <1>10, <2>1
  <2>2. CASE m # n
    <3>1. (\E v \in Worker : task[v].note = m) \/ m \in cut
      BY <1>10, <2>2 DEF QueuedHasSender, Working
    <3>. QED
      BY <1>1, <2>2, <3>1 DEF Working
  <2>. QED
    BY <2>1, <2>2
<1>11. QueuedHasSender'
  BY <1>10 DEF QueuedHasSender, Working
<1>. QED
  BY <1>2, <1>5, <1>7, <1>8, <1>9, <1>11

\* Marks and deletions: rows that exist become read or deleted.
LEMMA MarkStep ==
  ASSUME IInv, status' \in [Notification -> Status \cup {"absent", "deleted"}],
         \A n \in Notification : \/ status'[n] = status[n]
                                 \/ Exists(n) /\ status'[n] \in {"read", "deleted"},
         UNCHANGED <<user, history, stopping, task>>
  PROVE  IInv'
<1>. USE DEF IInv
<1>. UNCHANGED <<mails, announced, cut>>
  BY DEF history
<1>1. TypeOK'
  BY DEF TypeOK
<1>2. ASSUME NEW v \in Worker
      PROVE  Sound(task[v])'
  <2>1. PICK u : u = task[v] /\ task'[v] = u /\ Sound(u)
    BY DEF TaskOK
  <2>. QED
    BY <2>1 DEF Sound, Exists, Status
<1>3. TaskOK'
  BY <1>2 DEF TaskOK
<1>4. OneWorker' /\ AbsentOK' /\ QueuedHasSender'
  BY DEF OneWorker, Working, AbsentOK, QueuedHasSender
<1>5. SentIsMailed'
  BY DEF SentIsMailed
<1>. QED
  BY <1>1, <1>3, <1>4, <1>5

\* The process ends: rows that were being worked on are cut.
LEMMA EndStep ==
  ASSUME IInv, CutOff(Worker), UNCHANGED <<status, user, mails, announced>>,
         stopping' \in BOOLEAN
  PROVE  IInv'
<1>. USE DEF IInv
<1>1. \A v \in Worker : task'[v] = Idle
  BY DEF CutOff
<1>2. task' \in [Worker -> Task]
  BY IdleSound DEF CutOff, Sound
<1>3. /\ cut \subseteq cut' /\ cut' \subseteq Notification
      /\ \A n \in Notification, w \in Worker :
           status'[n] # "absent" /\ Working(w, n) => n \in cut'
  BY DEF CutOff, TypeOK
<1>4. TypeOK'
  BY <1>2, <1>3 DEF TypeOK
<1>5. TaskOK'
  BY <1>1, IdleSound DEF TaskOK
<1>6. OneWorker' /\ AbsentOK' /\ SentIsMailed'
  BY <1>1, IdleSound, NoneAssumption
     DEF OneWorker, Working, AbsentOK, SentIsMailed
<1>7. QueuedHasSender'
  BY <1>3 DEF QueuedHasSender
<1>. QED
  BY <1>4, <1>5, <1>6, <1>7
-----------------------------------------------------------------------------
\* SendEmail begins: the row is nobody's yet.
LEMMA BeginStep ==
  ASSUME IInv, NEW w \in Worker, NEW n \in Notification, NEW u \in User \cup {None},
         SendEmail(w, n, u)
  PROVE  IInv'
<1>. USE DEF IInv
<1>. DEFINE t == [Idle EXCEPT !.pc = "insert", !.note = n, !.user = u]
<1>1. /\ t \in Task /\ t.pc = "insert" /\ t.note = n
  BY DEF Idle, Task, Stage, Status
<1>2. /\ At(w, "idle") /\ status[n] = "absent" /\ \A v \in Worker : ~Working(v, n)
      /\ task' = [task EXCEPT ![w] = t]
      /\ UNCHANGED <<status, user, mails, announced, cut, stopping>>
  BY DEF SendEmail, history
<1>. HIDE DEF t
<1>3. Sound(t)'
  BY <1>1, <1>2 DEF Sound
<1>4. \A m \in Notification : ~Working(w, m)
  BY <1>2, NoneAssumption DEF Working, At, TaskOK, Sound
<1>. QED
  BY <1>1, <1>2, <1>3, <1>4, NoteStep
     DEF TypeOK, AbsentOK, SentIsMailed, Mailed

\* The worker of a row, and what holds of the row.
LEMMA WorkerFacts ==
  ASSUME IInv, NEW w \in Worker, ~At(w, "idle")
  PROVE  /\ task[w] \in Task /\ Sound(task[w])
         /\ task[w].note \in Notification
         /\ \A v \in Worker \ {w} : ~Working(v, task[w].note)
         /\ \A m \in Notification \ {task[w].note} : ~Working(w, m)
BY DEF IInv, TypeOK, TaskOK, OneWorker, Working, At, Sound

\* Every step of a worker inside SendEmail.
LEMMA WorkIInv ==
  ASSUME IInv, NEW w \in Worker, Continue(w) \/ Send(w) \/ QueryFails(w)
  PROVE  IInv'
<1>. USE DEF IInv
<1>0. ~At(w, "idle")
  BY DEF Continue, Create, UpdateStatus, GetByID, Publish, Send, QueryFails, At
<1>1. PICK t0, n : t0 = task[w] /\ n = task[w].note
  OBVIOUS
<1>2. /\ t0 \in Task /\ Sound(t0) /\ n \in Notification
      /\ \A v \in Worker \ {w} : ~Working(v, n)
      /\ \A m \in Notification \ {n} : ~Working(w, m)
      /\ n = t0.note
  BY <1>0, <1>1, WorkerFacts
<1>3. /\ status \in [Notification -> Status \cup {"absent", "deleted"}]
      /\ user \in [Notification -> User \cup {None}]
      /\ mails \in [Notification -> Nat]
      /\ announced \in [Notification -> SUBSET Status]
      /\ cut \subseteq Notification
  BY DEF TypeOK
<1>4. /\ mails[n] <= 1 /\ "queued" \notin announced[n]
      /\ \A s \in {status[n]} \cup announced[n] : s \in Mailed => mails[n] = 1
      /\ status[n] = "absent" => mails[n] = 0
  BY <1>2 DEF SentIsMailed, Mailed, AbsentOK
<1>5. Idle \in Task /\ Idle.note = None /\ Sound(Idle)'
  BY IdleSound DEF Sound
<1>6. CASE Create(w)
  <2>. DEFINE t == [t0 EXCEPT !.pc = "send"]
  <2>1. /\ t0.pc = "insert" /\ status[n] = "absent"
        /\ status' = [status EXCEPT ![n] = "queued"]
        /\ user' = [user EXCEPT ![n] = t0.user]
        /\ task' = [task EXCEPT ![w] = t]
        /\ UNCHANGED <<mails, announced, cut, stopping>>
    BY <1>1, <1>2, <1>6 DEF Create, At, Goto, history, Sound
  <2>2. t \in Task /\ t.pc = "send" /\ t.note = n /\ t0.user \in User \cup {None}
    BY <1>2 DEF Task, Stage
  <2>. HIDE DEF t
  <2>3. /\ status' \in [Notification -> Status \cup {"absent", "deleted"}]
        /\ user' \in [Notification -> User \cup {None}]
        /\ status'[n] = "queued"
        /\ \A m \in Notification \ {n} : status'[m] = status[m]
    BY <1>2, <1>3, <2>1, <2>2 DEF Status
  <2>4. Sound(t)'
    BY <1>2, <1>4, <2>1, <2>2, <2>3 DEF Sound
  <2>. QED
    BY <1>2, <1>3, <1>4, <2>1, <2>2, <2>3, <2>4, NoteStep DEF Mailed
<1>7. CASE Send(w)
  <2>1. PICK outcome \in {"mock_sent", "sent", "failed"} :
          /\ task' = [task EXCEPT ![w].pc = "update", ![w].outcome = outcome]
          /\ \/ mails' = [mails EXCEPT ![n] = @ + 1]
             \/ outcome = "failed" /\ UNCHANGED mails
    BY <1>1, <1>7, SenderAssumption DEF Send
  <2>2. t0.pc = "send" /\ mails[n] = 0 /\ UNCHANGED <<status, user, announced, cut, stopping>>
    BY <1>1, <1>2, <1>7 DEF Send, At, Sound
  <2>. DEFINE t == [t0 EXCEPT !.pc = "update", !.outcome = outcome]
  <2>3. /\ task' = [task EXCEPT ![w] = t]
        /\ t \in Task /\ t.pc = "update" /\ t.note = n /\ t.outcome = outcome
    BY <1>1, <1>2, <2>1 DEF Task, Stage, Status
  <2>. HIDE DEF t
  <2>4. /\ mails' \in [Notification -> Nat]
        /\ mails'[n] \in {0, 1}
        /\ outcome \in Mailed => mails'[n] = 1
        /\ \A m \in Notification \ {n} : mails'[m] = mails[m]
    BY <1>2, <1>3, <2>1, <2>2 DEF Mailed
  <2>5. status[n] \notin Mailed /\ status[n] # "absent"
    BY <1>2, <1>4, <2>2 DEF Sound
  <2>6. Sound(t)'
    BY <1>2, <2>2, <2>3, <2>4, <2>5 DEF Sound
  <2>7. \A s \in {status[n]} \cup announced[n] : s \in Mailed => mails'[n] = 1
    BY <1>4, <2>2, <2>5
  <2>8. /\ mails'[n] <= 1 /\ "queued" \notin announced'[n]
        /\ status'[n] = "absent" => mails'[n] = 0
        /\ \A s \in {status'[n]} \cup announced'[n] : s \in Mailed => mails'[n] = 1
    BY <1>4, <2>2, <2>4, <2>5, <2>7
  <2>. QED
    BY <1>2, <1>3, <2>2, <2>3, <2>4, <2>6, <2>8, NoteStep
<1>8. CASE UpdateStatus(w)
  <2>1. t0.pc = "update" /\ UNCHANGED <<user, mails, announced, cut, stopping>>
    BY <1>1, <1>8 DEF UpdateStatus, At, history
  <2>2. CASE ~Exists(n)
    <3>1. task' = [task EXCEPT ![w] = Idle] /\ UNCHANGED status
      BY <1>1, <1>8, <2>2 DEF UpdateStatus, Return
    <3>. QED
      BY <1>2, <1>3, <1>4, <1>5, <2>1, <2>2, <3>1, NoteStep DEF Exists, Status
  <2>3. CASE Exists(n)
    <3>. DEFINE t == [t0 EXCEPT !.pc = "reread"]
    <3>1. /\ status' = [status EXCEPT ![n] = t0.outcome]
          /\ task' = [task EXCEPT ![w] = t]
      BY <1>1, <1>8, <2>3 DEF UpdateStatus, Goto
    <3>2. /\ t \in Task /\ t.pc = "reread" /\ t.note = n
          /\ t0.outcome \in Status \ {"queued"}
          /\ t0.outcome \in Mailed => mails[n] = 1
      BY <1>2, <2>1 DEF Task, Stage, Sound
    <3>. HIDE DEF t
    <3>3. /\ status' \in [Notification -> Status \cup {"absent", "deleted"}]
          /\ status'[n] = t0.outcome
          /\ \A m \in Notification \ {n} : status'[m] = status[m]
      BY <1>2, <1>3, <3>1, <3>2
    <3>4. Sound(t)' /\ status'[n] # "absent"
      BY <1>2, <3>2, <3>3 DEF Sound, Status
    <3>. QED
      BY <1>2, <1>3, <1>4, <2>1, <3>1, <3>2, <3>3, <3>4, NoteStep
  <2>. QED
    BY <2>2, <2>3
<1>9. CASE GetByID(w)
  <2>1. /\ t0.pc = "reread" /\ status[n] # "queued"
        /\ UNCHANGED <<status, user, mails, announced, cut, stopping>>
    BY <1>1, <1>2, <1>9 DEF GetByID, At, history, Sound
  <2>2. CASE ~Exists(n)
    <3>1. task' = [task EXCEPT ![w] = Idle]
      BY <1>1, <1>9, <2>2 DEF GetByID, Return
    <3>. QED
      BY <1>2, <1>3, <1>4, <1>5, <2>1, <3>1, NoteStep
  <2>3. CASE Exists(n)
    <3>0. PICK t : t = [t0 EXCEPT !.pc = "publish", !.outcome = status[n]]
      OBVIOUS
    <3>1. task' = [task EXCEPT ![w] = t]
      BY <1>1, <1>9, <2>3, <3>0 DEF GetByID
    <3>2. t \in Task /\ t.pc = "publish" /\ t.note = n /\ t.outcome = status[n]
      BY <1>2, <2>3, <3>0 DEF Task, Stage, Exists
    <3>3. Sound(t)'
      BY <1>2, <1>4, <2>1, <2>3, <3>2 DEF Sound, Exists, Status
    <3>. QED
      BY <1>2, <1>3, <1>4, <2>1, <3>1, <3>2, <3>3, NoteStep
  <2>. QED
    BY <2>2, <2>3
<1>10. CASE Publish(w)
  <2>1. /\ t0.pc = "publish" /\ status[n] # "queued"
        /\ t0.outcome \in Status \ {"queued"}
        /\ t0.outcome \in Mailed => mails[n] = 1
        /\ task' = [task EXCEPT ![w] = Idle]
        /\ UNCHANGED <<status, user, mails, cut, stopping>>
    BY <1>1, <1>2, <1>10 DEF Publish, At, Return, Sound, Task
  <2>2. /\ announced' \in [Notification -> SUBSET Status]
        /\ announced'[n] \subseteq announced[n] \cup {t0.outcome}
        /\ \A m \in Notification \ {n} : announced'[m] = announced[m]
    BY <1>1, <1>2, <1>3, <1>10, <2>1 DEF Publish
  <2>3. /\ "queued" \notin announced'[n]
        /\ \A s \in {status[n]} \cup announced'[n] : s \in Mailed => mails[n] = 1
    BY <1>4, <2>1, <2>2
  <2>. QED
    BY <1>2, <1>3, <1>4, <1>5, <2>1, <2>2, <2>3, NoteStep
<1>11. CASE QueryFails(w)
  <2>1. /\ task' = [task EXCEPT ![w] = Idle]
        /\ cut \subseteq cut' /\ cut' \subseteq Notification
        /\ status'[n] # "absent" => n \in cut'
        /\ UNCHANGED <<mails, announced, stopping>>
    BY <1>1, <1>2, <1>3, <1>11, IdleSound DEF QueryFails, CutOff, Working, TypeOK
  <2>2. PICK s, u :
          /\ s \in Status \cup {"absent", "deleted"} /\ u \in User \cup {None}
          /\ status' = [status EXCEPT ![n] = s] /\ user' = [user EXCEPT ![n] = u]
          /\ s = "absent" => mails[n] = 0
          /\ s \in Mailed => mails[n] = 1
    <3>1. CASE UNCHANGED <<status, user>>
      <4>1. status' = [status EXCEPT ![n] = status[n]] /\ user' = [user EXCEPT ![n] = user[n]]
        BY <1>2, <1>3, <3>1
      <4>. QED
        BY <1>2, <1>3, <1>4, <4>1
    <3>2. CASE /\ status' = [status EXCEPT ![n] = "queued"]
               /\ user' = [user EXCEPT ![n] = t0.user]
      <4>1. t0.user \in User \cup {None}
        BY <1>2 DEF Task
      <4>2. "queued" \in Status \cup {"absent", "deleted"} /\ "queued" \notin Mailed
        BY DEF Status, Mailed
      <4>. QED
        BY <3>2, <4>1, <4>2
    <3>3. CASE /\ t0.pc = "update" /\ Exists(n)
               /\ status' = [status EXCEPT ![n] = t0.outcome] /\ UNCHANGED user
      <4>1. user' = [user EXCEPT ![n] = user[n]]
        BY <1>2, <1>3, <3>3
      <4>2. t0.outcome \in Status /\ (t0.outcome \in Mailed => mails[n] = 1)
        BY <1>2, <3>3 DEF Task, Sound
      <4>. QED
        BY <1>2, <1>3, <3>3, <4>1, <4>2 DEF Status
    <3>. QED
      BY <1>1, <1>11, <3>1, <3>2, <3>3 DEF QueryFails, At
  <2>3. /\ status' \in [Notification -> Status \cup {"absent", "deleted"}]
        /\ user' \in [Notification -> User \cup {None}]
        /\ status'[n] = s
        /\ \A m \in Notification \ {n} : status'[m] = status[m]
    BY <1>2, <1>3, <2>2
  <2>4. /\ mails'[n] <= 1 /\ "queued" \notin announced'[n]
        /\ status'[n] = "absent" => mails'[n] = 0
        /\ \A x \in {status'[n]} \cup announced'[n] : x \in Mailed => mails'[n] = 1
        /\ status'[n] = "queued" => n \in cut'
    BY <1>4, <2>1, <2>2, <2>3
  <2>. QED
    BY <1>2, <1>3, <1>5, <2>1, <2>3, <2>4, NoteStep
<1>. QED
  BY <1>6, <1>7, <1>8, <1>9, <1>10, <1>11 DEF Continue
-----------------------------------------------------------------------------
\* Every step keeps the invariant.
LEMMA NextIInv == IInv /\ [Next]_vars => IInv'
<1>. SUFFICES ASSUME IInv, [Next]_vars PROVE IInv'
  OBVIOUS
<1>0. status \in [Notification -> Status \cup {"absent", "deleted"}]
  BY DEF IInv, TypeOK
<1>1. ASSUME NEW w \in Worker, Begin(w) PROVE IInv'
  <2>1. PICK n \in Notification, u \in User \cup {None} : SendEmail(w, n, u)
    BY <1>1 DEF Begin, Receive, Request, Resend, IInv, TypeOK
  <2>. QED
    BY <2>1, BeginStep
<1>2. ASSUME NEW w \in Worker, Continue(w) \/ Send(w) \/ QueryFails(w) PROVE IInv'
  BY <1>2, WorkIInv
<1>3. ASSUME NEW n \in Notification, MarkRead(n) \/ Delete(n) PROVE IInv'
  BY <1>0, <1>3, MarkStep DEF MarkRead, Delete, Status
<1>4. ASSUME NEW u \in User, MarkAllRead(u) PROVE IInv'
  BY <1>0, <1>4, MarkStep DEF MarkAllRead, Status
<1>5. CASE Crash
  BY <1>5, EndStep DEF Crash
<1>6. CASE Exit
  BY <1>6, EndStep DEF Exit
<1>7. CASE Stop
  BY <1>7 DEF Stop, history, IInv, TypeOK, TaskOK, Sound, OneWorker, Working, AbsentOK,
              SentIsMailed, QueuedHasSender
<1>8. CASE UNCHANGED vars
  BY <1>8 DEF vars, IInv, TypeOK, TaskOK, Sound, OneWorker, Working, AbsentOK,
              SentIsMailed, QueuedHasSender
<1>. QED
  BY <1>1, <1>2, <1>3, <1>4, <1>5, <1>6, <1>7, <1>8 DEF Next
-----------------------------------------------------------------------------
\* The invariant holds in every behaviour.
LEMMA SpecIInv == Spec => []IInv
BY InitIInv, NextIInv, PTL DEF Spec

\* No worker writes a malformed row, event or task: an event never carries a
\* row that is gone.
THEOREM TypeCorrect == Spec => []TypeOK
BY SpecIInv, PTL DEF IInv

\* A row stands for one mail at most, and "sent", stored or published, for one
\* that left, whatever is resent, marked, deleted or cut off.
THEOREM SentCorrect == Spec => []SentIsMailed
BY SpecIInv, PTL DEF IInv

\* A row is left queued only when its sender was cut off.
THEOREM QueuedCorrect == Spec => []QueuedHasSender
BY SpecIInv, PTL DEF IInv
-----------------------------------------------------------------------------
\* What a step may not undo of one row.
Kept(n) ==
  /\ status[n] = "deleted" => status'[n] = "deleted"
  /\ status[n] = "read" =>
       \/ status'[n] \in {"read", "deleted"}
       \/ \E w \in Worker : Working(w, n) /\ At(w, "update")

\* A write of a worker: to a row before its insert, or to its own after it.
LEMMA WriteKeeps ==
  ASSUME IInv, NEW w \in Worker, NEW s,
         status' = [status EXCEPT ![task[w].note] = s],
         \/ At(w, "insert")
         \/ At(w, "update") /\ Exists(task[w].note)
  PROVE  \A n \in Notification : Kept(n)
<1>. SUFFICES ASSUME NEW n \in Notification PROVE Kept(n)
  OBVIOUS
<1>1. CASE n # task[w].note
  BY <1>1 DEF Kept, IInv, TypeOK
<1>2. CASE n = task[w].note /\ At(w, "insert")
  BY <1>2 DEF Kept, IInv, TaskOK, Sound, At
<1>3. CASE n = task[w].note /\ At(w, "update") /\ Exists(n)
  BY <1>3 DEF Kept, Working, Exists, Status
<1>. QED
  BY <1>1, <1>2, <1>3

LEMMA StepKeeps ==
  ASSUME IInv, [Next]_vars
  PROVE  \A n \in Notification : Kept(n)
<1>0. status \in [Notification -> Status \cup {"absent", "deleted"}]
  BY DEF IInv, TypeOK
<1>1. CASE UNCHANGED status
  BY <1>1 DEF Kept
<1>2. ASSUME NEW w \in Worker, Begin(w) PROVE UNCHANGED status
  BY <1>2 DEF Begin, Receive, Request, Resend, SendEmail
<1>3. ASSUME NEW w \in Worker, Continue(w) \/ Send(w)
      PROVE  \A n \in Notification : Kept(n)
  <2>1. CASE Create(w)
    BY <2>1, WriteKeeps DEF Create
  <2>2. CASE UpdateStatus(w)
    BY <1>1, <2>2, WriteKeeps DEF UpdateStatus
  <2>3. CASE GetByID(w) \/ Publish(w) \/ Send(w)
    BY <1>1, <2>3 DEF GetByID, Publish, Send
  <2>. QED
    BY <1>3, <2>1, <2>2, <2>3 DEF Continue
<1>4. ASSUME NEW w \in Worker, QueryFails(w)
      PROVE  \A n \in Notification : Kept(n)
  BY <1>1, <1>4, WriteKeeps DEF QueryFails
<1>5. ASSUME NEW m \in Notification, MarkRead(m) \/ Delete(m)
      PROVE  \A n \in Notification : Kept(n)
  BY <1>0, <1>5 DEF MarkRead, Delete, Exists, Status, Kept
<1>6. ASSUME NEW u \in User, MarkAllRead(u)
      PROVE  \A n \in Notification : Kept(n)
  BY <1>0, <1>6 DEF MarkAllRead, Exists, Status, Kept
<1>7. CASE Crash \/ Stop \/ Exit \/ UNCHANGED vars
  BY <1>1, <1>7 DEF Crash, Stop, Exit, vars
<1>. QED
  BY <1>1, <1>2, <1>3, <1>4, <1>5, <1>6, <1>7 DEF Next

\* A mail that was read stays read once its sender has stored the outcome, and
\* a deleted one stays deleted, however late the sender is.
THEOREM MarksStay == Spec => ReadAndDeletedAreFinal
<1>1. IInv /\ [Next]_vars => [\A n \in Notification : Kept(n)]_vars
  BY StepKeeps
<1>2. [\A n \in Notification : Kept(n)]_vars <=>
      [\A n \in Notification :
         /\ status[n] = "deleted" => status'[n] = "deleted"
         /\ status[n] = "read" =>
              \/ status'[n] \in {"read", "deleted"}
              \/ \E w \in Worker : Working(w, n) /\ At(w, "update")]_vars
  BY DEF Kept
<1>. QED
  BY <1>1, <1>2, SpecIInv, PTL DEF Spec, ReadAndDeletedAreFinal
=============================================================================
