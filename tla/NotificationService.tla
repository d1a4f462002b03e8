------------------------- MODULE NotificationService -------------------------
(***************************************************************************)
(* The notification-service: the notifications table, the mails it sends   *)
(* and the event notification.sent.  A Worker is either the callback of    *)
(* one subscription, which NATS runs for one message at a time, or a gRPC  *)
(* call.  Each step of SendEmail is one query, one mail or one             *)
(* publication; the other operations are one statement each.  A signal     *)
(* stops the process gracefully: calls are waited for, callbacks are not.  *)
(***************************************************************************)
EXTENDS Integers

\* The subscriptions of subscribeAll; a message on any of them sends one mail.
Subject == {"user.registered", "ride.requested", "driver.assigned",
            "ride.completed", "payment.succeeded"}

CONSTANTS User, Caller, None,
          Notification, \* notifications.id; a bound on the mails of a run
          Subscribed,   \* the subjects that receive messages
          Sender,       \* the smtp.Sender that main configures
          Faults        \* the faults the environment may inject

FaultKinds == {"crash",     \* the process dies and is restarted
               "query",     \* the database refuses a query, or the caller's context ends
               "publish"}   \* a publication fails; the error is ignored

ASSUME SubscribedAssumption == Subscribed \subseteq Subject
ASSUME CallerAssumption == Caller \cap Subject = {}
ASSUME SenderAssumption == Sender \in {"smtp", "mock"}
ASSUME FaultsAssumption == Faults \subseteq FaultKinds
ASSUME NoneAssumption == None \notin User \cup Notification

Worker == Subscribed \cup Caller
-----------------------------------------------------------------------------
VARIABLES
  status,    \* notifications.status; "absent" before the insert, "deleted" after
  user,      \* notifications.user_id
  mails,     \* the mails that left for a row
  announced, \* the statuses notification.sent has carried for a row
  cut,       \* the rows on which the work was ended early
  stopping,  \* a signal has arrived
  task       \* what each worker is doing

vars == <<status, user, mails, announced, cut, stopping, task>>
history == <<mails, announced, cut>>

Status == {"queued", "sent", "mock_sent", "failed", "read"}
Stage == {"idle", "insert", "send", "update", "reread", "publish"}

\* outcome is the status the worker will write and, once it has read the row
\* again, the status it will publish.
Task == [pc : Stage, note : Notification \cup {None}, user : User \cup {None},
         outcome : Status]

Idle == [pc |-> "idle", note |-> None, user |-> None, outcome |-> "queued"]

Init ==
  /\ status = [n \in Notification |-> "absent"]
  /\ user = [n \in Notification |-> None]
  /\ mails = [n \in Notification |-> 0]
  /\ announced = [n \in Notification |-> {}]
  /\ cut = {}
  /\ stopping = FALSE
  /\ task = [w \in Worker |-> Idle]

Exists(n) == status[n] \in Status
Working(w, n) == task[w].note = n
At(w, stage) == task[w].pc = stage
Goto(w, stage) == task' = [task EXCEPT ![w].pc = stage]
Return(w) == task' = [task EXCEPT ![w] = Idle]
-----------------------------------------------------------------------------
\* SendEmail, called by every subscription and by three of the gRPC methods.

SendEmail(w, n, u) ==
  /\ At(w, "idle")
  /\ status[n] = "absent" /\ \A v \in Worker : ~Working(v, n)
  /\ task' = [task EXCEPT ![w] = [Idle EXCEPT !.pc = "insert", !.note = n, !.user = u]]
  /\ UNCHANGED <<status, user, history, stopping>>

\* A message that some other service published.
Receive(s, n, u) == s \in Subscribed /\ SendEmail(s, n, u)

\* SendEmailNotification and SendRideReceipt.
Request(c, n, u) == c \in Caller /\ ~stopping /\ SendEmail(c, n, u)

\* Resending in place.
Resend_SameRow(c, old, n) ==
  /\ c \in Caller /\ ~stopping
  /\ Exists(old)
  /\ At(c, "idle")
  /\ task' = [task EXCEPT ![c] = [Idle EXCEPT !.pc = "send", !.note = old,
                                               !.user = user[old]]]
  /\ UNCHANGED <<status, user, history, stopping>>

\* ResendNotification sends the mail of a stored row again, as a new row.
Resend(c, old, n) ==
  /\ c \in Caller /\ ~stopping
  /\ Exists(old)
  /\ SendEmail(c, n, user[old])

Create(w) ==
  LET n == task[w].note
  IN  /\ At(w, "insert")
      /\ status' = [status EXCEPT ![n] = "queued"]
      /\ user' = [user EXCEPT ![n] = task[w].user]
      /\ Goto(w, "send")
      /\ UNCHANGED <<history, stopping>>

\* The mail goes out before the row says so; a failure ends the call.
Send_GiveUp(w) ==
  /\ At(w, "send")
  /\ \/ /\ mails' = [mails EXCEPT ![task[w].note] = @ + 1]
        /\ task' = [task EXCEPT ![w].pc = "update", ![w].outcome = "sent"]
     \/ Return(w) /\ UNCHANGED mails
  /\ UNCHANGED <<status, user, announced, cut, stopping>>

\* The outcome is published without being stored.
Send_NotStored(w) ==
  /\ At(w, "send")
  /\ mails' = [mails EXCEPT ![task[w].note] = @ + 1]
  /\ task' = [task EXCEPT ![w].pc = "publish", ![w].outcome = "sent"]
  /\ UNCHANGED <<status, user, announced, cut, stopping>>

\* The mock sender always succeeds.  The real one fails before the mail has
\* left, or after, when the server does not answer QUIT.  Neither looks at
\* the context.
Send(w) ==
  /\ At(w, "send")
  /\ \E outcome \in IF Sender = "mock" THEN {"mock_sent"} ELSE {"sent", "failed"} :
       /\ task' = [task EXCEPT ![w].pc = "update", ![w].outcome = outcome]
       /\ \/ mails' = [mails EXCEPT ![task[w].note] = @ + 1]
          \/ outcome = "failed" /\ UNCHANGED mails
  /\ UNCHANGED <<status, user, announced, cut, stopping>>

\* An update that inserts the row when there is none.
UpdateStatus_Upsert(w) ==
  /\ At(w, "update")
  /\ status' = [status EXCEPT ![task[w].note] = task[w].outcome]
  /\ Goto(w, "reread")
  /\ UNCHANGED <<user, history, stopping>>

\* The final status, whatever the status is by now; ErrNotFound without a row.
UpdateStatus(w) ==
  LET n == task[w].note
  IN  /\ At(w, "update")
      /\ IF Exists(n)
         THEN /\ status' = [status EXCEPT ![n] = task[w].outcome]
              /\ Goto(w, "reread")
         ELSE Return(w) /\ UNCHANGED status
      /\ UNCHANGED <<user, history, stopping>>

\* A missing row is not noticed.
GetByID_NotChecked(w) ==
  /\ At(w, "reread")
  /\ task' = [task EXCEPT ![w].pc = "publish", ![w].outcome = status[task[w].note]]
  /\ UNCHANGED <<status, user, history, stopping>>

GetByID(w) ==
  LET n == task[w].note
  IN  /\ At(w, "reread")
      /\ IF Exists(n)
         THEN task' = [task EXCEPT ![w].pc = "publish", ![w].outcome = status[n]]
         ELSE Return(w)
      /\ UNCHANGED <<status, user, history, stopping>>

\* An event with the row as it was inserted.
Publish_Inserted(w) ==
  /\ At(w, "publish")
  /\ announced' = [announced EXCEPT ![task[w].note] = @ \cup {"queued"}]
  /\ Return(w)
  /\ UNCHANGED <<status, user, mails, cut, stopping>>

Publish(w) ==
  /\ At(w, "publish")
  /\ \/ announced' = [announced EXCEPT ![task[w].note] = @ \cup {task[w].outcome}]
     \/ "publish" \in Faults /\ UNCHANGED announced
  /\ Return(w)
  /\ UNCHANGED <<status, user, mails, cut, stopping>>
-----------------------------------------------------------------------------
\* The operations of one statement.  The queries History, Unread, CountUnread
\* and the read after MarkRead change nothing.

MarkRead(n) ==
  /\ ~stopping
  /\ Exists(n)
  /\ status' = [status EXCEPT ![n] = "read"]
  /\ UNCHANGED <<user, history, stopping, task>>

MarkAllRead(u) ==
  LET unread == {n \in Notification : Exists(n) /\ user[n] = u /\ status[n] # "read"}
  IN  /\ ~stopping
      /\ status' = [n \in Notification |-> IF n \in unread THEN "read" ELSE status[n]]
      /\ UNCHANGED <<user, history, stopping, task>>

Delete(n) ==
  /\ ~stopping
  /\ Exists(n)
  /\ status' = [status EXCEPT ![n] = "deleted"]
  /\ UNCHANGED <<user, history, stopping, task>>
-----------------------------------------------------------------------------
\* The workers lose what they were doing; a row they had inserted shows it.
CutOff(workers) ==
  /\ task' = [w \in Worker |-> IF w \in workers THEN Idle ELSE task[w]]
  /\ cut' = cut \cup {n \in Notification :
                       status'[n] # "absent" /\ \E w \in workers : Working(w, n)}

\* A query fails, of a call or of a callback, and may have been executed.
QueryFails(w) ==
  LET n == task[w].note
  IN  /\ "query" \in Faults
      /\ task[w].pc \in {"insert", "update", "reread"}
      /\ \/ UNCHANGED <<status, user>>
         \/ /\ At(w, "insert")
            /\ status' = [status EXCEPT ![n] = "queued"]
            /\ user' = [user EXCEPT ![n] = task[w].user]
         \/ /\ At(w, "update") /\ Exists(n)
            /\ status' = [status EXCEPT ![n] = task[w].outcome]
            /\ UNCHANGED user
      /\ CutOff({w})
      /\ UNCHANGED <<mails, announced, stopping>>

Crash ==
  /\ "crash" \in Faults
  /\ UNCHANGED <<status, user, mails, announced>>
  /\ CutOff(Worker)
  /\ stopping' = FALSE

Stop ==
  /\ ~stopping
  /\ stopping' = TRUE
  /\ UNCHANGED <<status, user, history, task>>

\* GracefulStop returns when no call is in flight; the process ends, callbacks
\* with it, and is started again.
Exit ==
  /\ stopping
  /\ \A c \in Caller : At(c, "idle")
  /\ UNCHANGED <<status, user, mails, announced>>
  /\ CutOff(Worker)
  /\ stopping' = FALSE
-----------------------------------------------------------------------------
Continue(w) ==
  Create(w) \/ UpdateStatus(w) \/ GetByID(w) \/ Publish(w)

Begin(w) ==
  \E n \in Notification :
    \/ \E u \in User : Receive(w, n, u) \/ Request(w, n, u)
    \/ \E old \in Notification : Resend(w, old, n)

Next ==
  \/ \E w \in Worker : Begin(w) \/ Continue(w) \/ Send(w) \/ QueryFails(w)
  \/ \E n \in Notification : MarkRead(n) \/ Delete(n)
  \/ \E u \in User : MarkAllRead(u)
  \/ Crash \/ Stop \/ Exit

\* A worker goes on while the database answers; a mail server may never
\* answer, and nothing limits how long Send waits for it.
Fairness == \A w \in Worker : WF_vars(Continue(w))

Spec == Init /\ [][Next]_vars /\ Fairness
-----------------------------------------------------------------------------
\* Properties.

\* Every variable has its type.
TypeOK ==
  /\ status \in [Notification -> Status \cup {"absent", "deleted"}]
  /\ user \in [Notification -> User \cup {None}]
  /\ mails \in [Notification -> Nat]
  /\ announced \in [Notification -> SUBSET Status]
  /\ cut \subseteq Notification
  /\ stopping \in BOOLEAN
  /\ task \in [Worker -> Task]

\* A row stands for one mail: it is never mailed twice, even when it is resent
\* or a caller retries, and a row or an event that says sent is true of a mail
\* that left.  notification.sent is published with the outcome alone: never for
\* a mail still queued.
SentIsMailed ==
  \A n \in Notification :
    /\ mails[n] <= 1
    /\ "queued" \notin announced[n]
    /\ \A s \in {status[n]} \cup announced[n] :
         s \in {"sent", "mock_sent"} => mails[n] = 1

\* A row stays queued only while its sender works, or when the sender was cut
\* off: by a crash, by a query that failed, or by a shutdown, which does
\* not wait for callbacks.
QueuedHasSender ==
  \A n \in Notification :
    status[n] = "queued" =>
      (\E w \in Worker : Working(w, n)) \/ n \in cut

\* Once the sender of a row has stored its outcome a row that was read stays
\* read, and a deleted row never comes back, not even to a sender that is late.
\* (Before that, SendEmail overwrites the mark of MarkRead.)
ReadAndDeletedAreFinal ==
  [][\A n \in Notification :
       /\ status[n] = "deleted" => status'[n] = "deleted"
       /\ status[n] = "read" =>
            \/ status'[n] \in {"read", "deleted"}
            \/ \E w \in Worker : Working(w, n) /\ At(w, "update")]_vars

\* Once a mail has left, its row is settled, unless the sender was cut off.
MailIsRecorded ==
  \A n \in Notification :
    mails[n] > 0 ~> status[n] # "queued" \/ n \in cut
=============================================================================
