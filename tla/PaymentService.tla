--------------------------- MODULE PaymentService ---------------------------
(***************************************************************************)
(* The payment-service: the payments table, the ledger payment_events and  *)
(* the money events it publishes.  A Worker is one call in flight: a gRPC  *)
(* request, or one callback for ride.completed or ride.cancelled.  Each    *)
(* step of a handler is one query, one transaction or one publication; the *)
(* transaction that changes a status locks its row and is one step.        *)
(* Payments are numbered in the order of created_at, which Create takes    *)
(* from the clock before it inserts.  CreateRefundRequest publishes an     *)
(* event nobody listens to and changes nothing; it is left out.            *)
(***************************************************************************)
EXTENDS Integers, Sequences

CONSTANTS Ride, Worker, None,
          MaxPayments, \* bound on the calls of Create
          Faults       \* the faults the environment may inject

FaultKinds == {"crash",     \* the process dies, its calls with it
               "query",     \* the database refuses a query, or the caller's context ends
               "publish"}   \* a publication fails; the error is ignored

ASSUME FaultsAssumption == Faults \subseteq FaultKinds
ASSUME BoundAssumption == MaxPayments \in Nat
ASSUME NoneAssumption == None \notin Ride

Payment == 1 .. MaxPayments
-----------------------------------------------------------------------------
VARIABLES
  next,   \* the number the next call of Create takes
  status, \* payments.status, "absent" when there is no row
  ride,   \* payments.ride_id
  ledger, \* the statuses in the payload of payment_events, in order
  sent,   \* publications of payment.succeeded and payment.refunded
  task    \* what each worker is doing

tables == <<status, ride, ledger>>
vars == <<next, tables, sent, task>>

Status == {"pending", "succeeded", "failed", "refunded"}

\* The statuses whose event is published: payment.succeeded, payment.refunded.
Outcome == {"succeeded", "refunded"}

\* domain.CanTransition when a refunded payment may be processed again.
CanTransition_Reprocess(from, to) ==
  \/ from = "pending" /\ to \in {"succeeded", "failed", "refunded"}
  \/ from = "succeeded" /\ to = "refunded"
  \/ from = "refunded" /\ to = "succeeded"

CanTransition(from, to) ==
  \/ from = "pending" /\ to \in {"succeeded", "failed", "refunded"}
  \/ from = "succeeded" /\ to = "refunded"

Stage == {"idle", "insert", "pubCreated", "update", "reread", "pubOutcome"}

\* auto marks a callback; after creating a payment it goes on to process it.
Task == [pc : Stage, pay : Payment \cup {0}, ride : Ride \cup {None},
         to : Outcome, auto : BOOLEAN]

Idle == [pc |-> "idle", pay |-> 0, ride |-> None, to |-> "succeeded", auto |-> FALSE]

Init ==
  /\ next = 1
  /\ status = [p \in Payment |-> "absent"]
  /\ ride = [p \in Payment |-> None]
  /\ ledger = [p \in Payment |-> <<>>]
  /\ sent = [p \in Payment |-> [o \in Outcome |-> 0]]
  /\ task = [w \in Worker |-> Idle]

Exists(p) == status[p] # "absent"
At(w, stage) == task[w].pc = stage
Goto(w, stage) == task' = [task EXCEPT ![w].pc = stage]
Return(w) == task' = [task EXCEPT ![w] = Idle]
Call(w, t) == At(w, "idle") /\ task' = [task EXCEPT ![w] = t]
-----------------------------------------------------------------------------
\* CreatePayment, and the callback for ride.completed.

Create(w, r, auto) ==
  /\ next <= MaxPayments
  /\ next' = next + 1
  /\ Call(w, [Idle EXCEPT !.pc = "insert", !.pay = next, !.ride = r, !.auto = auto])
  /\ UNCHANGED <<tables, sent>>

\* An insert without its ledger row.
CreateWithEvent_NoEvent(w) ==
  /\ At(w, "insert")
  /\ status' = [status EXCEPT ![task[w].pay] = "pending"]
  /\ ride' = [ride EXCEPT ![task[w].pay] = task[w].ride]
  /\ Goto(w, "pubCreated")
  /\ UNCHANGED <<next, ledger, sent>>

\* The payment and its first ledger row; when only the answer to the
\* commit is lost, the rows are there and the call ends.
CreateWithEvent(w) ==
  /\ At(w, "insert")
  /\ status' = [status EXCEPT ![task[w].pay] = "pending"]
  /\ ride' = [ride EXCEPT ![task[w].pay] = task[w].ride]
  /\ ledger' = [ledger EXCEPT ![task[w].pay] = <<"pending">>]
  /\ \/ Goto(w, "pubCreated")
     \/ "query" \in Faults /\ Return(w)
  /\ UNCHANGED <<next, sent>>

\* A callback that stops after the payment is created.
PublishCreated_NoProcess(w) ==
  /\ At(w, "pubCreated")
  /\ Return(w)
  /\ UNCHANGED <<next, tables, sent>>

\* payment.created has no subscriber.  The callback goes on to Process.
PublishCreated(w) ==
  /\ At(w, "pubCreated")
  /\ IF task[w].auto THEN Goto(w, "update") ELSE Return(w)
  /\ UNCHANGED <<next, tables, sent>>
-----------------------------------------------------------------------------
\* ProcessPayment, RefundPayment, and the callback for ride.cancelled.

\* A request names the payment; nothing is known about it yet.
Request(w, p, to) ==
  /\ Call(w, [Idle EXCEPT !.pc = "update", !.pay = p, !.to = to])
  /\ UNCHANGED <<next, tables, sent>>

PaymentsOf(r) == {p \in Payment : Exists(p) /\ ride[p] = r}

\* The callback reads the newest payment of the ride, to refund it.
GetByRide(w, r) ==
  /\ \E p \in PaymentsOf(r) :
       /\ \A q \in PaymentsOf(r) : q <= p
       /\ Call(w, [Idle EXCEPT !.pc = "update", !.pay = p, !.to = "refunded",
                               !.auto = TRUE])
  /\ UNCHANGED <<next, tables, sent>>

\* UpdateStatusWithEvent called with the event's name for the status.
UpdateStatusWithEvent_Swapped(w) ==
  LET p == task[w].pay
      to == task[w].to
  IN  /\ At(w, "update")
      /\ CanTransition(status[p], to)
      /\ status' = [status EXCEPT ![p] = "processed"]
      /\ ledger' = [ledger EXCEPT ![p] = Append(@, to)]
      /\ Goto(w, "reread")
      /\ UNCHANGED <<next, ride, sent>>

\* A transaction that relies on a status read before it.
UpdateStatusWithEvent_Unchecked(w) ==
  LET p == task[w].pay
      to == task[w].to
  IN  /\ At(w, "update")
      /\ Exists(p)
      /\ status' = [status EXCEPT ![p] = to]
      /\ ledger' = [ledger EXCEPT ![p] = Append(@, to)]
      /\ Goto(w, "reread")
      /\ UNCHANGED <<next, ride, sent>>

UpdateStatusWithEvent(w) ==
  LET p == task[w].pay
      to == task[w].to
  IN  /\ At(w, "update")
      /\ CanTransition(status[p], to)
      /\ status' = [status EXCEPT ![p] = to]
      /\ ledger' = [ledger EXCEPT ![p] = Append(@, to)]
      /\ Goto(w, "reread")
      /\ UNCHANGED <<next, ride, sent>>

\* ErrPaymentNotFound or ErrInvalidTransition; the transaction is rolled back.
RefuseUpdate(w) ==
  /\ At(w, "update")
  /\ ~CanTransition(status[task[w].pay], task[w].to)
  /\ Return(w)
  /\ UNCHANGED <<next, tables, sent>>

\* GetByID after the commit.  The event it is read for carries fields that
\* never change.
GetByID(w) ==
  /\ At(w, "reread")
  /\ Goto(w, "pubOutcome")
  /\ UNCHANGED <<next, tables, sent>>

\* A publication named after the payment's status at the time.
PublishOutcome_Current(w) ==
  LET p == task[w].pay
  IN  /\ At(w, "pubOutcome")
      /\ sent' = [sent EXCEPT ![p][status[p]] = @ + 1]
      /\ Return(w)
      /\ UNCHANGED <<next, tables>>

PublishOutcome(w) ==
  /\ At(w, "pubOutcome")
  /\ \/ sent' = [sent EXCEPT ![task[w].pay][task[w].to] = @ + 1]
     \/ "publish" \in Faults /\ UNCHANGED sent
  /\ Return(w)
  /\ UNCHANGED <<next, tables>>
-----------------------------------------------------------------------------
\* A query fails, of a request or of a callback: the handler returns its error,
\* and a callback logs it.
QueryFails(w) ==
  /\ "query" \in Faults
  /\ task[w].pc \in {"insert", "update", "reread"}
  /\ Return(w)
  /\ UNCHANGED <<next, tables, sent>>

Crash ==
  /\ "crash" \in Faults
  /\ task' = [w \in Worker |-> Idle]
  /\ UNCHANGED <<next, tables, sent>>

Begin(w) ==
  \/ \E r \in Ride, auto \in BOOLEAN : Create(w, r, auto)
  \/ \E p \in Payment, to \in Outcome : Request(w, p, to)
  \/ \E r \in Ride : GetByRide(w, r)

Continue(w) ==
  \/ CreateWithEvent(w) \/ PublishCreated(w)
  \/ UpdateStatusWithEvent(w) \/ RefuseUpdate(w)
  \/ GetByID(w) \/ PublishOutcome(w)

Next == Crash \/ \E w \in Worker : Begin(w) \/ Continue(w) \/ QueryFails(w)

Spec == Init /\ [][Next]_vars
-----------------------------------------------------------------------------
\* Properties.

\* Every variable has its type.
TypeOK ==
  /\ next \in 1 .. MaxPayments + 1
  /\ status \in [Payment -> Status \cup {"absent"}]
  /\ ride \in [Payment -> Ride \cup {None}]
  /\ ledger \in [Payment -> Seq(Status)]
  /\ sent \in [Payment -> [Outcome -> Nat]]
  /\ task \in [Worker -> Task]

\* payment_events is the account of the payment, and agrees with its status:
\* money is taken at most once and given back at most once, whichever requests
\* and callbacks race.  A payment may be refunded that was never processed,
\* and nothing ever fails in the mock.
LedgerIsAccount ==
  \A p \in Payment :
    \/ status[p] = "absent" /\ ledger[p] = <<>>
    \/ status[p] = "pending" /\ ledger[p] = <<"pending">>
    \/ status[p] = "succeeded" /\ ledger[p] = <<"pending", "succeeded">>
    \/ /\ status[p] = "refunded"
       /\ \/ ledger[p] = <<"pending", "refunded">>
          \/ ledger[p] = <<"pending", "succeeded", "refunded">>

InLedger(p, o) == \E i \in DOMAIN ledger[p] : ledger[p][i] = o

\* A subscriber mails a receipt for payment.succeeded: the event, and the one
\* for a refund, is published at most once per payment and only for what the
\* ledger shows, even when a refund commits between the processing and its
\* publication.
EventsMatchLedger ==
  \A p \in Payment, o \in Outcome :
    /\ sent[p][o] <= 1
    /\ sent[p][o] = 1 => InLedger(p, o)

\* A refund is final: money that was given back is not taken again by a Process
\* that started before the refund, by a second Refund or by a callback, and the
\* account is closed with it.
RefundIsFinal ==
  [][\A p \in Payment : status[p] = "refunded" =>
       status'[p] = "refunded" /\ ledger'[p] = ledger[p]]_vars
=============================================================================
