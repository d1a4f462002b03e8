------------------------ MODULE PaymentServiceProofs ------------------------
(***************************************************************************)
(* Theorems about PaymentService for any number of rides, payments and     *)
(* calls in flight and any set of faults.                                  *)
(***************************************************************************)
EXTENDS PaymentService, SequenceTheorems, TLAPS
-----------------------------------------------------------------------------
\* The inductive invariant: besides the type and the account, numbers not yet
\* taken have no row, a call about to insert is the only one with its number,
\* and a call that has committed an outcome is the only one that will announce
\* it, and has not yet.

Fresh == \A p \in Payment : p >= next => status[p] = "absent"

TaskOK ==
  \A w \in Worker :
    /\ ~At(w, "idle") => task[w].pay \in Payment
    /\ At(w, "insert") => /\ task[w].ride \in Ride
                          /\ task[w].pay < next
                          /\ status[task[w].pay] = "absent"

InsertUnique ==
  \A v, w \in Worker :
    At(v, "insert") /\ At(w, "insert") /\ task[v].pay = task[w].pay => v = w

\* The call has committed an outcome and has not announced it.
Owes(w) == task[w].pc \in {"reread", "pubOutcome"}

OwesOK ==
  \A w \in Worker : Owes(w) =>
    /\ InLedger(task[w].pay, task[w].to)
    /\ sent[task[w].pay][task[w].to] = 0

OwesUnique ==
  \A v, w \in Worker :
    Owes(v) /\ Owes(w) /\ task[v].pay = task[w].pay /\ task[v].to = task[w].to
      => v = w

IInv == /\ TypeOK /\ LedgerIsAccount /\ EventsMatchLedger
        /\ Fresh /\ TaskOK /\ InsertUnique /\ OwesOK /\ OwesUnique
-----------------------------------------------------------------------------
\* Facts about one payment.

\* An outcome that may be reached from a payment's status is not in its ledger
\* yet; appending it keeps the account, and what was there stays there.
LEMMA LedgerFacts ==
  ASSUME TypeOK, LedgerIsAccount, NEW p \in Payment, NEW o \in Outcome,
         CanTransition(status[p], o)
  PROVE  /\ status[p] \in {"pending", "succeeded"}
         /\ ~InLedger(p, o)
         /\ Append(ledger[p], o) \in Seq(Status)
         /\ \/ o = "succeeded" /\ Append(ledger[p], o) = <<"pending", "succeeded">>
            \/ /\ o = "refunded"
               /\ \/ Append(ledger[p], o) = <<"pending", "refunded">>
                  \/ Append(ledger[p], o) = <<"pending", "succeeded", "refunded">>
         /\ \E i \in DOMAIN Append(ledger[p], o) : Append(ledger[p], o)[i] = o
         /\ \A u \in Outcome : InLedger(p, u) =>
              \E i \in DOMAIN Append(ledger[p], o) : Append(ledger[p], o)[i] = u
<1>. DEFINE L == Append(ledger[p], o)
            Goal ==
              /\ ~InLedger(p, o)
              /\ \/ o = "succeeded" /\ L = <<"pending", "succeeded">>
                 \/ /\ o = "refunded"
                    /\ L = <<"pending", "refunded">> \/ L = <<"pending", "succeeded", "refunded">>
              /\ \E i \in DOMAIN L : L[i] = o
              /\ \A u \in Outcome : InLedger(p, u) => \E i \in DOMAIN L : L[i] = u
<1>1. /\ status[p] \in {"pending", "succeeded"}
      /\ status[p] = "succeeded" => o = "refunded"
      /\ o \in {"succeeded", "refunded"}
  BY DEF CanTransition, Outcome
<1>2. /\ ledger[p] \in Seq(Status) /\ o \in Status
      /\ ledger[p] = IF status[p] = "pending" THEN <<"pending">> ELSE <<"pending", "succeeded">>
  BY <1>1 DEF TypeOK, Status, LedgerIsAccount
<1>3. /\ L \in Seq(Status) /\ Len(L) = Len(ledger[p]) + 1 /\ L[Len(ledger[p]) + 1] = o
      /\ \A i \in 1 .. Len(ledger[p]) : L[i] = ledger[p][i]
  BY <1>2, AppendProperties
<1>. HIDE DEF L
<1>4. ASSUME status[p] = "pending" PROVE Goal
  <2>1. /\ ledger[p] = <<"pending">> /\ Len(ledger[p]) = 1
        /\ DOMAIN ledger[p] = {1} /\ ledger[p][1] = "pending"
    BY <1>2, <1>4
  <2>2. Len(L) = 2 /\ DOMAIN L = 1 .. 2 /\ L[1] = "pending" /\ L[2] = o
    BY <1>3, <2>1
  <2>. DEFINE M == <<"pending", o>>
  <2>3. M \in Seq(Status) /\ Len(M) = 2 /\ M[1] = "pending" /\ M[2] = o
    BY <1>2 DEF Status
  <2>. HIDE DEF M
  <2>4. \A i \in 1 .. Len(L) : L[i] = M[i]
    BY <2>2, <2>3
  <2>5. L = M
    BY <1>3, <2>2, <2>3, <2>4, SeqEqual
  <2>6. L = <<"pending", o>>
    BY <2>5 DEF M
  <2>7. \A u \in Outcome : ~InLedger(p, u)
    BY <2>1 DEF InLedger, Outcome
  <2>. QED
    BY <1>1, <1>3, <2>2, <2>6, <2>7
<1>5. ASSUME status[p] = "succeeded" PROVE Goal
  <2>1. /\ ledger[p] = <<"pending", "succeeded">> /\ Len(ledger[p]) = 2
        /\ DOMAIN ledger[p] = {1, 2}
        /\ ledger[p][1] = "pending" /\ ledger[p][2] = "succeeded"
    BY <1>2, <1>5
  <2>2. /\ Len(L) = 3 /\ DOMAIN L = 1 .. 3
        /\ L[1] = "pending" /\ L[2] = "succeeded" /\ L[3] = o
    BY <1>3, <2>1
  <2>. DEFINE M == <<"pending", "succeeded", o>>
  <2>3. /\ M \in Seq(Status) /\ Len(M) = 3
        /\ M[1] = "pending" /\ M[2] = "succeeded" /\ M[3] = o
    BY <1>2 DEF Status
  <2>. HIDE DEF M
  <2>4. \A i \in 1 .. Len(L) : L[i] = M[i]
    BY <2>2, <2>3
  <2>5. L = M
    BY <1>3, <2>2, <2>3, <2>4, SeqEqual
  <2>6. L = <<"pending", "succeeded", o>>
    BY <2>5 DEF M
  <2>7. \A u \in Outcome : InLedger(p, u) => u = "succeeded"
    BY <2>1 DEF InLedger, Outcome
  <2>. QED
    BY <1>1, <1>3, <1>5, <2>2, <2>6, <2>7
<1>6. Goal
  BY <1>1, <1>4, <1>5
<1>. QED
  BY <1>1, <1>3, <1>6 DEF L

\* A publication adds one to one counter.
LEMMA SentUpdate ==
  ASSUME NEW f \in [Payment -> [Outcome -> Nat]], NEW p \in Payment,
         NEW o \in Outcome, NEW g, g = [f EXCEPT ![p][o] = @ + 1]
  PROVE  /\ g \in [Payment -> [Outcome -> Nat]]
         /\ \A q \in Payment, u \in Outcome :
              g[q][u] = IF q = p /\ u = o THEN f[q][u] + 1 ELSE f[q][u]
<1>1. f[p] \in [Outcome -> Nat] /\ f[p][o] + 1 \in Nat
  OBVIOUS
<1>2. g = [f EXCEPT ![p] = [f[p] EXCEPT ![o] = f[p][o] + 1]]
  OBVIOUS
<1>3. g[p] = [f[p] EXCEPT ![o] = f[p][o] + 1] /\ \A q \in Payment \ {p} : g[q] = f[q]
  BY <1>2
<1>4. g[p] \in [Outcome -> Nat]
  BY <1>1, <1>3
<1>5. g \in [Payment -> [Outcome -> Nat]]
  BY <1>1, <1>2
<1>. QED
  BY <1>1, <1>3, <1>5
-----------------------------------------------------------------------------
\* The first state.
LEMMA InitIInv == Init => IInv
BY BoundAssumption
   DEF Init, IInv, TypeOK, LedgerIsAccount, EventsMatchLedger, InLedger, Fresh, TaskOK,
       InsertUnique, OwesOK, OwesUnique, Owes, At, Idle, Task, Stage, Status,
       Outcome, Payment
-----------------------------------------------------------------------------
\* Steps.

\* A step that only moves one call, not to an insertion and not into debt.
LEMMA QuietStep ==
  ASSUME IInv, NEW w \in Worker, NEW t \in Task,
         task' = [task EXCEPT ![w] = t], UNCHANGED <<next, tables, sent>>,
         t.pc # "idle" => t.pay \in Payment,
         t.pc # "insert",
         t.pc \in {"reread", "pubOutcome"} =>
           Owes(w) /\ t.pay = task[w].pay /\ t.to = task[w].to
  PROVE  IInv'
<1>. USE DEF IInv
<1>1. UNCHANGED <<status, ride, ledger>>
  BY DEF tables
<1>2. /\ task' \in [Worker -> Task] /\ task'[w] = t
      /\ \A v \in Worker \ {w} : task'[v] = task[v]
  BY DEF TypeOK
<1>3. TypeOK'
  BY <1>1, <1>2 DEF TypeOK
<1>4. LedgerIsAccount' /\ EventsMatchLedger' /\ Fresh'
  BY <1>1 DEF LedgerIsAccount, EventsMatchLedger, InLedger, Fresh
<1>5. TaskOK' /\ InsertUnique'
  BY <1>1, <1>2 DEF TaskOK, InsertUnique, At
<1>6. OwesOK' /\ OwesUnique'
  BY <1>1, <1>2 DEF OwesOK, OwesUnique, Owes, InLedger
<1>. QED
  BY <1>3, <1>4, <1>5, <1>6

\* A call of Create takes a number no other call has.
LEMMA CreateStep ==
  ASSUME IInv, NEW w \in Worker, NEW r \in Ride, NEW auto \in BOOLEAN,
         Create(w, r, auto)
  PROVE  IInv'
<1>. USE DEF IInv
<1>. DEFINE t == [Idle EXCEPT !.pc = "insert", !.pay = next, !.ride = r, !.auto = auto]
<1>1. /\ next \in Payment /\ next' = next + 1
      /\ task' = [task EXCEPT ![w] = t]
      /\ UNCHANGED <<status, ride, ledger, sent>>
  BY DEF Create, Call, tables, TypeOK, Payment
<1>2. /\ t \in Task
      /\ t.pc = "insert" /\ t.pay = next /\ t.ride = r
  BY <1>1 DEF Idle, Task, Stage, Outcome
<1>3. /\ task' \in [Worker -> Task] /\ task'[w] = t
      /\ \A v \in Worker \ {w} : task'[v] = task[v]
  BY <1>1, <1>2 DEF TypeOK
<1>4. next \in Int /\ next <= MaxPayments /\ MaxPayments \in Nat
  BY <1>1, BoundAssumption DEF Payment
<1>5. TypeOK'
  BY <1>1, <1>3, <1>4 DEF TypeOK
<1>6. LedgerIsAccount' /\ EventsMatchLedger'
  BY <1>1 DEF LedgerIsAccount, EventsMatchLedger, InLedger
<1>7. Fresh'
  BY <1>1, <1>4 DEF Fresh, Payment
<1>8. TaskOK'
  <2>1. ASSUME NEW v \in Worker \ {w}, At(v, "insert")
        PROVE  task[v].pay < next' /\ status[task[v].pay] = "absent"
    BY <1>1, <1>4, <2>1 DEF TaskOK, At, Payment
  <2>2. status[next] = "absent"
    BY <1>1, <1>4 DEF Fresh
  <2>. QED
    BY <1>1, <1>2, <1>3, <1>4, <2>1, <2>2 DEF TaskOK, At
<1>9. InsertUnique'
  <2>1. ASSUME NEW v \in Worker \ {w}, At(v, "insert")
        PROVE  task[v].pay # next
    BY <1>4, <2>1 DEF TaskOK, At, Payment
  <2>2. SUFFICES ASSUME NEW u \in Worker, NEW v \in Worker,
                        task'[u].pc = "insert", task'[v].pc = "insert",
                        task'[u].pay = task'[v].pay
                 PROVE  u = v
    BY DEF InsertUnique, At
  <2>. QED
    BY <1>2, <1>3, <2>1, <2>2 DEF InsertUnique, At
<1>10. OwesOK' /\ OwesUnique'
  BY <1>1, <1>2, <1>3 DEF OwesOK, OwesUnique, Owes, InLedger
<1>. QED
  BY <1>5, <1>6, <1>7, <1>8, <1>9, <1>10

\* The insertion: its payment is in no other call's debt, having no ledger.
LEMMA InsertStep ==
  ASSUME IInv, NEW w \in Worker, CreateWithEvent(w)
  PROVE  IInv'
<1>. USE DEF IInv
<1>. DEFINE p == task[w].pay
<1>1. /\ At(w, "insert") /\ p \in Payment /\ task[w].ride \in Ride
      /\ p < next /\ status[p] = "absent" /\ ledger[p] = <<>> /\ task[w] \in Task
  BY DEF CreateWithEvent, TaskOK, At, LedgerIsAccount, TypeOK
<1>2. /\ status' = [status EXCEPT ![p] = "pending"]
      /\ ride' = [ride EXCEPT ![p] = task[w].ride]
      /\ ledger' = [ledger EXCEPT ![p] = <<"pending">>]
      /\ UNCHANGED <<next, sent>>
  BY DEF CreateWithEvent
<1>3. PICK t \in Task : /\ t.pc \in {"idle", "pubCreated"}
                        /\ t.pc # "idle" => t.pay = p
                        /\ task' = [task EXCEPT ![w] = t]
  <2>1. CASE Goto(w, "pubCreated")
    <3>. DEFINE t == [task[w] EXCEPT !.pc = "pubCreated"]
    <3>1. t \in Task /\ t.pc = "pubCreated" /\ t.pay = p /\ task' = [task EXCEPT ![w] = t]
      BY <1>1, <2>1 DEF Goto, Task, Stage
    <3>. QED
      BY <3>1
  <2>2. CASE Return(w)
    <3>1. Idle \in Task /\ Idle.pc = "idle" /\ task' = [task EXCEPT ![w] = Idle]
      BY <2>2 DEF Return, Idle, Task, Stage, Outcome
    <3>. QED
      BY <3>1
  <2>. QED
    BY <2>1, <2>2 DEF CreateWithEvent
<1>4. /\ task' \in [Worker -> Task] /\ task'[w] = t
      /\ \A v \in Worker \ {w} : task'[v] = task[v]
  BY <1>3 DEF TypeOK
<1>5. <<"pending">> \in Seq(Status) /\ "pending" \in Status
  BY DEF Status
<1>6. TypeOK'
  BY <1>1, <1>2, <1>4, <1>5 DEF TypeOK
<1>7. LedgerIsAccount'
  BY <1>1, <1>2 DEF LedgerIsAccount, TypeOK
<1>8. EventsMatchLedger'
  BY <1>1, <1>2 DEF EventsMatchLedger, InLedger, TypeOK
<1>9. next \in Int /\ p \in Int
  BY <1>1 DEF TypeOK, Payment
<1>10. Fresh'
  BY <1>1, <1>2, <1>9 DEF Fresh, TypeOK
<1>11. InsertUnique'
  BY <1>3, <1>4 DEF InsertUnique, At
<1>12. TaskOK'
  <2>1. ASSUME NEW v \in Worker \ {w}, At(v, "insert")
        PROVE  task[v].pay # p
    BY <1>1, <2>1 DEF InsertUnique
  <2>. QED
    BY <1>1, <1>2, <1>3, <1>4, <2>1 DEF TaskOK, At, TypeOK
<1>13. ASSUME NEW v \in Worker, Owes(v)'
       PROVE  /\ v # w /\ Owes(v) /\ task'[v] = task[v] /\ task[v].pay # p
              /\ task[v].pay \in Payment
  BY <1>1, <1>3, <1>4, <1>13 DEF Owes, OwesOK, InLedger, TaskOK, At
<1>14. OwesOK' /\ OwesUnique'
  BY <1>2, <1>13 DEF OwesOK, OwesUnique, InLedger, TypeOK
<1>. QED
  BY <1>6, <1>7, <1>8, <1>10, <1>11, <1>12, <1>14

\* An outcome is committed; it was not in the ledger, so nobody owes it.
LEMMA UpdateStep ==
  ASSUME IInv, NEW w \in Worker, UpdateStatusWithEvent(w)
  PROVE  IInv'
<1>. USE DEF IInv
<1>. DEFINE p == task[w].pay
            o == task[w].to
            t == [task[w] EXCEPT !.pc = "reread"]
<1>1. p \in Payment /\ o \in Outcome /\ o \in Status /\ task[w] \in Task
  BY DEF UpdateStatusWithEvent, TaskOK, At, TypeOK, Task, Outcome, Status
<1>2. /\ CanTransition(status[p], o)
      /\ status' = [status EXCEPT ![p] = o]
      /\ ledger' = [ledger EXCEPT ![p] = Append(@, o)]
      /\ task' = [task EXCEPT ![w] = t]
      /\ UNCHANGED <<next, ride, sent>>
  BY DEF UpdateStatusWithEvent, Goto
<1>. DEFINE L == Append(ledger[p], o)
<1>3. /\ status[p] \in {"pending", "succeeded"}
      /\ ~InLedger(p, o)
      /\ L \in Seq(Status)
      /\ \/ o = "succeeded" /\ L = <<"pending", "succeeded">>
         \/ /\ o = "refunded"
            /\ L = <<"pending", "refunded">> \/ L = <<"pending", "succeeded", "refunded">>
      /\ \E i \in DOMAIN L : L[i] = o
      /\ \A u \in Outcome : InLedger(p, u) => \E i \in DOMAIN L : L[i] = u
  BY <1>1, <1>2, LedgerFacts
<1>4. t \in Task /\ t.pc = "reread" /\ t.pay = p /\ t.to = o
  BY <1>1 DEF Task, Stage
<1>5. /\ task' \in [Worker -> Task] /\ task'[w] = t
      /\ \A v \in Worker \ {w} : task'[v] = task[v]
  BY <1>2, <1>4 DEF TypeOK
<1>6. /\ ledger'[p] = L /\ status'[p] = o
      /\ \A q \in Payment \ {p} : ledger'[q] = ledger[q] /\ status'[q] = status[q]
  BY <1>1, <1>2 DEF TypeOK
<1>7. TypeOK'
  BY <1>1, <1>2, <1>3, <1>5 DEF TypeOK
<1>8. LedgerIsAccount'
  BY <1>3, <1>6 DEF LedgerIsAccount
<1>. HIDE DEF L
<1>9. /\ \E i \in DOMAIN ledger'[p] : ledger'[p][i] = o
      /\ \A q \in Payment, u \in Outcome : InLedger(q, u) => InLedger(q, u)'
  <2>1. \E i \in DOMAIN ledger'[p] : ledger'[p][i] = o
    BY <1>3, <1>6
  <2>2. ASSUME NEW q \in Payment, NEW u \in Outcome, InLedger(q, u)
        PROVE  InLedger(q, u)'
    <3>1. CASE q = p
      BY <1>3, <1>6, <2>2, <3>1 DEF InLedger
    <3>2. CASE q # p
      BY <1>6, <2>2, <3>2 DEF InLedger
    <3>. QED
      BY <3>1, <3>2
  <2>. QED
    BY <2>1, <2>2
<1>10. EventsMatchLedger'
  <2>1. sent' = sent
    BY <1>2
  <2>. QED
    BY <1>9, <2>1 DEF EventsMatchLedger
<1>11. Fresh'
  BY <1>2, <1>3, <1>6 DEF Fresh
<1>12. TaskOK' /\ InsertUnique'
  BY <1>1, <1>2, <1>3, <1>4, <1>5, <1>6 DEF TaskOK, InsertUnique, At
<1>13. sent[p][o] = 0
  <2>1. sent[p][o] \in Nat /\ sent[p][o] <= 1 /\ sent[p][o] # 1
    BY <1>1, <1>3 DEF EventsMatchLedger, TypeOK
  <2>. QED
    BY <2>1
<1>14. ASSUME NEW v \in Worker \ {w}, Owes(v)'
       PROVE  /\ Owes(v) /\ task'[v] = task[v] /\ ~(task[v].pay = p /\ task[v].to = o)
              /\ task[v].pay \in Payment /\ task[v].to \in Outcome
  BY <1>3, <1>5, <1>14 DEF Owes, OwesOK, TaskOK, At, TypeOK, Task
<1>15. OwesOK'
  BY <1>2, <1>4, <1>5, <1>9, <1>13, <1>14 DEF OwesOK, InLedger
<1>16. OwesUnique'
  <2>1. ASSUME NEW v \in Worker \ {w}, task'[v].pc \in {"reread", "pubOutcome"}
        PROVE  ~(task'[v].pay = p /\ task'[v].to = o)
    BY <1>14, <2>1 DEF Owes
  <2>2. ASSUME NEW u \in Worker \ {w}, NEW v \in Worker \ {w}, Owes(u)', Owes(v)',
               task'[u].pay = task'[v].pay, task'[u].to = task'[v].to
        PROVE  u = v
    BY <1>14, <2>2 DEF OwesUnique
  <2>3. SUFFICES ASSUME NEW u \in Worker, NEW v \in Worker, Owes(u)', Owes(v)',
                        task'[u].pay = task'[v].pay, task'[u].to = task'[v].to
                 PROVE  u = v
    BY DEF OwesUnique, Owes
  <2>4. CASE u # w /\ v # w
    BY <2>2, <2>3, <2>4
  <2>5. task'[w].pay = p /\ task'[w].to = o
    BY <1>4, <1>5
  <2>6. CASE u = w /\ v # w
    BY <2>1, <2>3, <2>5, <2>6 DEF Owes
  <2>7. CASE u # w /\ v = w
    BY <2>1, <2>3, <2>5, <2>7 DEF Owes
  <2>. QED
    BY <2>4, <2>6, <2>7
<1>. QED
  BY <1>7, <1>8, <1>10, <1>11, <1>12, <1>15, <1>16

\* The outcome is announced by the one call that owed it.
LEMMA PublishStep ==
  ASSUME IInv, NEW w \in Worker, PublishOutcome(w)
  PROVE  IInv'
<1>. USE DEF IInv
<1>. DEFINE p == task[w].pay
            o == task[w].to
<1>1. /\ p \in Payment /\ o \in Outcome /\ Owes(w)
      /\ InLedger(p, o) /\ sent[p][o] = 0
  BY DEF PublishOutcome, TaskOK, At, TypeOK, Task, Owes, OwesOK
<1>2. /\ task' = [task EXCEPT ![w] = Idle]
      /\ UNCHANGED <<next, status, ride, ledger>>
      /\ sent' = [sent EXCEPT ![p][o] = @ + 1] \/ sent' = sent
  BY DEF PublishOutcome, Return, tables
<1>3. Idle \in Task /\ Idle.pc = "idle"
  BY DEF Idle, Task, Stage, Outcome
<1>4. CASE sent' = sent
  BY <1>2, <1>3, <1>4, QuietStep DEF tables
<1>5. CASE sent' = [sent EXCEPT ![p][o] = @ + 1]
  <2>1. /\ sent' \in [Payment -> [Outcome -> Nat]]
        /\ \A q \in Payment, u \in Outcome :
             sent'[q][u] = IF q = p /\ u = o THEN sent[q][u] + 1 ELSE sent[q][u]
    BY <1>1, <1>5, SentUpdate DEF TypeOK
  <2>2. /\ task' \in [Worker -> Task] /\ task'[w] = Idle
        /\ \A v \in Worker \ {w} : task'[v] = task[v]
    BY <1>2, <1>3 DEF TypeOK
  <2>3. TypeOK'
    BY <1>2, <2>1, <2>2 DEF TypeOK
  <2>4. LedgerIsAccount' /\ Fresh'
    BY <1>2 DEF LedgerIsAccount, Fresh
  <2>5. EventsMatchLedger'
    BY <1>1, <1>2, <2>1 DEF EventsMatchLedger, InLedger
  <2>6. TaskOK' /\ InsertUnique'
    BY <1>2, <1>3, <2>2 DEF TaskOK, InsertUnique, At
  <2>7. ASSUME NEW v \in Worker, Owes(v)'
        PROVE  /\ Owes(v) /\ task'[v] = task[v] /\ ~(task[v].pay = p /\ task[v].to = o)
               /\ task[v].pay \in Payment /\ task[v].to \in Outcome
    BY <1>1, <1>3, <2>2, <2>7 DEF Owes, OwesUnique, TaskOK, At, TypeOK, Task
  <2>8. OwesOK'
    <3>1. SUFFICES ASSUME NEW v \in Worker, Owes(v)'
                   PROVE  /\ InLedger(task[v].pay, task[v].to)'
                          /\ sent'[task[v].pay][task[v].to] = 0
      BY <2>7 DEF OwesOK, Owes, InLedger
    <3>2. /\ InLedger(task[v].pay, task[v].to) /\ sent[task[v].pay][task[v].to] = 0
          /\ task'[v] = task[v]
      BY <2>7, <3>1 DEF OwesOK
    <3>3. sent'[task[v].pay][task[v].to] = 0
      BY <2>1, <2>7, <3>1, <3>2
    <3>. QED
      BY <1>2, <3>2, <3>3 DEF InLedger
  <2>9. OwesUnique'
    BY <2>7 DEF OwesUnique, Owes
  <2>. QED
    BY <2>3, <2>4, <2>5, <2>6, <2>8, <2>9
<1>. QED
  BY <1>2, <1>4, <1>5

\* Every step keeps the invariant.
LEMMA NextIInv == IInv /\ [Next]_vars => IInv'
<1>. SUFFICES ASSUME IInv, [Next]_vars PROVE IInv'
  OBVIOUS
<1>1. /\ Idle \in Task /\ Idle.pc = "idle" /\ Idle.pay = 0 /\ Idle.auto = FALSE
      /\ \A w \in Worker : task[w] \in Task
  BY DEF IInv, TypeOK, Idle, Task, Stage, Outcome
<1>2. ASSUME NEW w \in Worker, Begin(w)
      PROVE  IInv'
  <2>1. ASSUME NEW r \in Ride, NEW auto \in BOOLEAN, Create(w, r, auto)
        PROVE  IInv'
    BY <2>1, CreateStep
  <2>2. ASSUME NEW p \in Payment, NEW o \in Outcome, Request(w, p, o)
        PROVE  IInv'
    <3>. DEFINE t == [Idle EXCEPT !.pc = "update", !.pay = p, !.to = o]
    <3>1. t \in Task /\ t.pc = "update" /\ t.pay = p
      BY DEF Idle, Task, Stage
    <3>. QED
      BY <2>2, <3>1, QuietStep DEF Request, Call
  <2>3. ASSUME NEW r \in Ride, GetByRide(w, r)
        PROVE  IInv'
    <3>1. PICK p \in Payment :
            Call(w, [Idle EXCEPT !.pc = "update", !.pay = p, !.to = "refunded",
                                 !.auto = TRUE])
      BY <2>3 DEF GetByRide, PaymentsOf
    <3>. DEFINE t == [Idle EXCEPT !.pc = "update", !.pay = p, !.to = "refunded",
                                  !.auto = TRUE]
    <3>2. t \in Task /\ t.pc = "update" /\ t.pay = p
      BY DEF Idle, Task, Stage, Outcome
    <3>. QED
      BY <2>3, <3>1, <3>2, QuietStep DEF GetByRide, Call
  <2>. QED
    BY <1>2, <2>1, <2>2, <2>3 DEF Begin
<1>3. ASSUME NEW w \in Worker, Return(w), UNCHANGED <<next, tables, sent>>
      PROVE  IInv'
  BY <1>1, <1>3, QuietStep DEF Return
<1>4. ASSUME NEW w \in Worker, Continue(w)
      PROVE  IInv'
  <2>1. CASE CreateWithEvent(w)
    BY <2>1, InsertStep
  <2>2. CASE PublishCreated(w)
    <3>. DEFINE t == [task[w] EXCEPT !.pc = "update"]
    <3>1. t \in Task /\ t.pc = "update" /\ t.pay = task[w].pay /\ t.pay \in Payment
      BY <1>1, <2>2 DEF PublishCreated, At, IInv, TaskOK, Task, Stage
    <3>2. CASE Goto(w, "update")
      BY <2>2, <3>1, <3>2, QuietStep DEF PublishCreated, Goto
    <3>. QED
      BY <1>3, <2>2, <3>2 DEF PublishCreated
  <2>3. CASE UpdateStatusWithEvent(w)
    BY <2>3, UpdateStep
  <2>4. CASE RefuseUpdate(w)
    BY <1>3, <2>4 DEF RefuseUpdate
  <2>5. CASE GetByID(w)
    <3>. DEFINE t == [task[w] EXCEPT !.pc = "pubOutcome"]
    <3>1. /\ t \in Task /\ t.pc = "pubOutcome" /\ t.pay = task[w].pay
          /\ t.to = task[w].to /\ t.pay \in Payment /\ Owes(w)
      BY <1>1, <2>5 DEF GetByID, At, IInv, TaskOK, Task, Stage, Owes
    <3>. QED
      BY <2>5, <3>1, QuietStep DEF GetByID, Goto
  <2>6. CASE PublishOutcome(w)
    BY <2>6, PublishStep
  <2>. QED
    BY <1>4, <2>1, <2>2, <2>3, <2>4, <2>5, <2>6 DEF Continue
<1>5. ASSUME NEW w \in Worker, QueryFails(w)
      PROVE  IInv'
  BY <1>3, <1>5 DEF QueryFails
<1>6. CASE Crash
  BY <1>1, <1>6
     DEF Crash, tables, IInv, TypeOK, LedgerIsAccount, EventsMatchLedger, InLedger,
         Fresh, TaskOK, InsertUnique, OwesOK, OwesUnique, Owes, At
<1>7. CASE UNCHANGED vars
  BY <1>7
     DEF vars, tables, IInv, TypeOK, LedgerIsAccount, EventsMatchLedger, InLedger,
         Fresh, TaskOK, InsertUnique, OwesOK, OwesUnique, Owes, At
<1>. QED
  BY <1>2, <1>4, <1>5, <1>6, <1>7 DEF Next
-----------------------------------------------------------------------------
\* The results.

\* The invariant holds in every reachable state.
LEMMA SpecIInv == Spec => []IInv
BY InitIInv, NextIInv, PTL DEF Spec

\* Every reachable state is well typed, with every fault.
THEOREM TypeCorrect == Spec => []TypeOK
BY SpecIInv, PTL DEF IInv

\* payment_events is the account of every payment, whichever requests and
\* callbacks race and wherever they are cut short.
THEOREM LedgerCorrect == Spec => []LedgerIsAccount
BY SpecIInv, PTL DEF IInv

\* A money event is published at most once, and only for what the ledger shows.
THEOREM EventsCorrect == Spec => []EventsMatchLedger
BY SpecIInv, PTL DEF IInv

\* No step of UpdateStatusWithEvent, or of any other handler, changes a refunded
\* payment or its ledger.
THEOREM RefundsStay == Spec => RefundIsFinal
<1>. DEFINE Frozen == \A p \in Payment : status[p] = "refunded" =>
                        status'[p] = "refunded" /\ ledger'[p] = ledger[p]
<1>1. ASSUME IInv, [Next]_vars PROVE [Frozen]_vars
  <2>1. CASE UNCHANGED <<status, ledger>>
    BY <2>1
  <2>2. ASSUME NEW w \in Worker, CreateWithEvent(w)
        PROVE  Frozen
    BY <1>1, <2>2 DEF CreateWithEvent, IInv, TaskOK, At, TypeOK
  <2>3. ASSUME NEW w \in Worker, UpdateStatusWithEvent(w)
        PROVE  Frozen
    BY <1>1, <2>3 DEF UpdateStatusWithEvent, CanTransition, IInv, TypeOK, TaskOK, At
  <2>. QED
    BY <1>1, <2>1, <2>2, <2>3
       DEF Next, Begin, Continue, Create, Request, GetByRide, PublishCreated,
           RefuseUpdate, GetByID, PublishOutcome, QueryFails, Crash, tables, vars
<1>. QED
  BY <1>1, SpecIInv, PTL DEF Spec, RefundIsFinal
=============================================================================
