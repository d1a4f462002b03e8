-------------------------- MODULE UserServiceProofs --------------------------
(***************************************************************************)
(* Theorems about UserService for any number of users, tokens and calls in *)
(* flight, whatever verifications and resends overlap, and any faults.     *)
(***************************************************************************)
EXTENDS UserService, TLAPS
-----------------------------------------------------------------------------
\* The inductive invariant.  A token is generated for one user and held by the
\* call that will store it; nobody can present it before.  What a call relies
\* on stays true while others run, because rows are never deleted, an email
\* stays verified and a token that is gone does not come back.

PendingStage == {"insert", "replace", "replaceWait", "replaceCommit"}
VerifyStage == {"verify", "verifyWait", "verifyCommit"}

\* What the task t of a call relies on.
Sound(t) ==
  /\ t \in Task
  /\ t.pc # "idle" => t.user \in User
  /\ t.pc \notin {"idle", "insert"} => Exists(t.user)
  /\ t.pc = "insert" => /\ ~Exists(t.user)
                      /\ t.row \in Account /\ ~t.row.verified
                      /\ t.event = "registered"
  /\ t.pc = "password" => t.row.password \in Password
  /\ t.pc \in PendingStage =>
       /\ t.token \in Token
       /\ owner[t.token] = t.user
       /\ accepted[t.token] = 0
       /\ \A u \in User : t.token \notin tokens[u]
  /\ t.pc \in VerifyStage => t.token \in Token /\ owner[t.token] = t.user
  /\ t.pc \in {"verifyWait", "verifyCommit"} =>
       t.token \in t.snapshot \/ t.token \notin tokens[t.user]
  /\ t.pc = "publish" /\ t.event = "email_verified" => account[t.user].verified

TaskOK == \A w \in Worker : Sound(task[w])

\* Two tasks disturb each other's tokens or row no more than this.
Distinct(s, t) ==
  /\ s.pc \in PendingStage /\ t.pc \in PendingStage \cup VerifyStage
       => s.token # t.token
  /\ s.pc = "insert" /\ t.pc = "insert" => s.user # t.user

Apart == \A v, w \in Worker : v # w => Distinct(task[v], task[w])

OwnerOK == \A u \in User : \A t \in tokens[u] : owner[t] = u /\ Exists(u)

Fresh == \A t \in Token : t >= next => owner[t] = None /\ accepted[t] = 0

IInv == /\ TypeOK /\ TaskOK /\ Apart /\ OwnerOK /\ Fresh
        /\ UnverifiedHasToken /\ VerifiedByOwnToken /\ AcceptedIsGone
        /\ LastDecisionStands
-----------------------------------------------------------------------------
\* The idle task is well-formed.
LEMMA IdleTask == Idle \in Task /\ NoRow \in Row /\ Idle.pc = "idle" /\ Idle.row = NoRow
<1>1. NoRow \in Row
  BY RoleAssumption DEF NoRow, Row
<1>. QED
  BY <1>1 DEF Idle, Task, Stage, Event

LEMMA InitIInv == Init => IInv
<1>. SUFFICES ASSUME Init PROVE IInv
  OBVIOUS
<1>1. TypeOK
  BY BoundAssumption, IdleTask DEF Init, TypeOK, Token
<1>2. TaskOK /\ Apart
  BY IdleTask DEF Init, TaskOK, Apart, Sound, Distinct, PendingStage, VerifyStage
<1>. QED
  BY <1>1, <1>2, RoleAssumption
     DEF Init, IInv, OwnerOK, Fresh, UnverifiedHasToken, VerifiedByOwnToken,
         AcceptedIsGone, LastDecisionStands, Exists, NoRow
-----------------------------------------------------------------------------
\* Steps.

\* The step may give the call of w the task t.
Fits(w, t) ==
  \A v \in Worker \ {w} : Distinct(t, task[v]) /\ Distinct(task[v], t)

\* Only the task of one call changes.
LEMMA MoveTask ==
  ASSUME TypeOK, Apart, NEW w \in Worker, NEW t \in Task, Fits(w, t),
         task' = [task EXCEPT ![w] = t]
  PROVE  /\ task' \in [Worker -> Task]
         /\ task'[w] = t
         /\ \A v \in Worker \ {w} : task'[v] = task[v]
         /\ Apart'
<1>1. /\ task' \in [Worker -> Task]
      /\ task'[w] = t
      /\ \A v \in Worker \ {w} : task'[v] = task[v]
  BY DEF TypeOK
<1>2. ASSUME NEW u \in Worker, NEW v \in Worker, u # v
      PROVE  Distinct(task[u], task[v])'
  BY <1>1, <1>2 DEF Apart, Fits, Distinct
<1>. QED
  BY <1>1, <1>2 DEF Apart

\* A step that gives a call a sound task and writes nothing else.
LEMMA QuietStep ==
  ASSUME IInv, NEW w \in Worker, NEW t, Sound(t), Fits(w, t),
         task' = [task EXCEPT ![w] = t],
         UNCHANGED <<next, account, tokens, history, events>>
  PROVE  IInv'
<1>. USE DEF IInv
<1>. UNCHANGED <<owner, decided, accepted>>
  BY DEF history
<1>1. /\ task' \in [Worker -> Task]
      /\ task'[w] = t
      /\ \A v \in Worker \ {w} : task'[v] = task[v]
      /\ Apart'
  BY MoveTask DEF Sound
<1>2. TypeOK'
  BY <1>1 DEF TypeOK
<1>3. ASSUME NEW v \in Worker
      PROVE  Sound(task[v])'
  <2>1. PICK u : Sound(u) /\ task'[v] = u
    BY <1>1 DEF TaskOK
  <2>. QED
    BY <2>1 DEF Sound, Exists
<1>4. TaskOK'
  BY <1>3 DEF TaskOK
<1>5. OwnerOK' /\ Fresh'
  BY DEF OwnerOK, Fresh, Exists
<1>6. UnverifiedHasToken' /\ VerifiedByOwnToken' /\ AcceptedIsGone' /\ LastDecisionStands'
  BY DEF UnverifiedHasToken, VerifiedByOwnToken, AcceptedIsGone, LastDecisionStands, Exists
<1>. QED
  BY <1>1, <1>2, <1>4, <1>5, <1>6

\* The same for a call that keeps its user and what it holds, or holds no token
\* any more.
LEMMA FitsAfter ==
  ASSUME IInv, NEW w \in Worker, NEW t,
         t.pc \in PendingStage => /\ task[w].pc \in PendingStage
                                  /\ t.token = task[w].token,
         t.pc \in VerifyStage => /\ task[w].pc \in VerifyStage
                                 /\ t.token = task[w].token,
         t.pc # "insert"
  PROVE  Fits(w, t)
BY DEF IInv, Fits, Apart, Distinct

LEMMA IdleFits ==
  ASSUME NEW w \in Worker PROVE Fits(w, Idle)
BY IdleTask DEF Fits, Distinct, PendingStage, VerifyStage

LEMMA IdleSound == Sound(Idle)
BY IdleTask DEF Sound, PendingStage, VerifyStage

\* A stored row is not NoRow.
LEMMA AccountExists == NoRow \notin Account
BY NoneAssumption DEF NoRow, Account

\* A token is generated: no call and no table knows it yet.
LEMMA GenerateStep ==
  ASSUME IInv, NEW w \in Worker, NEW u \in User, NEW t \in Task, Generate(u),
         t.user = u, t.token = next, t.pc \in {"insert", "replace"},
         t.pc = "replace" => Exists(u),
         t.pc = "insert" => /\ ~Exists(u) /\ \A v \in Worker : task[v].user # u
                            /\ t.row \in Account /\ ~t.row.verified
                            /\ t.event = "registered",
         task' = [task EXCEPT ![w] = t],
         UNCHANGED <<account, tokens, decided, accepted, events>>
  PROVE  IInv'
<1>. USE DEF IInv
<1>1. /\ next \in Token /\ next' = next + 1 /\ next' \in 1 .. MaxTokens + 1
      /\ owner' = [owner EXCEPT ![next] = u]
  BY BoundAssumption DEF Generate, TypeOK, Token
<1>2. /\ accepted[next] = 0
      /\ owner[next] = None
      /\ \A v \in User : next \notin tokens[v]
  BY <1>1, NoneAssumption DEF Fresh, OwnerOK, TypeOK, Token
<1>3. ASSUME NEW v \in Worker, task[v].pc \in PendingStage \cup VerifyStage
      PROVE  task[v].token # next
  BY <1>2, <1>3, NoneAssumption DEF TaskOK, Sound, PendingStage, VerifyStage
<1>4. Fits(w, t)
  BY <1>3 DEF Fits, Distinct, PendingStage, VerifyStage
<1>5. /\ task' \in [Worker -> Task]
      /\ task'[w] = t
      /\ \A v \in Worker \ {w} : task'[v] = task[v]
      /\ Apart'
  BY <1>4, MoveTask
<1>6. TypeOK'
  BY <1>1, <1>5 DEF TypeOK
<1>7. ASSUME NEW v \in Worker, v # w
      PROVE  Sound(task[v])'
  <2>1. Sound(task[v]) /\ task'[v] = task[v]
    BY <1>5, <1>7 DEF TaskOK
  <2>2. task[v].pc \in PendingStage \cup VerifyStage =>
          owner'[task[v].token] = owner[task[v].token]
    BY <1>1, <1>3, <2>1 DEF TypeOK, Sound
  <2>3. Exists(task[v].user)' <=> Exists(task[v].user)
    BY <2>1 DEF Exists
  <2>. QED
    BY <2>1, <2>2, <2>3 DEF Sound, PendingStage, VerifyStage
<1>8. Sound(task[w])'
  BY <1>1, <1>2, <1>5 DEF Sound, Exists, PendingStage, VerifyStage, TypeOK
<1>9. TaskOK'
  BY <1>7, <1>8 DEF TaskOK
<1>10. OwnerOK'
  BY <1>1, <1>2 DEF OwnerOK, TypeOK, Exists
<1>11. Fresh'
  BY <1>1 DEF Fresh, TypeOK, Token
<1>12. VerifiedByOwnToken'
  BY <1>1, <1>2, NoneAssumption DEF VerifiedByOwnToken, TypeOK
<1>13. UnverifiedHasToken' /\ AcceptedIsGone' /\ LastDecisionStands'
  BY DEF UnverifiedHasToken, AcceptedIsGone, LastDecisionStands, Exists
<1>. QED
  BY <1>5, <1>6, <1>9, <1>10, <1>11, <1>12, <1>13

\* A user is stored with its first token.
LEMMA InsertStep ==
  ASSUME IInv, NEW w \in Worker, At(w, "insert"), Insert(w), NEW t \in Task,
         t.pc \in {"idle", "publish"},
         t.pc = "publish" => t.user = task[w].user /\ t.event = "registered",
         task' = [task EXCEPT ![w] = t],
         UNCHANGED <<next, owner, accepted, events>>
  PROVE  IInv'
<1>. USE DEF IInv
<1>0. PICK u, row, k : u = task[w].user /\ row = task[w].row /\ k = task[w].token
  OBVIOUS
<1>1. /\ account' = [account EXCEPT ![u] = row]
      /\ tokens' = [tokens EXCEPT ![u] = {k}]
      /\ decided' = [decided EXCEPT ![u] = row]
  BY <1>0 DEF Insert
<1>2. /\ u \in User /\ row \in Account /\ k \in Token
      /\ ~Exists(u) /\ ~row.verified
      /\ owner[k] = u /\ accepted[k] = 0
      /\ \A v \in User : k \notin tokens[v]
  BY <1>0 DEF At, TaskOK, Sound, PendingStage
<1>3. row # NoRow /\ Exists(u)'
  BY <1>1, <1>2, AccountExists DEF Exists, TypeOK
<1>4. ASSUME NEW v \in Worker, v # w
      PROVE  /\ task[v].pc = "insert" => task[v].user # u
             /\ task[v].pc \in PendingStage \cup VerifyStage => task[v].token # k
  BY <1>0, <1>4 DEF At, Apart, Distinct, PendingStage
<1>5. /\ task' \in [Worker -> Task]
      /\ task'[w] = t
      /\ \A v \in Worker \ {w} : task'[v] = task[v]
      /\ Apart'
  <2>1. Fits(w, t)
    BY DEF Fits, Distinct, PendingStage, VerifyStage
  <2>. QED
    BY <2>1, MoveTask
<1>6. TypeOK'
  BY <1>1, <1>2, <1>5 DEF TypeOK
<1>7. \A x \in User : /\ Exists(x)' <=> Exists(x) \/ x = u
                      /\ x # u => account'[x] = account[x] /\ tokens'[x] = tokens[x]
  BY <1>1, <1>3 DEF Exists, TypeOK
<1>8. account'[u] = row /\ tokens'[u] = {k} /\ ~account[u].verified
  BY <1>1, <1>2 DEF TypeOK, Exists, NoRow
<1>9. ASSUME NEW v \in Worker, v # w
      PROVE  Sound(task[v])'
  <2>1. Sound(task[v]) /\ task'[v] = task[v]
    BY <1>5, <1>9 DEF TaskOK
  <2>2. task[v].pc # "idle" => task[v].user \in User
    BY <2>1 DEF Sound
  <2>3. task[v].pc = "insert" => ~Exists(task[v].user)'
    BY <2>1, <2>2, <1>4, <1>7, <1>9 DEF Sound
  <2>4. task[v].pc \in PendingStage =>
          \A x \in User : task[v].token \notin tokens'[x]
    BY <2>1, <1>4, <1>7, <1>8, <1>9 DEF Sound
  <2>5. task[v].pc \in {"verifyWait", "verifyCommit"} =>
          task[v].token \in task[v].snapshot \/ task[v].token \notin tokens'[task[v].user]
    BY <2>1, <2>2, <1>4, <1>7, <1>8, <1>9 DEF Sound, VerifyStage
  <2>6. task[v].pc = "publish" /\ task[v].event = "email_verified" =>
          account'[task[v].user].verified
    BY <2>1, <2>2, <1>7, <1>8 DEF Sound
  <2>7. task[v].pc \notin {"idle", "insert"} => Exists(task[v].user)'
    BY <2>1, <2>2, <1>7 DEF Sound
  <2>. QED
    BY <2>1, <2>3, <2>4, <2>5, <2>6, <2>7 DEF Sound
<1>10. Sound(task[w])'
  BY <1>0, <1>2, <1>3, <1>5 DEF Sound, PendingStage, VerifyStage
<1>11. TaskOK'
  BY <1>9, <1>10 DEF TaskOK
<1>12. OwnerOK' /\ Fresh' /\ AcceptedIsGone' /\ UnverifiedHasToken'
  BY <1>2, <1>7, <1>8 DEF OwnerOK, Fresh, AcceptedIsGone, UnverifiedHasToken
<1>13. VerifiedByOwnToken'
  BY <1>2, <1>7, <1>8 DEF VerifiedByOwnToken
<1>14. LastDecisionStands'
  BY <1>1, <1>2 DEF LastDecisionStands, TypeOK
<1>. QED
  BY <1>5, <1>6, <1>11, <1>12, <1>13, <1>14

\* A step that ends calls, publishes an event that is true or writes a role or
\* a password, and nothing else.
LEMMA DropStep ==
  ASSUME IInv, task' \in [Worker -> Task],
         \A v \in Worker : task'[v] = task[v] \/ task'[v] = Idle,
         account' \in [User -> Account \cup {NoRow}],
         decided' \in [User -> Account \cup {NoRow}],
         events' \in [User -> SUBSET Event],
         \A u \in User : /\ Exists(u)' <=> Exists(u)
                         /\ account'[u].verified = account[u].verified
                         /\ account'[u].role = decided'[u].role
                         /\ account'[u].password = decided'[u].password
                         /\ "email_verified" \in events'[u] => account[u].verified,
         UNCHANGED <<next, tokens, owner, accepted>>
  PROVE  IInv'
<1>. USE DEF IInv
<1>1. TypeOK'
  BY DEF TypeOK
<1>2. ASSUME NEW v \in Worker
      PROVE  Sound(task[v])'
  <2>1. CASE task'[v] = task[v]
    <3>1. Sound(task[v]) /\ (task[v].pc # "idle" => task[v].user \in User)
      BY DEF TaskOK, Sound
    <3>. QED
      BY <2>1, <3>1 DEF Sound, PendingStage, VerifyStage
  <2>2. CASE task'[v] = Idle
    BY <2>2, IdleTask DEF Sound, PendingStage, VerifyStage
  <2>. QED
    BY <2>1, <2>2
<1>3. TaskOK'
  BY <1>2 DEF TaskOK
<1>4. ASSUME NEW v \in Worker, NEW w \in Worker, v # w
      PROVE  Distinct(task[v], task[w])'
  BY <1>4, IdleTask DEF Apart, Distinct, PendingStage, VerifyStage
<1>5. Apart'
  BY <1>4 DEF Apart
<1>6. OwnerOK' /\ Fresh' /\ AcceptedIsGone'
  BY DEF OwnerOK, Fresh, AcceptedIsGone
<1>7. UnverifiedHasToken' /\ VerifiedByOwnToken' /\ LastDecisionStands'
  BY DEF UnverifiedHasToken, VerifiedByOwnToken, LastDecisionStands
<1>. QED
  BY <1>1, <1>3, <1>5, <1>6, <1>7

\* An email is verified: the token is of the user, and gone if it was not
\* among those deleted.
LEMMA VerifiedStep ==
  ASSUME IInv, NEW w \in Worker, At(w, "verifyCommit"), Verified(w), NEW t \in Task,
         t.pc \in {"idle", "publish"},
         t.pc = "publish" => t.user = task[w].user,
         task' = [task EXCEPT ![w] = t],
         UNCHANGED <<next, owner, decided, events>>
  PROVE  IInv'
<1>. USE DEF IInv
<1>0. PICK u, k, S : u = task[w].user /\ k = task[w].token /\ S = task[w].snapshot
  OBVIOUS
<1>1. /\ account' = [account EXCEPT ![u].verified = TRUE]
      /\ tokens' = [tokens EXCEPT ![u] = @ \ S]
      /\ accepted' = [accepted EXCEPT ![k] = @ + 1]
  BY <1>0 DEF Verified
<1>2. /\ u \in User /\ Exists(u) /\ k \in Token /\ owner[k] = u
      /\ k \in S \/ k \notin tokens[u]
  BY <1>0 DEF At, TaskOK, Sound, VerifyStage
<1>3. account[u] \in Account
  BY <1>2 DEF TypeOK, Exists
<1>4. /\ account'[u] = [account[u] EXCEPT !.verified = TRUE]
      /\ \A x \in User \ {u} : account'[x] = account[x]
      /\ account' \in [User -> Account \cup {NoRow}]
  <2>1. [account[u] EXCEPT !.verified = TRUE] \in Account
    BY <1>3 DEF Account
  <2>. QED
    BY <1>1, <1>2, <2>1 DEF TypeOK
<1>5. \A x \in User : /\ Exists(x)' <=> Exists(x)
                      /\ account'[x].role = account[x].role
                      /\ account'[x].password = account[x].password
                      /\ account'[x].verified <=> account[x].verified \/ x = u
  <2>1. account'[u] \in Account /\ account'[u].verified
        /\ account'[u].role = account[u].role
        /\ account'[u].password = account[u].password
    BY <1>3, <1>4 DEF Account
  <2>. QED
    BY <1>2, <1>4, <2>1, AccountExists DEF Exists
<1>6. /\ tokens' \in [User -> SUBSET Token]
      /\ \A x \in User : tokens'[x] = IF x = u THEN tokens[u] \ S ELSE tokens[x]
      /\ accepted' \in [Token -> Nat] /\ accepted'[k] > 0
      /\ \A l \in Token \ {k} : accepted'[l] = accepted[l]
  BY <1>1, <1>2 DEF TypeOK
<1>7. /\ task' \in [Worker -> Task]
      /\ task'[w] = t
      /\ \A v \in Worker \ {w} : task'[v] = task[v]
      /\ Apart'
  <2>1. Fits(w, t)
    BY DEF Fits, Distinct, PendingStage, VerifyStage
  <2>. QED
    BY <2>1, MoveTask
<1>8. TypeOK'
  BY <1>4, <1>6, <1>7 DEF TypeOK
<1>9. ASSUME NEW v \in Worker, v # w
      PROVE  Sound(task[v])'
  <2>1. Sound(task[v]) /\ task'[v] = task[v]
    BY <1>7, <1>9 DEF TaskOK
  <2>2. task[v].pc # "idle" => task[v].user \in User
    BY <2>1 DEF Sound
  <2>3. task[v].pc \in PendingStage => task[v].token # k
    BY <1>0, <1>9 DEF At, Apart, Distinct, VerifyStage
  <2>4. task[v].pc \in PendingStage =>
          /\ accepted'[task[v].token] = 0
          /\ \A x \in User : task[v].token \notin tokens'[x]
    BY <2>1, <2>3, <1>6 DEF Sound
  <2>5. task[v].pc \in {"verifyWait", "verifyCommit"} =>
          task[v].token \in task[v].snapshot \/ task[v].token \notin tokens'[task[v].user]
    BY <2>1, <2>2, <1>6 DEF Sound
  <2>6. task[v].pc # "idle" => /\ Exists(task[v].user)' <=> Exists(task[v].user)
                               /\ account[task[v].user].verified =>
                                    account'[task[v].user].verified
    <3>. PICK x : x = task[v].user
      OBVIOUS
    <3>1. x \in User => /\ account'[x] # NoRow <=> account[x] # NoRow
                        /\ account[x].verified => account'[x].verified
      BY <1>5 DEF Exists
    <3>. QED
      BY <2>1, <2>2, <3>1 DEF Exists
  <2>. QED
    BY <2>1, <2>4, <2>5, <2>6 DEF Sound
<1>10. Sound(task[w])'
  <2>1. account'[u] # NoRow /\ account'[u].verified
    BY <1>2, <1>5 DEF Exists
  <2>. QED
    BY <1>0, <1>2, <1>7, <2>1 DEF Sound, Exists, PendingStage, VerifyStage
<1>11. TaskOK'
  BY <1>9, <1>10 DEF TaskOK
<1>12. OwnerOK' /\ AcceptedIsGone'
  BY <1>2, <1>5, <1>6 DEF OwnerOK, AcceptedIsGone, TypeOK
<1>13. Fresh'
  BY <1>2, <1>6, NoneAssumption DEF Fresh
<1>14. UnverifiedHasToken' /\ LastDecisionStands'
  BY <1>5, <1>6 DEF UnverifiedHasToken, LastDecisionStands
<1>15. VerifiedByOwnToken'
  BY <1>2, <1>5, <1>6 DEF VerifiedByOwnToken
<1>. QED
  BY <1>7, <1>8, <1>11, <1>12, <1>13, <1>14, <1>15

\* A new token is stored in the place of those deleted.
LEMMA ReplacedStep ==
  ASSUME IInv, NEW w \in Worker, At(w, "replaceCommit"), Replaced(w), Return(w),
         UNCHANGED <<next, account, history, events>>
  PROVE  IInv'
<1>. USE DEF IInv
<1>. UNCHANGED <<owner, decided, accepted>>
  BY DEF history
<1>0. PICK u, k, S : u = task[w].user /\ k = task[w].token /\ S = task[w].snapshot
  OBVIOUS
<1>1. /\ u \in User /\ k \in Token /\ owner[k] = u /\ accepted[k] = 0 /\ Exists(u)
  BY <1>0 DEF At, TaskOK, Sound, PendingStage
<1>2. /\ tokens' \in [User -> SUBSET Token]
      /\ \A x \in User : tokens'[x] = IF x = u THEN (tokens[u] \ S) \cup {k} ELSE tokens[x]
  BY <1>0, <1>1 DEF Replaced, TypeOK
<1>3. /\ task' \in [Worker -> Task]
      /\ task'[w] = Idle
      /\ \A v \in Worker \ {w} : task'[v] = task[v]
      /\ Apart'
  BY IdleTask, IdleFits, MoveTask DEF Return
<1>4. TypeOK'
  BY <1>2, <1>3 DEF TypeOK
<1>5. ASSUME NEW v \in Worker, v # w
      PROVE  Sound(task[v])'
  <2>1. Sound(task[v]) /\ task'[v] = task[v]
    BY <1>3, <1>5 DEF TaskOK
  <2>2. task[v].pc # "idle" => task[v].user \in User
    BY <2>1 DEF Sound
  <2>3. task[v].pc \in PendingStage \cup VerifyStage => task[v].token # k
    BY <1>0, <1>5 DEF At, Apart, Distinct, PendingStage
  <2>4. task[v].pc \in PendingStage =>
          \A x \in User : task[v].token \notin tokens'[x]
    BY <2>1, <2>3, <1>2 DEF Sound
  <2>5. task[v].pc \in {"verifyWait", "verifyCommit"} =>
          task[v].token \in task[v].snapshot \/ task[v].token \notin tokens'[task[v].user]
    BY <2>1, <2>2, <2>3, <1>2 DEF Sound, VerifyStage
  <2>. QED
    BY <2>1, <2>4, <2>5 DEF Sound, Exists
<1>6. TaskOK'
  BY <1>3, <1>5, IdleTask DEF TaskOK, Sound, PendingStage, VerifyStage
<1>7. OwnerOK' /\ AcceptedIsGone' /\ UnverifiedHasToken'
  BY <1>1, <1>2 DEF OwnerOK, AcceptedIsGone, UnverifiedHasToken, Exists
<1>8. Fresh' /\ VerifiedByOwnToken' /\ LastDecisionStands'
  BY DEF Fresh, VerifiedByOwnToken, LastDecisionStands
<1>. QED
  BY <1>3, <1>4, <1>6, <1>7, <1>8

\* A call ends without having written anything.
LEMMA ReturnStep ==
  ASSUME IInv, NEW w \in Worker, Return(w),
         UNCHANGED <<next, account, tokens, history, events>>
  PROVE  IInv'
BY IdleSound, IdleFits, QuietStep DEF Return

\* What a call reads is a row.
LEMMA RowFacts ==
  /\ Account \subseteq Row
  /\ Account \cup {NoRow} \subseteq Row
  /\ \A p \in Password : [NoRow EXCEPT !.password = p] \in Row
BY IdleTask DEF Account, Row, NoRow
-----------------------------------------------------------------------------
\* The calls that begin.
LEMMA BeginIInv ==
  ASSUME IInv, NEW w \in Worker, Begin(w)
  PROVE  IInv'
<1>. USE DEF IInv
<1>1. ASSUME NEW u \in User, NEW e \in Email, NEW p \in Password,
             NEW r \in Role \ {"inactive"}, Register(w, u, e, p, r)
      PROVE  IInv'
  <2>. DEFINE row == [email |-> e, role |-> r, password |-> p, verified |-> FALSE]
              t == [Idle EXCEPT !.pc = "insert", !.user = u, !.token = next, !.row = row]
  <2>1. row \in Account /\ ~row.verified
    BY DEF Account
  <2>2. next \in Token
    BY <1>1 DEF Register, Generate, TypeOK, Token
  <2>3. /\ t \in Task /\ t.user = u /\ t.token = next /\ t.pc = "insert"
        /\ t.row = row /\ t.event = "registered"
    <3>. HIDE DEF row
    <3>. QED
      BY <2>1, <2>2, IdleTask, RowFacts DEF Task, Stage, Idle
  <2>4. /\ task' = [task EXCEPT ![w] = t] /\ Generate(u)
        /\ ~Exists(u) /\ \A v \in Worker : task[v].user # u
        /\ UNCHANGED <<account, tokens, decided, accepted, events>>
    BY <1>1 DEF Register, Call
  <2>. HIDE DEF t, row
  <2>. QED
    BY <2>1, <2>3, <2>4, GenerateStep
<1>2. ASSUME NEW u \in User, UpdateProfile(w, u)
      PROVE  IInv'
  <2>. DEFINE t == [Idle EXCEPT !.pc = "profile", !.user = u, !.row = account[u]]
  <2>1. t \in Task /\ t.pc = "profile" /\ t.user = u
    BY IdleTask, RowFacts DEF TypeOK, Task, Stage, Idle
  <2>2. /\ task' = [task EXCEPT ![w] = t] /\ Exists(u)
        /\ UNCHANGED <<next, account, tokens, history, events>>
    BY <1>2 DEF UpdateProfile, Call
  <2>. HIDE DEF t
  <2>3. Sound(t) /\ Fits(w, t)
    BY <2>1, <2>2, FitsAfter DEF Sound, PendingStage, VerifyStage
  <2>. QED
    BY <2>2, <2>3, QuietStep
<1>3. ASSUME NEW u \in User, NEW new \in Password, Exists(u),
             Call(w, [Idle EXCEPT !.pc = "password", !.user = u,
                                  !.row = [NoRow EXCEPT !.password = new]]),
             UNCHANGED <<next, account, tokens, history, events>>
      PROVE  IInv'
  <2>. DEFINE row == [NoRow EXCEPT !.password = new]
              t == [Idle EXCEPT !.pc = "password", !.user = u, !.row = row]
  <2>1. row \in Row /\ row.password = new
    BY RowFacts DEF NoRow
  <2>2. t \in Task /\ t.pc = "password" /\ t.user = u /\ t.row = row
    <3>. HIDE DEF row
    <3>. QED
      BY <2>1, IdleTask DEF Task, Stage, Idle
  <2>3. task' = [task EXCEPT ![w] = t]
    BY <1>3 DEF Call
  <2>. HIDE DEF t, row
  <2>4. Sound(t) /\ Fits(w, t)
    BY <1>3, <2>1, <2>2, FitsAfter DEF Sound, PendingStage, VerifyStage
  <2>. QED
    BY <1>3, <2>3, <2>4, QuietStep
<1>4. ASSUME NEW u \in User, NEW k \in Token, VerifyEmail(w, u, k)
      PROVE  IInv'
  <2>. DEFINE t == [Idle EXCEPT !.pc = "verify", !.user = u, !.token = k]
  <2>1. t \in Task /\ t.pc = "verify" /\ t.user = u /\ t.token = k
    BY IdleTask DEF Task, Stage, Idle
  <2>2. /\ task' = [task EXCEPT ![w] = t] /\ k \in tokens[u]
        /\ UNCHANGED <<next, account, tokens, history, events>>
    BY <1>4 DEF VerifyEmail, Call
  <2>. HIDE DEF t
  <2>3. owner[k] = u /\ Exists(u)
    BY <2>2 DEF OwnerOK
  <2>4. Sound(t)
    BY <2>1, <2>3 DEF Sound, PendingStage, VerifyStage
  <2>5. Fits(w, t)
    BY <2>1, <2>2 DEF Fits, Distinct, TaskOK, Sound, PendingStage, VerifyStage
  <2>. QED
    BY <2>2, <2>4, <2>5, QuietStep
<1>5. ASSUME NEW u \in User, ResendVerification(w, u)
      PROVE  IInv'
  <2>. DEFINE t == [Idle EXCEPT !.pc = "replace", !.user = u, !.token = next]
  <2>1. next \in Token
    BY <1>5 DEF ResendVerification, Generate, TypeOK, Token
  <2>2. t \in Task /\ t.user = u /\ t.token = next /\ t.pc = "replace"
    BY <2>1, IdleTask DEF Task, Stage, Idle
  <2>3. /\ task' = [task EXCEPT ![w] = t] /\ Generate(u) /\ Exists(u)
        /\ UNCHANGED <<account, tokens, decided, accepted, events>>
    BY <1>5 DEF ResendVerification, Call
  <2>. HIDE DEF t
  <2>. QED
    BY <2>2, <2>3, GenerateStep
<1>. QED
  BY <1>1, <1>2, <1>3, <1>4, <1>5 DEF Begin, ChangePassword, ResetPassword
-----------------------------------------------------------------------------
\* A call that goes on to another stage of the same transaction.
LEMMA StageStep ==
  ASSUME IInv, NEW w \in Worker, NEW t, Sound(t),
         \/ task[w].pc \in PendingStage /\ t.pc \in PendingStage
         \/ task[w].pc \in VerifyStage /\ t.pc \in VerifyStage,
         t.pc # "insert", t.token = task[w].token,
         task' = [task EXCEPT ![w] = t],
         UNCHANGED <<next, account, tokens, history, events>>
  PROVE  IInv'
<1>1. Fits(w, t)
  BY FitsAfter DEF PendingStage, VerifyStage
<1>. QED
  BY <1>1, QuietStep

\* A role or a password is given to a user, in account and decided alike.
LEMMA GiveStep ==
  ASSUME IInv, NEW u \in User, Exists(u), NEW role \in Role, NEW password \in Password,
         NEW a, a = [account[u] EXCEPT !.role = role, !.password = password],
         NEW d, d = [decided[u] EXCEPT !.role = role, !.password = password],
         account' = [account EXCEPT ![u] = a],
         decided' = [decided EXCEPT ![u] = d],
         task' \in [Worker -> Task],
         \A v \in Worker : task'[v] = task[v] \/ task'[v] = Idle,
         UNCHANGED <<next, tokens, owner, accepted, events>>
  PROVE  IInv'
<1>. USE DEF IInv
<1>1. account[u] \in Account
  BY DEF TypeOK, Exists
<1>2. decided[u] \in Account
  BY <1>1, NoneAssumption DEF LastDecisionStands, TypeOK, NoRow, Account
<1>3. /\ a \in Account /\ a.role = role /\ a.password = password
      /\ a.verified = account[u].verified
      /\ d \in Account /\ d.role = role /\ d.password = password
  BY <1>1, <1>2 DEF Account
<1>4. /\ account' \in [User -> Account \cup {NoRow}] /\ account'[u] = a
      /\ decided' \in [User -> Account \cup {NoRow}] /\ decided'[u] = d
      /\ \A x \in User \ {u} : account'[x] = account[x] /\ decided'[x] = decided[x]
      /\ events' \in [User -> SUBSET Event]
  BY <1>3 DEF TypeOK
<1>5. ASSUME NEW x \in User
      PROVE  /\ Exists(x)' <=> Exists(x)
             /\ account'[x].verified = account[x].verified
             /\ account'[x].role = decided'[x].role
             /\ account'[x].password = decided'[x].password
             /\ "email_verified" \in events'[x] => account[x].verified
  <2>1. CASE x = u
    BY <1>3, <1>4, <2>1, AccountExists DEF Exists, VerifiedByOwnToken
  <2>2. CASE x # u
    BY <1>4, <2>2 DEF Exists, LastDecisionStands, VerifiedByOwnToken
  <2>. QED
    BY <2>1, <2>2
<1>. QED
  BY <1>4, <1>5, DropStep

\* A call goes on or ends.
LEMMA ContinueIInv ==
  ASSUME IInv, NEW w \in Worker, Continue(w)
  PROVE  IInv'
<1>. USE DEF IInv
<1>0. PICK t0 \in Task : t0 = task[w] /\ Sound(t0)
  BY DEF TypeOK, TaskOK
<1>1. CASE CreateWithVerification(w)
  <2>1. CASE EmailTaken(task[w].row.email)
    BY <1>1, <2>1, ReturnStep DEF CreateWithVerification, history
  <2>2. CASE ~EmailTaken(task[w].row.email)
    <3>. DEFINE t == [t0 EXCEPT !.pc = "publish"]
    <3>1. /\ At(w, "insert") /\ Insert(w)
          /\ task' = [task EXCEPT ![w] = t]
          /\ UNCHANGED <<next, owner, accepted, events>>
      BY <1>0, <1>1, <2>2 DEF CreateWithVerification, Goto
    <3>2. t \in Task /\ t.pc = "publish" /\ t.user = task[w].user /\ t.event = "registered"
      BY <1>0, <3>1 DEF Task, Stage, At, Sound
    <3>. HIDE DEF t
    <3>. QED
      BY <3>1, <3>2, InsertStep
  <2>. QED
    BY <2>1, <2>2
<1>2. CASE Update(w)
  BY <1>2, ReturnStep DEF Update
<1>3. CASE UpdatePassword(w)
  <2>1. PICK u, new : u = task[w].user /\ new = task[w].row.password
    OBVIOUS
  <2>2. u \in User /\ Exists(u) /\ new \in Password
    BY <1>0, <1>3, <2>1 DEF UpdatePassword, At, Sound
  <2>3. account[u] \in Account /\ account[u].role \in Role
    BY <2>2 DEF TypeOK, Exists, Account
  <2>4. decided[u] \in Account /\ decided[u].role = account[u].role
    BY <2>2, <2>3, NoneAssumption DEF LastDecisionStands, TypeOK, NoRow, Account
  <2>5. PICK a, d :
          /\ a = [account[u] EXCEPT !.role = account[u].role, !.password = new]
          /\ d = [decided[u] EXCEPT !.role = account[u].role, !.password = new]
    OBVIOUS
  <2>6. a = [account[u] EXCEPT !.password = new] /\ d = [decided[u] EXCEPT !.password = new]
    BY <2>3, <2>4, <2>5 DEF Account
  <2>7. /\ account' = [account EXCEPT ![u] = a]
        /\ decided' = [decided EXCEPT ![u] = d]
        /\ task' = [task EXCEPT ![w] = Idle]
        /\ UNCHANGED <<next, tokens, owner, accepted, events>>
    BY <1>3, <2>1, <2>6 DEF UpdatePassword, Return
  <2>8. /\ task' \in [Worker -> Task]
        /\ \A v \in Worker : task'[v] = task[v] \/ task'[v] = Idle
    BY <2>7, IdleTask DEF TypeOK
  <2>. QED
    BY <2>2, <2>3, <2>5, <2>7, <2>8, GiveStep
<1>4. CASE VerifyDelete(w)
  <2>. DEFINE S == tokens[task[w].user]
              t == [t0 EXCEPT !.snapshot = S,
                              !.pc = IF TokenLocked(w, S) THEN "verifyWait" ELSE "verifyCommit"]
  <2>1. /\ t0.pc = "verify" /\ task' = [task EXCEPT ![w] = t]
        /\ UNCHANGED <<next, account, tokens, history, events>>
    BY <1>0, <1>4 DEF VerifyDelete, DeleteTokens, At
  <2>2. /\ t \in Task /\ t.pc \in {"verifyWait", "verifyCommit"}
        /\ t.user = t0.user /\ t.token = t0.token /\ t.snapshot = tokens[t0.user]
    BY <1>0, <2>1 DEF Task, Stage, Sound, TypeOK
  <2>. HIDE DEF t, S
  <2>3. Sound(t)
    BY <1>0, <2>1, <2>2 DEF Sound, PendingStage, VerifyStage
  <2>. QED
    BY <1>0, <2>1, <2>2, <2>3, StageStep DEF VerifyStage
<1>5. CASE VerifyCommit(w)
  <2>. DEFINE t == [t0 EXCEPT !.pc = "publish", !.event = "email_verified"]
  <2>1. /\ At(w, "verifyCommit") /\ Verified(w)
        /\ task' = [task EXCEPT ![w] = t]
        /\ UNCHANGED <<next, owner, decided, events>>
    BY <1>0, <1>5 DEF VerifyCommit
  <2>2. t \in Task /\ t.pc = "publish" /\ t.user = task[w].user
    BY <1>0 DEF Task, Stage, Event
  <2>. HIDE DEF t
  <2>. QED
    BY <2>1, <2>2, VerifiedStep
<1>6. CASE ReplaceDelete(w)
  <2>. DEFINE S == tokens[task[w].user]
              t == [t0 EXCEPT !.snapshot = S,
                              !.pc = IF TokenLocked(w, S) THEN "replaceWait" ELSE "replaceCommit"]
  <2>1. /\ t0.pc = "replace" /\ task' = [task EXCEPT ![w] = t]
        /\ UNCHANGED <<next, account, tokens, history, events>>
    BY <1>0, <1>6 DEF ReplaceDelete, DeleteTokens, At
  <2>2. /\ t \in Task /\ t.pc \in {"replaceWait", "replaceCommit"}
        /\ t.user = t0.user /\ t.token = t0.token
    BY <1>0, <2>1 DEF Task, Stage, Sound, TypeOK
  <2>. HIDE DEF t, S
  <2>3. Sound(t)
    BY <1>0, <2>1, <2>2 DEF Sound, PendingStage, VerifyStage
  <2>. QED
    BY <1>0, <2>1, <2>2, <2>3, StageStep DEF PendingStage
<1>7. CASE ReplaceCommit(w)
  BY <1>7, ReplacedStep DEF ReplaceCommit
<1>8. CASE Unblock(w)
  <2>1. PICK stage : /\ \/ t0.pc = "verifyWait" /\ stage = "verifyCommit"
                        \/ t0.pc = "replaceWait" /\ stage = "replaceCommit"
                     /\ Goto(w, stage)
                     /\ UNCHANGED <<next, account, tokens, history, events>>
    BY <1>0, <1>8 DEF Unblock, At
  <2>. DEFINE t == [t0 EXCEPT !.pc = stage]
  <2>2. /\ t \in Task /\ t.pc = stage /\ task' = [task EXCEPT ![w] = t]
        /\ t.user = t0.user /\ t.token = t0.token /\ t.snapshot = t0.snapshot
    BY <1>0, <2>1 DEF Goto, Task, Stage
  <2>. HIDE DEF t
  <2>3. Sound(t)
    BY <1>0, <2>1, <2>2 DEF Sound, PendingStage, VerifyStage
  <2>. QED
    BY <1>0, <2>1, <2>2, <2>3, StageStep DEF PendingStage, VerifyStage
<1>9. CASE Publish(w)
  <2>1. PICK u, e : u = task[w].user /\ e = task[w].event
    OBVIOUS
  <2>2. /\ u \in User /\ e \in Event
        /\ e = "email_verified" => account[u].verified
    BY <1>0, <1>9, <2>1 DEF Publish, At, Sound, Task
  <2>3. /\ events' = [events EXCEPT ![u] = @ \cup {e}] \/ events' = events
        /\ task' = [task EXCEPT ![w] = Idle]
        /\ UNCHANGED <<next, account, tokens, owner, decided, accepted>>
    BY <1>9, <2>1 DEF Publish, Return, history
  <2>4. /\ events' \in [User -> SUBSET Event]
        /\ \A x \in User : "email_verified" \in events'[x] => account[x].verified
    BY <2>2, <2>3 DEF TypeOK, VerifiedByOwnToken
  <2>5. /\ task' \in [Worker -> Task]
        /\ \A v \in Worker : task'[v] = task[v] \/ task'[v] = Idle
    BY <2>3, IdleTask DEF TypeOK
  <2>6. \A x \in User : /\ Exists(x)' <=> Exists(x)
                        /\ account'[x].verified = account[x].verified
                        /\ account'[x].role = decided'[x].role
                        /\ account'[x].password = decided'[x].password
    BY <2>3 DEF Exists, LastDecisionStands
  <2>7. /\ account' \in [User -> Account \cup {NoRow}]
        /\ decided' \in [User -> Account \cup {NoRow}]
    BY <2>3 DEF TypeOK
  <2>. QED
    BY <2>3, <2>4, <2>5, <2>6, <2>7, DropStep
<1>. QED
  BY <1>1, <1>2, <1>3, <1>4, <1>5, <1>6, <1>7, <1>8, <1>9 DEF Continue
-----------------------------------------------------------------------------
\* Every step keeps the invariant.
LEMMA NextIInv == IInv /\ [Next]_vars => IInv'
<1>. SUFFICES ASSUME IInv, [Next]_vars PROVE IInv'
  OBVIOUS
<1>1. ASSUME NEW w \in Worker, Begin(w) PROVE IInv'
  BY <1>1, BeginIInv
<1>2. ASSUME NEW w \in Worker, Continue(w) PROVE IInv'
  BY <1>2, ContinueIInv
<1>3. ASSUME NEW w \in Worker, Deadline(w) PROVE IInv'
  <2>1. Idle \in Task /\ Idle.pc = "idle" /\ task' = [task EXCEPT ![w] = Idle]
    BY <1>3, IdleTask DEF Deadline, Return
  <2>2. CASE UNCHANGED <<account, tokens, decided, accepted>>
    BY <1>3, <2>2, ReturnStep DEF Deadline, history
  <2>3. CASE At(w, "insert") /\ Insert(w) /\ UNCHANGED accepted
    BY <1>3, <2>1, <2>3, InsertStep DEF Deadline
  <2>4. CASE At(w, "verifyCommit") /\ Verified(w) /\ UNCHANGED decided
    BY <1>3, <2>1, <2>4, VerifiedStep DEF Deadline
  <2>5. CASE At(w, "replaceCommit") /\ Replaced(w) /\ UNCHANGED <<account, decided, accepted>>
    BY <1>3, <2>5, ReplacedStep DEF Deadline, history
  <2>. QED
    BY <1>3, <2>2, <2>3, <2>4, <2>5 DEF Deadline
<1>4. ASSUME NEW u \in User, NEW r \in Role, UpdateRole(u, r) PROVE IInv'
  <2>1. Exists(u) /\ account[u] \in Account /\ account[u].password \in Password
    BY <1>4 DEF UpdateRole, IInv, TypeOK, Exists, Account
  <2>2. decided[u] \in Account /\ decided[u].password = account[u].password
    BY <2>1, NoneAssumption DEF IInv, LastDecisionStands, TypeOK, NoRow, Account
  <2>3. PICK a, d :
          /\ a = [account[u] EXCEPT !.role = r, !.password = account[u].password]
          /\ d = [decided[u] EXCEPT !.role = r, !.password = account[u].password]
    OBVIOUS
  <2>4. a = [account[u] EXCEPT !.role = r] /\ d = [decided[u] EXCEPT !.role = r]
    BY <2>1, <2>2, <2>3 DEF Account
  <2>5. /\ account' = [account EXCEPT ![u] = a]
        /\ decided' = [decided EXCEPT ![u] = d]
        /\ UNCHANGED <<next, tokens, owner, accepted, events, task>>
    BY <1>4, <2>4 DEF UpdateRole
  <2>6. task' \in [Worker -> Task]
    BY <2>5 DEF IInv, TypeOK
  <2>. QED
    BY <2>1, <2>3, <2>5, <2>6, GiveStep
<1>5. ASSUME task' = [w \in Worker |-> Idle] \/ UNCHANGED task,
             UNCHANGED <<next, account, tokens, history, events>>
      PROVE  IInv'
  <2>1. /\ task' \in [Worker -> Task]
        /\ \A v \in Worker : task'[v] = task[v] \/ task'[v] = Idle
    BY <1>5, IdleTask DEF IInv, TypeOK
  <2>2. /\ account' \in [User -> Account \cup {NoRow}]
        /\ decided' \in [User -> Account \cup {NoRow}]
        /\ events' \in [User -> SUBSET Event]
        /\ UNCHANGED <<next, tokens, owner, accepted>>
    BY <1>5 DEF IInv, TypeOK, history
  <2>3. \A u \in User : /\ Exists(u)' <=> Exists(u)
                        /\ account'[u].verified = account[u].verified
                        /\ account'[u].role = decided'[u].role
                        /\ account'[u].password = decided'[u].password
                        /\ "email_verified" \in events'[u] => account[u].verified
    BY <1>5 DEF history, Exists, IInv, LastDecisionStands, VerifiedByOwnToken
  <2>. QED
    BY <2>1, <2>2, <2>3, DropStep
<1>. QED
  BY <1>1, <1>2, <1>3, <1>4, <1>5 DEF Next, Crash, vars, history
-----------------------------------------------------------------------------
\* The invariant holds in every behaviour.
LEMMA SpecIInv == Spec => []IInv
BY InitIInv, NextIInv, PTL DEF Spec

\* No call writes a malformed row, token or task: in particular nothing is ever
\* written for a user who is not stored.
THEOREM TypeCorrect == Spec => []TypeOK
BY SpecIInv, PTL DEF IInv

\* However many verifications and resends overlap, each deleting the tokens it
\* saw, a user who is not verified keeps a token to be verified with.
THEOREM TokenRemains == Spec => []UnverifiedHasToken
BY SpecIInv, PTL DEF IInv

\* An email is verified exactly by the tokens generated for its user: no stale
\* write undoes it, and no other user's token does it.
THEOREM VerificationSound == Spec => []VerifiedByOwnToken
BY SpecIInv, PTL DEF IInv

\* A token that verified an email is gone from the table for good, although a
\* resend may have committed between its lookup and its deletion.
THEOREM AcceptedTokensGone == Spec => []AcceptedIsGone
BY SpecIInv, PTL DEF IInv

\* Role and password are those last given; calls that work from a stale row
\* write neither.
THEOREM DecisionsStand == Spec => []LastDecisionStands
BY SpecIInv, PTL DEF IInv
=============================================================================
