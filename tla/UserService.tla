----------------------------- MODULE UserService -----------------------------
(***************************************************************************)
(* The user-service: the tables users and verification_tokens, and the     *)
(* events it publishes.  A Worker is one gRPC call in flight; each step is *)
(* one query or one publication.  Transactions run at READ COMMITTED.  The *)
(* one that registers a user is one step, because a second insert of the   *)
(* same email waits for it.  In the ones that verify an email and replace  *)
(* a token, DELETE sees the tokens committed when it starts and locks      *)
(* them, and UPDATE locks the user's row; both locks last until commit.    *)
(* Logins, sessions and the other reads change nothing and are left out.   *)
(***************************************************************************)
EXTENDS Integers

CONSTANTS User,      \* users.id; a bound on the registrations of a run
          Email, Password, Worker, None,
          Role,      \* users.role; no property tells the active ones apart
          MaxTokens, \* bound on the tokens generated
          Faults     \* the faults the environment may inject

FaultKinds == {"crash",     \* the process dies, its calls with it
               "deadline",  \* the context of a call ends
               "publish"}   \* a publication fails; the error is ignored

ASSUME RoleAssumption ==
  "inactive" \in Role /\ Role \subseteq {"passenger", "driver", "admin", "inactive"}
ASSUME FaultsAssumption == Faults \subseteq FaultKinds
ASSUME BoundAssumption == MaxTokens \in Nat
ASSUME NoneAssumption == None \notin User \cup Email \cup Password

Token == 1 .. MaxTokens
-----------------------------------------------------------------------------
VARIABLES
  next,     \* the number of the next token
  account,  \* the row of users, or NoRow
  tokens,   \* the committed rows of verification_tokens, by user
  owner,    \* the user a token was generated for
  decided,  \* the role and password last given to each user
  accepted, \* how many times a token has verified an email
  events,   \* the events published about each user
  task      \* what each worker is doing

vars == <<next, account, tokens, owner, decided, accepted, events, task>>
history == <<owner, decided, accepted>>

Event == {"registered", "email_verified"}

\* No row, and what is not known of one.
NoRow == [email |-> None, role |-> "inactive", password |-> None, verified |-> FALSE]
Account == [email : Email, role : Role, password : Password, verified : BOOLEAN]

Stage == {"idle", "insert", "profile", "password",
          "verify", "verifyWait", "verifyCommit",
          "replace", "replaceWait", "replaceCommit", "publish"}

\* row is what the call has read of the user or will insert, token what it
\* presents or has generated, snapshot what its DELETE has locked.
Row == [email : Email \cup {None}, role : Role, password : Password \cup {None},
        verified : BOOLEAN]

Task == [pc : Stage, user : User \cup {None}, row : Row,
         token : Token \cup {0}, snapshot : SUBSET Token, event : Event]

Idle == [pc |-> "idle", user |-> None, row |-> NoRow, token |-> 0,
         snapshot |-> {}, event |-> "registered"]

Init ==
  /\ next = 1
  /\ account = [u \in User |-> NoRow]
  /\ tokens = [u \in User |-> {}]
  /\ owner = [t \in Token |-> None]
  /\ decided = [u \in User |-> NoRow]
  /\ accepted = [t \in Token |-> 0]
  /\ events = [u \in User |-> {}]
  /\ task = [w \in Worker |-> Idle]

Exists(u) == account[u] # NoRow
At(w, stage) == task[w].pc = stage
Goto(w, stage) == task' = [task EXCEPT ![w].pc = stage]
Return(w) == task' = [task EXCEPT ![w] = Idle]
Call(w, t) == At(w, "idle") /\ task' = [task EXCEPT ![w] = t]

\* randomToken, for user u.
Generate(u) ==
  /\ next <= MaxTokens
  /\ next' = next + 1
  /\ owner' = [owner EXCEPT ![next] = u]

\* The row of u is locked by the UPDATE of a transaction that verifies it.
RowLocked(u) ==
  \E w \in Worker : task[w].user = u /\ task[w].pc \in {"verifyWait", "verifyCommit"}

\* One of the tokens is locked by another transaction that deletes it.
TokenLocked(w, S) ==
  \E v \in Worker \ {w} : /\ task[v].pc \in {"verifyCommit", "replaceCommit"}
                          /\ task[v].snapshot \cap S # {}
-----------------------------------------------------------------------------
\* Register.

Register(w, u, e, p, r) ==
  /\ ~Exists(u) /\ \A v \in Worker : task[v].user # u
  /\ Generate(u)
  /\ Call(w, [Idle EXCEPT !.pc = "insert", !.user = u, !.token = next,
                !.row = [email |-> e, role |-> r, password |-> p, verified |-> FALSE]])
  /\ UNCHANGED <<account, tokens, decided, accepted, events>>

EmailTaken(e) == \E u \in User : account[u].email = e

Insert(w) ==
  LET u == task[w].user
  IN  /\ account' = [account EXCEPT ![u] = task[w].row]
      /\ tokens' = [tokens EXCEPT ![u] = {task[w].token}]
      /\ decided' = [decided EXCEPT ![u] = task[w].row]

\* The user without the token.
CreateWithVerification_NoToken(w) ==
  LET u == task[w].user
  IN  /\ At(w, "insert")
      /\ ~EmailTaken(task[w].row.email)
      /\ account' = [account EXCEPT ![u] = task[w].row]
      /\ decided' = [decided EXCEPT ![u] = task[w].row]
      /\ Goto(w, "publish")
      /\ UNCHANGED <<next, tokens, owner, accepted, events>>

\* The user and its first token, or ErrEmailAlreadyTaken.
CreateWithVerification(w) ==
  /\ At(w, "insert")
  /\ IF EmailTaken(task[w].row.email)
     THEN Return(w) /\ UNCHANGED <<account, tokens, decided>>
     ELSE Insert(w) /\ Goto(w, "publish")
  /\ UNCHANGED <<next, owner, accepted, events>>
-----------------------------------------------------------------------------
\* Updates of the account.  UpdateProfile, ChangePassword and ResetPassword
\* read the row in a query of its own and write later, whatever it is by then.

UpdateProfile(w, u) ==
  /\ Exists(u)
  /\ Call(w, [Idle EXCEPT !.pc = "profile", !.user = u, !.row = account[u]])
  /\ UNCHANGED <<next, account, tokens, history, events>>

\* The whole row as it was read.
Update_WholeRow(w) ==
  LET u == task[w].user
  IN  /\ At(w, "profile") /\ ~RowLocked(u)
      /\ account' = [account EXCEPT ![u] = task[w].row]
      /\ Return(w)
      /\ UNCHANGED <<next, tokens, history, events>>

\* full_name and phone, which the model does not show, and nothing else.
Update(w) ==
  /\ At(w, "profile") /\ ~RowLocked(task[w].user)
  /\ Return(w)
  /\ UNCHANGED <<next, account, tokens, history, events>>

\* The row is read and the old password compared with it.
ChangePassword(w, u, old, new) ==
  /\ Exists(u) /\ account[u].password = old
  /\ Call(w, [Idle EXCEPT !.pc = "password", !.user = u,
                          !.row = [NoRow EXCEPT !.password = new]])
  /\ UNCHANGED <<next, account, tokens, history, events>>

ResetPassword(w, e, new) ==
  /\ \E u \in User :
       /\ Exists(u) /\ account[u].email = e
       /\ Call(w, [Idle EXCEPT !.pc = "password", !.user = u,
                               !.row = [NoRow EXCEPT !.password = new]])
  /\ UNCHANGED <<next, account, tokens, history, events>>

\* The whole row, of which only the password is known.
UpdatePassword_WholeRow(w) ==
  LET u == task[w].user
  IN  /\ At(w, "password") /\ ~RowLocked(u)
      /\ account' = [account EXCEPT ![u] = task[w].row]
      /\ decided' = [decided EXCEPT ![u].password = task[w].row.password]
      /\ Return(w)
      /\ UNCHANGED <<next, tokens, owner, accepted, events>>

UpdatePassword(w) ==
  LET u == task[w].user
      new == task[w].row.password
  IN  /\ At(w, "password") /\ ~RowLocked(u)
      /\ account' = [account EXCEPT ![u].password = new]
      /\ decided' = [decided EXCEPT ![u].password = new]
      /\ Return(w)
      /\ UNCHANGED <<next, tokens, owner, accepted, events>>

\* UpdateUserRole and, with "inactive", DeactivateUser; one statement.
UpdateRole(u, r) ==
  /\ Exists(u) /\ ~RowLocked(u)
  /\ account' = [account EXCEPT ![u].role = r]
  /\ decided' = [decided EXCEPT ![u].role = r]
  /\ UNCHANGED <<next, tokens, owner, accepted, events, task>>
-----------------------------------------------------------------------------
\* VerifyEmail: SELECT, UPDATE and DELETE, commit.

\* The token looked up without the user.
VerifyEmail_AnyUser(w, u, t) ==
  /\ Exists(u) /\ \E v \in User : t \in tokens[v]
  /\ Call(w, [Idle EXCEPT !.pc = "verify", !.user = u, !.token = t])
  /\ UNCHANGED <<next, account, tokens, history, events>>

\* A token that is not stored, or has expired, is refused and changes nothing.
VerifyEmail(w, u, t) ==
  /\ t \in tokens[u]
  /\ Call(w, [Idle EXCEPT !.pc = "verify", !.user = u, !.token = t])
  /\ UNCHANGED <<next, account, tokens, history, events>>

\* DELETE FROM verification_tokens WHERE user_id: it may have to wait for
\* another transaction that deletes one of the same rows.
DeleteTokens(w, wait, done) ==
  LET S == tokens[task[w].user]
  IN  task' = [task EXCEPT ![w].snapshot = S,
                           ![w].pc = IF TokenLocked(w, S) THEN wait ELSE done]

VerifyDelete(w) ==
  /\ At(w, "verify") /\ ~RowLocked(task[w].user)
  /\ DeleteTokens(w, "verifyWait", "verifyCommit")
  /\ UNCHANGED <<next, account, tokens, history, events>>

Verified(w) ==
  LET u == task[w].user
  IN  /\ account' = [account EXCEPT ![u].verified = TRUE]
      /\ tokens' = [tokens EXCEPT ![u] = @ \ task[w].snapshot]
      /\ accepted' = [accepted EXCEPT ![task[w].token] = @ + 1]

\* The token is kept.
VerifyCommit_KeepToken(w) ==
  /\ At(w, "verifyCommit")
  /\ account' = [account EXCEPT ![task[w].user].verified = TRUE]
  /\ accepted' = [accepted EXCEPT ![task[w].token] = @ + 1]
  /\ task' = [task EXCEPT ![w].pc = "publish", ![w].event = "email_verified"]
  /\ UNCHANGED <<next, tokens, owner, decided, events>>

VerifyCommit(w) ==
  /\ At(w, "verifyCommit")
  /\ Verified(w)
  /\ task' = [task EXCEPT ![w].pc = "publish", ![w].event = "email_verified"]
  /\ UNCHANGED <<next, owner, decided, events>>
-----------------------------------------------------------------------------
\* ResendVerification: GetByID, then DELETE, INSERT and commit.

ResendVerification(w, u) ==
  /\ Exists(u)
  /\ Generate(u)
  /\ Call(w, [Idle EXCEPT !.pc = "replace", !.user = u, !.token = next])
  /\ UNCHANGED <<account, tokens, decided, accepted, events>>

ReplaceDelete(w) ==
  /\ At(w, "replace")
  /\ DeleteTokens(w, "replaceWait", "replaceCommit")
  /\ UNCHANGED <<next, account, tokens, history, events>>

Replaced(w) ==
  tokens' = [tokens EXCEPT ![task[w].user] = (@ \ task[w].snapshot) \cup {task[w].token}]

\* user.verification_resent, published after the commit, has no subscriber.
ReplaceCommit(w) ==
  /\ At(w, "replaceCommit")
  /\ Replaced(w)
  /\ Return(w)
  /\ UNCHANGED <<next, account, history, events>>

\* A DELETE that waited goes on when the rows are free; it skips those that
\* are gone.
Unblock(w) ==
  /\ \/ At(w, "verifyWait") /\ Goto(w, "verifyCommit")
     \/ At(w, "replaceWait") /\ Goto(w, "replaceCommit")
  /\ ~TokenLocked(w, task[w].snapshot)
  /\ UNCHANGED <<next, account, tokens, history, events>>
-----------------------------------------------------------------------------
\* user.registered or user.email_verified.
Publish(w) ==
  /\ At(w, "publish")
  /\ \/ events' = [events EXCEPT ![task[w].user] = @ \cup {task[w].event}]
     \/ "publish" \in Faults /\ UNCHANGED events
  /\ Return(w)
  /\ UNCHANGED <<next, account, tokens, history>>

\* The context ends during a query: a transaction is rolled back, or was
\* committed already.
Deadline(w) ==
  /\ "deadline" \in Faults
  /\ task[w].pc \notin {"idle", "publish"}
  /\ \/ UNCHANGED <<account, tokens, decided, accepted>>
     \/ /\ At(w, "insert") /\ ~EmailTaken(task[w].row.email)
        /\ Insert(w) /\ UNCHANGED accepted
     \/ At(w, "verifyCommit") /\ Verified(w) /\ UNCHANGED decided
     \/ At(w, "replaceCommit") /\ Replaced(w) /\ UNCHANGED <<account, decided, accepted>>
  /\ Return(w)
  /\ UNCHANGED <<next, owner, events>>

Crash ==
  /\ "crash" \in Faults
  /\ UNCHANGED <<next, account, tokens, history, events>>
  /\ task' = [w \in Worker |-> Idle]

Begin(w) ==
  \/ \E u \in User :
       \/ \E e \in Email, p \in Password, r \in Role \ {"inactive"} : Register(w, u, e, p, r)
       \/ UpdateProfile(w, u)
       \/ \E old, new \in Password : ChangePassword(w, u, old, new)
       \/ \E t \in Token : VerifyEmail(w, u, t)
       \/ ResendVerification(w, u)
  \/ \E e \in Email, new \in Password : ResetPassword(w, e, new)

Continue(w) ==
  \/ CreateWithVerification(w) \/ Update(w) \/ UpdatePassword(w)
  \/ VerifyDelete(w) \/ VerifyCommit(w)
  \/ ReplaceDelete(w) \/ ReplaceCommit(w)
  \/ Unblock(w) \/ Publish(w)

Next ==
  \/ \E w \in Worker : Begin(w) \/ Continue(w) \/ Deadline(w)
  \/ \E u \in User, r \in Role : UpdateRole(u, r)
  \/ Crash

Spec == Init /\ [][Next]_vars
-----------------------------------------------------------------------------
\* Properties.

\* Every variable has its type.
TypeOK ==
  /\ next \in 1 .. MaxTokens + 1
  /\ account \in [User -> Account \cup {NoRow}]
  /\ tokens \in [User -> SUBSET Token]
  /\ owner \in [Token -> User \cup {None}]
  /\ decided \in [User -> Account \cup {NoRow}]
  /\ accepted \in [Token -> Nat]
  /\ events \in [User -> SUBSET Event]
  /\ task \in [Worker -> Task]

\* Whatever verifications and resends overlap, a user who is not verified has
\* a token to be verified with.
UnverifiedHasToken ==
  \A u \in User : Exists(u) /\ ~account[u].verified => tokens[u] # {}

\* An email is verified exactly when a token generated for its user has been
\* accepted, which no later write takes back, and is announced as verified
\* only when it is.
VerifiedByOwnToken ==
  \A u \in User :
    /\ account[u].verified <=> \E t \in Token : owner[t] = u /\ accepted[t] > 0
    /\ "email_verified" \in events[u] => account[u].verified

\* A token that verified an email is no longer stored, whatever resend
\* overlapped it: only calls that had read it before can accept it again.
AcceptedIsGone ==
  \A t \in Token, u \in User : accepted[t] > 0 => t \notin tokens[u]

\* The role and the password stored are those last given, by whichever call
\* stored last: a profile update or a verification, however stale the row it
\* works from, neither revives a deactivated user nor restores a password.
LastDecisionStands ==
  \A u \in User : /\ account[u].role = decided[u].role
                  /\ account[u].password = decided[u].password
=============================================================================
