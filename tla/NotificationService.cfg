\* Two mails, for two subscriptions and a caller, to two users, with the real
\* sender and every fault.
SPECIFICATION Spec
CONSTANTS
  User = {u1, u2}
  Caller = {c1}
  None = None
  Notification = {n1, n2}
  Subscribed = {"user.registered", "ride.completed"}
  Sender = "smtp"
  Faults = {"crash", "query", "publish"}
INVARIANTS TypeOK SentIsMailed QueuedHasSender
PROPERTIES ReadAndDeletedAreFinal MailIsRecorded
CHECK_DEADLOCK FALSE
