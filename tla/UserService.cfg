\* Two users, two tokens, two calls in flight and every
\* fault.
SPECIFICATION Spec
CONSTANTS
  User = {u1, u2}
  Email = {e1, e2}
  Password = {p1, p2}
  Worker = {w1, w2}
  None = None
  Role = {"passenger", "inactive"}
  MaxTokens = 2
  Faults = {"crash", "deadline", "publish"}
SYMMETRY Symmetric
INVARIANTS TypeOK UnverifiedHasToken VerifiedByOwnToken AcceptedIsGone LastDecisionStands
CHECK_DEADLOCK FALSE
