\* Three calls at once on one ride, with every fault.
SPECIFICATION Spec
CONSTANTS
  Ride = {r1}
  Passenger = {p1}
  Driver = {d1, d2}
  Worker = {w1, w2, w3}
  None = None
  Faults = {"crash", "query", "publish"}
  PageSize = 1
  MaxFeedback = 0
SYMMETRY Symmetric
INVARIANTS TypeOK HistoryIsPath OneOutcome ReReadNotBehind
PROPERTIES DriverNeverReplaced FinishedRideFrozen ImplementsLifecycle
CHECK_DEADLOCK FALSE
