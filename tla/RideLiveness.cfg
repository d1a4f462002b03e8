\* Two calls at once on one ride, no faults, fair handlers.
SPECIFICATION FairSpec
CONSTANTS
  Ride = {r1}
  Passenger = {p1}
  Driver = {d1, d2}
  Worker = {w1, w2}
  None = None
  Faults = {}
  PageSize = 1
  MaxFeedback = 1
PROPERTIES RequestAnnounced ImplementsFairLifecycle
CHECK_DEADLOCK FALSE
