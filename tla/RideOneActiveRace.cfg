\* Two calls of one passenger at once.
SPECIFICATION Spec
CONSTANTS
  Ride = {r1, r2}
  Passenger = {p1}
  Driver = {d1}
  Worker = {w1, w2}
  None = None
  Faults = {}
  PageSize = 2
  MaxFeedback = 0
INVARIANTS OneActiveRide
CHECK_DEADLOCK FALSE
