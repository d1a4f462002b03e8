\* Two calls at once, no faults.
SPECIFICATION Spec
CONSTANTS
  Driver = {d1}
  Ride = {r1,r2}
  Worker = {w1,w2}
  None = None
  Distance = {1}
  Radius = 1
  Limit = 1
  Faults = {}
INVARIANTS NoDoubleBooking
CHECK_DEADLOCK FALSE
