\* One call at a time, no faults, drivers that move in and out of the radius,
\* and a search whose COUNT is below their number.
SPECIFICATION Spec
CONSTANTS
  Driver = {d1,d2}
  Ride = {r1,r2}
  Worker = {w1}
  None = None
  Distance = {1,2,3}
  Radius = 2
  Limit = 1
  Faults = {}
INVARIANTS CacheFresh NoDoubleBooking
PROPERTIES NearestChosen RefusalExplained
CHECK_DEADLOCK FALSE
