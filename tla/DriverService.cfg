\* Two calls at once, every fault, two drivers at one place.
SPECIFICATION Spec
CONSTANTS
  Driver = {d1,d2}
  Ride = {r1}
  Worker = {w1,w2}
  None = None
  Distance = {1}
  Radius = 1
  Limit = 2
  Faults = {"crash", "query", "redis", "publish"}
SYMMETRY Symmetric
INVARIANTS TypeOK AssignedIsRecorded CacheShowsCommitted
CHECK_DEADLOCK FALSE
