\* One ride from request to payment, one fault of any kind.
SPECIFICATION FairSpec
CONSTANTS
  Ride = {r1}
  Passenger = {p1}
  Driver = {d1}
  None = None
  Client = {c1}
  PageSize = 1
  Limit = 1
  Faults = {"crash", "query", "redis", "publish"}
  MaxPayments = 2
  MaxApiPayments = 1
  MaxFaults = 1
INVARIANT MoneyFollowsOutcome
PROPERTIES ImplementsPlatform CompletedIsPaid RequestedMovesOn
CHECK_DEADLOCK FALSE
