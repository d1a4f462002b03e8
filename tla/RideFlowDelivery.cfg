\* One ride from request to payment, one crash of any service.
SPECIFICATION FairSpec
CONSTANTS
  Ride = {r1}
  Passenger = {p1}
  Driver = {d1}
  None = None
  Client = {c1}
  PageSize = 1
  Limit = 1
  Faults = {"crash"}
  MaxPayments = 1
  MaxApiPayments = 0
  MaxFaults = 1
PROPERTIES AtLeastOnce
CHECK_DEADLOCK FALSE
