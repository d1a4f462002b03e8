\* Three calls at once on two payments, with every fault.
SPECIFICATION Spec
CONSTANTS
  Ride = {r1, r2}
  Worker = {w1, w2, w3}
  None = None
  MaxPayments = 2
  Faults = {"crash", "query", "publish"}
SYMMETRY Symmetric
INVARIANTS TypeOK LedgerIsAccount EventsMatchLedger
PROPERTY RefundIsFinal
CHECK_DEADLOCK FALSE
