\* One request of every kind to every route, with every fault.
SPECIFICATION Spec
CONSTANTS
  Faults = {"disconnect", "send", "crash"}
INVARIANTS TypeOK SuccessIsExecuted OwnHandler OneIdentity RefusalChangedNothing
PROPERTIES EveryRequestAnswered
CHECK_DEADLOCK FALSE
