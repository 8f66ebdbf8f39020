CONSTANTS
  Ops = {1, 2, 3}
  Kind <- MCKind
  Refs <- MCRefs
  Requests = {r1, r2}
  Limit = 2
  MaxFaults = 1
  MaxRetries = 1
SPECIFICATION Spec
INVARIANTS HandledInOrder
PROPERTIES ImplementsDelivery EverythingSettles
CHECK_DEADLOCK FALSE
