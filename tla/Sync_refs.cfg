CONSTANTS
  Ops = {1, 2, 3}
  Kind <- MCKind
  Refs <- MCRefs
  Requests = {r1}
  Limit = 2
  MaxFaults = 0
  MaxRetries = 0
SPECIFICATION Spec
INVARIANT ReferencesResolve
CHECK_DEADLOCK FALSE
