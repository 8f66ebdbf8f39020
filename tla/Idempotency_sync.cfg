CONSTANTS
  Attempts = {a1, a2, a3}
  Keys = {k1}
  Payloads = {p1, p2}
  Route = "sync"
  Handler = "single"
  KeyGuarded = FALSE
  Prompt = FALSE
  MaxFaults = 2
SPECIFICATION Spec
SYMMETRY Symmetry
INVARIANTS TypeOK OneRunner PaidIsReplayable
PROPERTIES RecordStays ImplementsOncePerKey
CHECK_DEADLOCK FALSE
