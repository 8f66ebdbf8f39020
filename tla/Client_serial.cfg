CONSTANTS
  Serial = TRUE
  Attempts = {a1, a2}
  Keys = {k1, k2, k3}
  Payloads = {p1}
  Route = "outcome"
  Handler = "single"
  KeyGuarded = TRUE
  Prompt = TRUE
  MaxFaults = 2
SPECIFICATION ClientFairSpec
INVARIANTS ClientTypeOK MoneyMovesOnce KeyStaysUntilAnswered
PROPERTIES KeyIsResolved
CHECK_DEADLOCK FALSE
