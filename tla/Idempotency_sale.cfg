CONSTANTS
  Attempts = {a1, a2}
  Keys = {k1}
  Payloads = {p1}
  Route = "sale"
  Handler = "sale"
  KeyGuarded = FALSE
  Prompt = FALSE
  MaxFaults = 3
SPECIFICATION FairSpec
INVARIANTS AtMostOnce
PROPERTIES ImplementsOncePerKey EventuallyAnswered
CHECK_DEADLOCK FALSE
