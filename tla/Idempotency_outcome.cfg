CONSTANTS
  Attempts = {a1, a2, a3}
  Keys = {k1}
  Payloads = {p1}
  Route = "outcome"
  Handler = "single"
  KeyGuarded = TRUE
  Prompt = FALSE
  MaxFaults = 2
SPECIFICATION Spec
SYMMETRY Symmetry
PROPERTIES ImplementsOncePerKey
CHECK_DEADLOCK FALSE
