CONSTANTS
  Items = {i1, i2}
  Bills = {b1, b2}
  MaxQuantity = 2
  NoOperation = NoOperation
SPECIFICATION Spec
SYMMETRY Symmetry
INVARIANTS PaidWithinPunched ClosedIsPaid
PROPERTIES PaidIsFinal
CHECK_DEADLOCK FALSE
