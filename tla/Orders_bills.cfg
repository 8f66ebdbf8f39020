CONSTANTS
  Terminals = {t1, t2}
  Orders = {o1, o2}
  Units = {u1, u2}
  NoOrder = NoOrder
  MaxVersion = 2
SPECIFICATION Spec
SYMMETRY Symmetry
INVARIANTS TypeOK BillMatchesOrder ScreenIsCurrent 
CHECK_DEADLOCK FALSE
