CONSTANTS
  Registers = {r1}
  Shifts = {s1, s2}
  Receipts = {p1}
  Orders = {o1}
  Requests = {t1, t2}
  Nothing = Nothing
  MaxCash = 1
SPECIFICATION Spec
SYMMETRY Symmetry
INVARIANTS OneShiftPerDrawer BooksExplained FrozenTotalsAdd NoOverdraw NoUnpaidBillBehind
PROPERTIES ClosedStaysFrozen
CHECK_DEADLOCK FALSE
