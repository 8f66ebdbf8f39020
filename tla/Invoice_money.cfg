CONSTANTS
  Invoices = {i1, i2, i3}
  Others = {i3}
  Partners = {named, walkIn}
  Named = named
  WalkIn = walkIn
  Customer <- MCCustomer
  Total <- MCTotal
  Limit <- MCLimit
  AllowUnlimited = FALSE
  Sessions = {s1, s2}
  Idle = Idle
SPECIFICATION Spec
SYMMETRY Symmetry
INVARIANTS BooksAgree CreditWithinLimit ClosedIsCovered
PROPERTIES EndedStaysEnded
CHECK_DEADLOCK FALSE
