CONSTANTS
  Workers = {w1, w2}
  Lines = {l1, l2}
  MaxAttempts = 2
  MaxFaults = 2
SPECIFICATION FairSpec
INVARIANTS DeductedOnce PostedIsDeducted
PROPERTIES Settles
CHECK_DEADLOCK FALSE
