CONSTANTS
  Wants = {1, 2}
  MaxReads = 2
  MaxBytes = 3
SPECIFICATION Spec
CHECK_DEADLOCK FALSE
INVARIANTS
  OwnTimeoutOnly
