CONSTANTS
  Wants = {1, 2, 3}
  MaxReads = 3
  MaxBytes = 4
SPECIFICATION Spec
CHECK_DEADLOCK FALSE
INVARIANTS
  TypeOK
  EveryByteOnce
  LateExpiryHitsNext
  ReadsEndBeforeRemoval
PROPERTIES
  TimedReadsEnd
