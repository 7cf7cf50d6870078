CONSTANTS
  Meters <- MCMeters
  MaxTries = 3
  MaxPasses = 2
  MaxRivals = 1
SPECIFICATION Spec
CHECK_DEADLOCK FALSE
INVARIANTS
  TypeOK
  SuccessMeansAsked
  FirstContactsWork
PROPERTIES
  EverybodyGetsOn
