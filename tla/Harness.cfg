CONSTANTS
  Names <- MCNames
  MaxSockets = 2
SPECIFICATION Spec
CHECK_DEADLOCK FALSE
INVARIANTS
  TypeOK
  QuietAfterRemoval
  ConnectingIsSafe
PROPERTIES
  RequestsUseOwnSocket
  FallbackWorks
