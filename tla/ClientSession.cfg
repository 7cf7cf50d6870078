CONSTANTS
  good = good
  flaky = flaky
  NoData = NoData
  Meters <- MCMeters
  Reliable <- MCReliable
  Scripts <- MCScripts
  MaxTries = 3
  MaxSessions = 3
SPECIFICATION Spec
CHECK_DEADLOCK FALSE
INVARIANTS
  TypeOK
  ReadingsAreOwn
  ReliableReadUntilFailure
  SocketsAreReclaimed
PROPERTIES
  SessionsEnd
