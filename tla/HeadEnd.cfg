CONSTANTS
  m1 = m1
  m2 = m2
  Meters <- MCMeters
  MaxFaults = 2
SPECIFICATION HeadEndSpec
INVARIANTS
  HeadEndTypeOK
  RegisteredIsKnownOrQueued
  ServerEndsByBrokenOne
PROPERTIES
  RegistrationsAreServed
