CONSTANTS
  m1 = m1
  m2 = m2
  Meters <- MCMeters
  MaxFaults = 0
SPECIFICATION HeadEndSpec
PROPERTIES
  RegisteredMetersAreServed
