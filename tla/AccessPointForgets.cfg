CONSTANTS
  m1 = m1
  m2 = m2
  m3 = m3
  CutName = CutName
  Meters <- MCMeters
  Requests <- MCRequests
  BufferNames = 2
  MaxRequests = 2
  Resets = TRUE
SPECIFICATION Spec
PROPERTIES NoRequestForgotten
