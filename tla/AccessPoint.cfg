CONSTANTS
  m1 = m1
  m2 = m2
  m3 = m3
  CutName = CutName
  Meters <- MCMeters
  Requests <- MCRequests
  BufferNames = 2
  MaxRequests = 3
  Resets = TRUE
SPECIFICATION Spec
INVARIANTS
  TypeOK
  RoundReadsOneList
  SizesWereRequested
  QuietRoundKeepsList
PROPERTIES
  RequestsGetOn
  ImplementsService
