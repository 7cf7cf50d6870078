SPECIFICATION Spec
CONSTANTS
  c1 = c1
  c2 = c2
  v1 = v1
  Clients <- MCClients
  Items <- MCItems
  Values <- MCValues
  Requests <- MCRequests
  MaxConnections = 3
  MaxRequests = 3
  MaxResets = 1
INVARIANTS
  TypeOK
  AnswersAreOwn
PROPERTIES
  ClientsGetOn
  ImplementsService
CHECK_DEADLOCK FALSE
