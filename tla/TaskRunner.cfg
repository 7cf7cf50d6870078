CONSTANTS
  c1 = c1
  c2 = c2
  Nobody = Nobody
  Clients <- MCClients
  Commands <- MCCommands
  MaxMessages = 3
  MaxTraffic = 1
SPECIFICATION Spec
CHECK_DEADLOCK FALSE
INVARIANTS
  TypeOK
  AnswersFitMessages
PROPERTIES
  MessagesAreAnswered
