SPECIFICATION Spec
CONSTANTS
  c1 = c1
  c2 = c2
  Clients <- MCClients
  Messages <- MCMessages
  Registered = 2
  MaxMessages = 2
INVARIANTS
  TypeOK
  SettingsWereSent
  EchoesAreMessages
PROPERTIES
  MessagesTakeEffect
