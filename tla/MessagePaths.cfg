SPECIFICATION Spec
CONSTANTS
  h = h
  c1 = c1
  c2 = c2
  Host <- h
  Clients <- TheClients
  Instances <- Small
INVARIANTS
  AgreedOrder
  AccountedFor
  ReliableIsKept
  OnlyTheComparedAreRead
  NobodyWaitsInVain
CHECK_DEADLOCK FALSE
