SPECIFICATION Spec
CONSTANTS
  h = h
  c1 = c1
  c2 = c2
  Host <- h
  Clients <- TheClients
  Instances <- Uneven
INVARIANT
  ReliableArrivesInOrder
CHECK_DEADLOCK FALSE
