SPECIFICATION Spec
CONSTANTS
  A = A
  B = B
  Clients = {A, B}
  Watched = {A}
  Hold = 2
  Instances <- Small
INVARIANTS
  RosterIsTheSeats
  NobodyIsMissing
  GhostsWereMissed
PROPERTIES
  HeldUntilDue
CHECK_DEADLOCK FALSE
