SPECIFICATION Spec
CONSTANTS
  A = A
  B = B
  Clients = {A, B}
  Watched = {A}
  Hold = 2
  Instances <- Small
INVARIANT RemovalNeverPanics
CHECK_DEADLOCK FALSE
