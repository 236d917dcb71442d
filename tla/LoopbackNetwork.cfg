SPECIFICATION Spec
CONSTANT
  Instances <- Small
INVARIANTS
  ArrivesAsTraced
  HostSeatsEachOnce
PROPERTIES
  NothingFromBeforeTheCut
CHECK_DEADLOCK FALSE
