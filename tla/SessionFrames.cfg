SPECIFICATION Spec
CONSTANTS
  Me = Me
  Others = {A, B}
  None = None
  SuccessorWithin = 3
  ReachWithin = 2
  DefaultReach = 1
  ReconnectWithin = 2
  PerFrame = 2
  MaxNamings = 1
  MaxSessions = 1
INVARIANTS
  TypeOK
  WaitsAreForTheHost
  VerifiedMeansCompared
  WaitIsBounded
PROPERTIES
  NobodyIsDroppedInSilence
  NotGivenUpEarly
  KeepsItsStages
SYMMETRY Symmetry
CHECK_DEADLOCK FALSE
