SPECIFICATION FairSpec
CONSTANTS
  Me = Me
  Others = {A, B}
  None = None
  SuccessorWithin = 2
  ReachWithin = 1
  DefaultReach = 1
  ReconnectWithin = 1
  PerFrame = 1
  MaxNamings = 2
  MaxSessions = 2
PROPERTIES
  EveryWaitEnds
CHECK_DEADLOCK FALSE
