SPECIFICATION Spec
CONSTANT
  Instances <- Small
INVARIANTS
  ConnectionsAreKeptApart
  CandidatesFollowTheirDescription
  DeadlineRunsFromTheLoss
PROPERTIES
  OnlyStrangersAreRefused
CHECK_DEADLOCK FALSE
