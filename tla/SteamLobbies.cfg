SPECIFICATION Spec
CONSTANT
  Instances <- Small
INVARIANTS
  ListedWhereItIs
  TrustGoesWithTheLobby
  NobodyIsStuck
PROPERTIES
  OverIsTold
  ClosedIsNotTakenOver
