SPECIFICATION Spec
CONSTANTS
  Conns = {c1, c2, c3}
  LobbyIds = {l1, l2}
  Codes = {k1}
  Requests = {}
  Games = {g1}
  Names = {n1}
  RequestedSizes = {0}
  MaxPlayers = 3
  None = None
INVARIANTS
  TypeOK
  MembershipAgrees
PROPERTIES
  SeniorityDecides
  PromiseKept
SYMMETRY Everyone
CHECK_DEADLOCK FALSE
