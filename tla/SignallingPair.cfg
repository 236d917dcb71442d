SPECIFICATION FairSpec
CONSTANTS
  Conns = {c1, c2}
  LobbyIds = {l1, l2}
  Codes = {k1, k2}
  Requests = {r1}
  Games = {g1}
  Names = {n1}
  RequestedSizes = {0, 1, 3}
  MaxPlayers = 2
  None = None
INVARIANTS
  RosterAgrees
  
  CodesLeadHome
PROPERTIES
  EveryMemberHearsTheEnd
CHECK_DEADLOCK FALSE
