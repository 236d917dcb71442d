SPECIFICATION Spec
CONSTANTS
  h = h
  a = a
  b = b
  Peers = {h, a, b}
  Instances <- Small
INVARIANTS
  TheOwnersLastWordStands
  EveryoneHasTheHostsValue
  HostNeverGoesBack
CHECK_DEADLOCK FALSE
