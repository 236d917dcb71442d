-------------------------------- MODULE MCSteam --------------------------------
(* Model checking: three peers and one Steam lobby that is left, dropped,    *)
(* closed and handed on; two lobbies for requests that are given up.         *)
EXTENDS Steam

Instance(n, lobbies, requests, upsets, ops) ==
  [peers |-> n, lobbies |-> lobbies, requests |-> requests, upsets |-> upsets, hosts |-> {1}, ops |-> ops]

Small ==
  {Instance(3, 1, 3, 2, {"leave", "close"}),
   Instance(3, 1, 3, 1, {"drop"}),
   Instance(2, 1, 3, 3, {"leave", "drop", "close"}),
   Instance(3, 1, 4, 1, {"leave"}),
   Instance(3, 1, 3, 1, {"kick", "fail", "refuse"}),
   Instance(2, 1, 4, 3, {"leave", "kick", "fail"}),
   Instance(2, 2, 4, 3, {"leave", "drop", "abandon", "refuse"})}
==============================================================================
