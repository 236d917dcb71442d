---------------------------- MODULE MCPeerSession ----------------------------
(* PeerSession on a small instance. *)
EXTENDS PeerSession, TLC

Symmetry == Permutations(Others)
==============================================================================
