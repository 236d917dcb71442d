------------------------- MODULE MCSignallingServer -------------------------
(***************************************************************************)
(* Constants for the runs of SignallingServer, and a check of the helper   *)
(* its actions use on member lists against the standard filter.            *)
(***************************************************************************)
EXTENDS SignallingServer, TLC

\* Connections, ids and codes are only ever compared: each may be renamed.
Everyone == Permutations(Conns) \cup Permutations(LobbyIds) \cup Permutations(Codes)

\* Retain is the standard filter, on every list of up to three members.
ASSUME \A n \in 0..3 : \A s \in [1..n -> {1, 2, 3}], keep \in SUBSET {1, 2, 3} :
         Retain(s, keep) = SelectSeq(s, LAMBDA x : x \in keep)
=============================================================================
