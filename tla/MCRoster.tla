------------------------------- MODULE MCRoster -------------------------------
(* Model checking: one player with everything in one frame, and a second one *)
(* who comes and goes while the copy of the first is followed, in lobbies    *)
(* created here and lobbies inherited.                                       *)
EXTENDS Roster

CONSTANTS A, B

Instance(who, members, holds, most, trouble) ==
  [players |-> who, members |-> members, reconnectable |-> holds,
   perFrame |-> most, troubles |-> trouble]

Small == {Instance({A}, {A}, TRUE, 3, 2),
          Instance({A, B}, {}, TRUE, 1, 1), Instance({A, B}, {}, FALSE, 1, 1),
          Instance({A, B}, {A, B}, TRUE, 1, 0), Instance({A, B}, {A, B}, FALSE, 1, 1)}
==============================================================================
