-------------------------------- MODULE InTurn --------------------------------
(***************************************************************************)
(* What a value comes to when a step is taken for each element of a        *)
(* sequence, one after the other: the loops of the code.                   *)
(***************************************************************************)
EXTENDS Naturals, Sequences

InTurn(step(_, _), start, s) ==
  LET after[i \in 0..Len(s)] == IF i = 0 THEN start ELSE step(after[i - 1], s[i])
  IN after[Len(s)]
==============================================================================
