------------------------------- MODULE MCSocket -------------------------------
(* Model checking: one end dials the other, and both dial at once.           *)
EXTENDS Socket

Instance(dialers, connections, drops, presses, losses, failures, rounds) ==
  [dialers |-> dialers, connections |-> connections, drops |-> drops, presses |-> presses,
   losses |-> losses, failures |-> failures, rounds |-> rounds, timeout |-> 2, restarts |-> 1]

Redialled == Instance({"a"}, 4, 1, 0, 0, 0, 1)
Small ==
  {[Instance({"a"}, 2, 0, 0, 2, 0, 0) EXCEPT !.restarts = 2],
   Instance({"a"}, 2, 0, 2, 0, 0, 2),
   Instance({"a"}, 2, 0, 1, 0, 1, 2),
   Redialled,
   [Redialled EXCEPT !.losses = 1, !.rounds = 0],
   Instance({"a", "b"}, 3, 1, 0, 0, 0, 1),
   Instance({"a"}, 2, 0, 1, 1, 0, 0)}
==============================================================================
