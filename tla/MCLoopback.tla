------------------------------ MODULE MCLoopback ------------------------------
(* Model checking: a wire with everything wrong with it between two peers,   *)
(* and three peers whose host and attachments change over a wire that works. *)
EXTENDS Loopback

Perfect == [delay |-> 0, jitter |-> 0, loss |-> FALSE, duplicate |-> FALSE, reorder |-> FALSE,
            limit |-> FALSE]
Instance(n, ops, calls, packets, frames, link) ==
  [peers |-> n, ops |-> ops, calls |-> calls, packets |-> packets, frames |-> frames, raws |-> 0,
   link |-> link, migratable |-> TRUE, reconnectable |-> TRUE]

Noisy == [Perfect EXCEPT !.duplicate = TRUE, !.reorder = TRUE, !.limit = TRUE]
Slow == [Perfect EXCEPT !.delay = 1, !.jitter = 1, !.loss = TRUE]

Membership == {"add", "addPending", "name", "loseCrashes"}
Quiet(ops, calls) == Instance(3, Membership \cup ops, calls, 0, 0, Perfect)
Spoken(n, ops, calls, packets, frames) == Instance(n, {"add"} \cup ops, calls, packets, frames, Perfect)

Small ==
  {Instance(2, {"add"}, 2, 3, 4, Noisy),
   Instance(2, {"add", "break", "halfOpen", "reconnect", "leave"}, 4, 2, 4, Slow),
   Quiet({"disconnect", "reconnect", "halfOpen"}, 7),
   Quiet({"break", "reconnect", "leave", "resume", "giveUp"}, 6),
   Quiet({"loseQuits", "loseFallsSilent", "rehost", "leave", "reconnect"}, 6),
   [Quiet({"loseQuits", "break", "leave", "rehost"}, 6) EXCEPT !.migratable = FALSE, !.reconnectable = FALSE],
   Spoken(3, {"name", "disconnect", "reconnect"}, 5, 1, 3),
   Spoken(2, {"request", "name", "rehost"}, 5, 1, 3),
   [Spoken(2, {"kick", "request", "dropNext"}, 4, 1, 2) EXCEPT !.raws = 1]}

\* Jitter and overtaking at once.
Jittery == {Instance(2, {"add"}, 2, 2, 3, [Perfect EXCEPT !.jitter = 2, !.reorder = TRUE])}
==============================================================================
