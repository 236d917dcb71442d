----------------------------- MODULE MCPlayerData -----------------------------
(* Model checking: a host and up to two others, in four of the schedules.    *)
EXTENDS PlayerData

CONSTANTS h, a, b

\* Commands are applied as late as they may be, or as soon as they can be.
HostsFirst ==
  <<"game", "own", "seat", "flush", "announce", "roster", "clear", "broadcast", "flush", "sync", "apply",
    "republish", "publish">>
ClientsFirst ==
  <<"roster", "flush", "clear", "republish", "flush", "publish", "flush", "own", "flush", "apply", "flush",
    "broadcast", "flush", "sync", "game", "seat", "flush", "announce">>
\* What was said again is buffered before the buffer is cleared.
SaidThenCleared ==
  <<"republish", "flush", "publish", "clear", "roster", "seat", "flush", "apply", "game", "own", "broadcast",
    "announce", "flush", "sync">>
\* What is new is said before what is said again.
NewThenOld ==
  <<"roster", "clear", "broadcast", "publish", "game", "republish", "flush", "sync", "apply", "seat", "flush",
    "announce", "own">>

Instance(others, orders, persisted, edits, joins, breaks, changes) ==
  [host |-> h, others |-> others, orders |-> orders, persisted |-> persisted,
   edits |-> edits, joins |-> joins, breaks |-> breaks, changes |-> changes]

\* One order a run, or another in each frame.
Every == {HostsFirst, ClientsFirst, SaidThenCleared, NewThenOld}
Small ==
  {Instance({a}, {order}, FALSE, 3, 2, 1, 0) : order \in Every}
    \cup {Instance({a}, {order}, TRUE, 2, 2, 1, 1) : order \in Every}
    \cup {Instance({a, b}, {order}, FALSE, 1, 2, 0, 1) : order \in Every}
    \cup {Instance({a}, Every, persisted, 2, 1, 0, 1) : persisted \in BOOLEAN}
SaidAgain == {Instance({a, b}, {NewThenOld}, FALSE, 2, 2, 0, 1)}
==============================================================================
