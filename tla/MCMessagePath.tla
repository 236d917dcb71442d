---------------------------- MODULE MCMessagePath ----------------------------
(* Model checking: a host and two clients, one of them perhaps of another    *)
(* build, and three messages; limits of a few packets.                       *)
EXTENDS MessagePath

CONSTANTS h, c1, c2
TheClients == {c1, c2}

Instance(clients, speakers, outdated, kinds, modes, sends, datagram, held, backlog) ==
  [peers |-> clients \cup {h}, speakers |-> speakers, outdated |-> outdated, kinds |-> kinds,
   modes |-> modes, sizes |-> {4}, sends |-> sends, burst |-> 2,
   datagram |-> datagram, held_bytes |-> held, backlog |-> backlog]

Small ==
  {Instance({c1, c2}, {h, c1}, {}, {"broadcast"}, {"Reliable"}, 2, 12, 60, 1),
   Instance({c1}, {h, c1}, {}, {"broadcast"}, {"Reliable"}, 3, 16, 60, 1),
   Instance({c1, c2}, {h, c1}, {c1}, {"broadcast"}, {"Reliable"}, 2, 16, 60, 1),
   Instance({c1}, {h, c1}, {c1}, {"direct"}, {"Reliable", "Unreliable"}, 2, 16, 60, 1),
   Instance({c1}, {h, c1}, {}, {"broadcast"}, {"ReliableNoDelay", "Unreliable"}, 2, 16, 60, 1),
   Instance({c1}, {h, c1}, {}, {"broadcast", "direct"}, {"Reliable"}, 3, 16, 6, 1),
   Instance({c1}, {h}, {}, {"broadcast"}, {"Reliable", "Unreliable"}, 3, 16, 60, 1)}
\* One client that its host tells small and large messages; very many small ones.
Telling(sizes, n, datagram) ==
  [Instance({c1}, {h}, {}, {"broadcast"}, {"Reliable"}, n, datagram, 60, 1) EXCEPT !.sizes = sizes, !.burst = n]
Uneven == {Telling({2, 8}, 3, 16)}
Crowded == {Telling({2}, 8, 24)}
==============================================================================
