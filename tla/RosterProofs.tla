------------------------------ MODULE RosterProofs ------------------------------
(***************************************************************************)
(* The roster is that of the seats, whoever is held for is so for as long  *)
(* as promised, and every client's copy is complete, and shows nobody for  *)
(* no reason: for any number of players, any inputs of a frame and any     *)
(* order of its systems and commands.                                      *)
(***************************************************************************)
EXTENDS Roster, SequenceProofs

------------------------------------------------------------------------------
\* What the parts of a command do to the host

Stages == {"seats", "syncs"}

\* The fields of a host.
LEMMA HostFields ==
  ASSUME NEW h \in Hosts
  PROVE  /\ h.seat \in [Clients -> Seats] /\ h.nth \in [Clients -> Nat]
         /\ h.link \in [Clients -> LinkStates] /\ h.listed \in SUBSET Clients
         /\ h.held \in SUBSET Clients /\ h.waited \in [Clients -> 0..Hold]
         /\ h.fresh \in [Stages -> SUBSET Clients] /\ h.changed \in SUBSET Clients
         /\ h.batch \in [Clients -> Seq(Messages)] /\ h.reconnectable \in BOOLEAN
         /\ h.panicked \in BOOLEAN /\ h.crossed \in SUBSET Clients
         /\ h.overtaken \in SUBSET Clients
  BY DEF Hosts, Stages

\* A removal is something to say.
LEMMA RemovedIsSaid ==
  ASSUME NEW c \in Clients
  PROVE  Removed(c) \in Messages
  BY DEF Removed, Messages

\* Saying changes what is batched, and nothing else.
LEMMA SayToIs ==
  ASSUME NEW h \in Hosts, NEW c \in Clients, NEW m \in Messages
  PROVE  LET r == SayTo(h, c, m)
         IN /\ r \in Hosts
            /\ r.seat = h.seat /\ r.nth = h.nth /\ r.link = h.link /\ r.listed = h.listed
            /\ r.held = h.held /\ r.waited = h.waited /\ r.fresh = h.fresh
            /\ r.changed = h.changed /\ r.reconnectable = h.reconnectable
            /\ r.crossed = h.crossed /\ r.overtaken = h.overtaken
            /\ \A x \in Clients :
                 r.batch[x] = IF x = c /\ (c \in Watched \/ m = Removed(c)) THEN Append(h.batch[x], m)
                              ELSE h.batch[x]
<1> DEFINE b == [h.batch EXCEPT ![c] = Append(@, m)]
<1>1. b \in [Clients -> Seq(Messages)]
  BY HostFields
<1>2. \A x \in Clients : b[x] = IF x = c THEN Append(h.batch[x], m) ELSE h.batch[x]
  BY HostFields
<1>3. CASE c \in Watched \/ m = Removed(c)
  <2>1. SayTo(h, c, m) = [h EXCEPT !.batch = b]
    BY <1>3 DEF SayTo
  <2> HIDE DEF b
  <2> QED BY <1>1, <1>2, <1>3, <2>1 DEF Hosts
<1>4. CASE ~(c \in Watched \/ m = Removed(c))
  BY <1>4 DEF SayTo
<1> QED
  BY <1>3, <1>4

\* And so does saying it to everyone there is.
LEMMA SayToAllIs ==
  ASSUME NEW h \in Hosts, NEW m \in Messages
  PROVE  LET r == SayToAll(h, m)
         IN /\ r \in Hosts
            /\ r.seat = h.seat /\ r.nth = h.nth /\ r.link = h.link /\ r.listed = h.listed
            /\ r.held = h.held /\ r.waited = h.waited /\ r.fresh = h.fresh
            /\ r.changed = h.changed /\ r.reconnectable = h.reconnectable
            /\ r.crossed = h.crossed /\ r.overtaken = h.overtaken
            /\ \A x \in Clients :
                 r.batch[x] = IF x \in Seated(h) /\ (x \in Watched \/ m = Removed(x)) THEN Append(h.batch[x], m)
                              ELSE h.batch[x]
<1> DEFINE b == [c \in Clients |-> IF c \in Seated(h) THEN SayTo(h, c, m).batch[c] ELSE h.batch[c]]
<1>1. \A c \in Clients :
        SayTo(h, c, m).batch[c] = IF c \in Watched \/ m = Removed(c) THEN Append(h.batch[c], m)
                                  ELSE h.batch[c]
  BY SayToIs
<1>2. b \in [Clients -> Seq(Messages)]
  <2>1. \A c \in Clients : h.batch[c] \in Seq(Messages) /\ Append(h.batch[c], m) \in Seq(Messages)
    BY HostFields
  <2> QED BY <1>1, <2>1
<1>3. \A x \in Clients :
        b[x] = IF x \in Seated(h) /\ (x \in Watched \/ m = Removed(x)) THEN Append(h.batch[x], m)
               ELSE h.batch[x]
  BY <1>1
<1>4. SayToAll(h, m) = [h EXCEPT !.batch = b]
  BY DEF SayToAll
<1> HIDE DEF b
<1> QED
  BY <1>2, <1>3, <1>4 DEF Hosts

\* A connection that is closed.
LEMMA DisconnectIs ==
  ASSUME NEW h \in Hosts, NEW c \in Clients
  PROVE  LET r == Disconnect(h, c)
         IN /\ r \in Hosts
            /\ r.seat = h.seat /\ r.nth = h.nth /\ r.listed = h.listed
            /\ r.held = h.held /\ r.waited = h.waited /\ r.fresh = h.fresh
            /\ r.changed = h.changed /\ r.reconnectable = h.reconnectable
            /\ r.crossed = h.crossed /\ r.overtaken = h.overtaken /\ r.batch = h.batch
            /\ r.link[c] \notin {"dialling", "up"} /\ \A x \in Clients \ {c} : r.link[x] = h.link[x]
<1> DEFINE l == [h.link EXCEPT ![c] = IF @ = "up" THEN "closing" ELSE IF @ = "closing" THEN @ ELSE "none"]
<1>1. l \in [Clients -> LinkStates]
  BY HostFields DEF LinkStates
<1>2. l[c] \notin {"dialling", "up"} /\ \A x \in Clients \ {c} : l[x] = h.link[x]
  BY HostFields
<1>3. Disconnect(h, c) = [h EXCEPT !.link = l]
  BY DEF Disconnect
<1> HIDE DEF l
<1> QED
  BY <1>1, <1>2, <1>3 DEF Hosts

\* A participant that is despawned.
LEMMA UnlistIs ==
  ASSUME NEW h \in Hosts, NEW c \in Clients
  PROVE  LET r == Unlist(h, c)
         IN /\ r \in Hosts
            /\ r.seat = h.seat /\ r.nth = h.nth /\ r.link = h.link /\ r.listed = h.listed \ {c}
            /\ r.held = h.held \ {c} /\ r.fresh = h.fresh
            /\ r.waited[c] = 0 /\ \A x \in Clients \ {c} : r.waited[x] = h.waited[x]
            /\ r.changed = h.changed \ {c} /\ r.reconnectable = h.reconnectable
            /\ r.crossed = h.crossed /\ r.overtaken = h.overtaken /\ r.batch = h.batch
<1> DEFINE w == [h.waited EXCEPT ![c] = 0]
<1>1. w \in [Clients -> 0..Hold]
  BY HostFields, HoldAssumption
<1>2. w[c] = 0 /\ \A x \in Clients \ {c} : w[x] = h.waited[x]
  BY HostFields
<1> DEFINE l == h.listed \ {c}
           e == h.held \ {c}
           n == h.changed \ {c}
<1>3. Unlist(h, c) = [h EXCEPT !.listed = l, !.held = e, !.waited = w, !.changed = n]
  BY DEF Unlist
<1>4. l \in SUBSET Clients /\ e \in SUBSET Clients /\ n \in SUBSET Clients
  BY HostFields
<1> HIDE DEF w, l, e, n
<1>5. Unlist(h, c) \in Hosts
  BY <1>1, <1>3, <1>4 DEF Hosts
<1>6. /\ Unlist(h, c).listed = l /\ Unlist(h, c).held = e
      /\ Unlist(h, c).waited = w /\ Unlist(h, c).changed = n
  BY <1>3 DEF Hosts
<1>7. LET r == Unlist(h, c)
      IN /\ r.seat = h.seat /\ r.nth = h.nth /\ r.link = h.link /\ r.fresh = h.fresh
         /\ r.reconnectable = h.reconnectable
         /\ r.crossed = h.crossed /\ r.overtaken = h.overtaken /\ r.batch = h.batch
  BY <1>3 DEF Hosts
<1> QED
  BY <1>2, <1>5, <1>6, <1>7 DEF l, e, n

\* A seat that is despawned.
LEMMA UnseatIs ==
  ASSUME NEW h \in Hosts, NEW c \in Clients
  PROVE  LET r == Unseat(h, c)
         IN /\ r \in Hosts
            /\ r.seat[c] = "none" /\ \A x \in Clients \ {c} : r.seat[x] = h.seat[x]
            /\ r.batch[c] = <<>> /\ \A x \in Clients \ {c} : r.batch[x] = h.batch[x]
            /\ \A s \in Stages : r.fresh[s] = h.fresh[s] \ {c}
            /\ r.nth = h.nth /\ r.link = h.link /\ r.listed = h.listed
            /\ r.held = h.held /\ r.waited = h.waited
            /\ r.changed = h.changed /\ r.reconnectable = h.reconnectable
            /\ r.crossed = h.crossed /\ r.overtaken = h.overtaken
<1> DEFINE z == [h.seat EXCEPT ![c] = "none"]
           b == [h.batch EXCEPT ![c] = <<>>]
           f == [s \in DOMAIN h.fresh |-> h.fresh[s] \ {c}]
<1>1. z \in [Clients -> Seats] /\ z[c] = "none" /\ \A x \in Clients \ {c} : z[x] = h.seat[x]
  BY HostFields DEF Seats
<1>2. b \in [Clients -> Seq(Messages)] /\ b[c] = <<>> /\ \A x \in Clients \ {c} : b[x] = h.batch[x]
  BY HostFields
<1>3. f \in [Stages -> SUBSET Clients] /\ \A s \in Stages : f[s] = h.fresh[s] \ {c}
  BY HostFields
<1>4. Unseat(h, c) = [h EXCEPT !.seat = z, !.batch = b, !.fresh = f]
  BY DEF Unseat
<1> HIDE DEF z, b, f
<1> QED
  BY <1>1, <1>2, <1>3, <1>4 DEF Hosts, Stages

\* A seat that goes for good takes its participant along.
LEMMA OnSeatRemovedIs ==
  ASSUME NEW h \in Hosts, NEW c \in Clients
  PROVE  LET r == OnSeatRemoved(h, c)
         IN /\ r \in Hosts
            /\ r.seat[c] = "none" /\ \A x \in Clients \ {c} : r.seat[x] = h.seat[x]
            /\ \A s \in Stages : r.fresh[s] = h.fresh[s] \ {c}
            /\ r.nth = h.nth /\ r.listed = h.listed \ {c} /\ r.held = h.held \ {c}
            /\ r.waited[c] = 0 /\ \A x \in Clients \ {c} : r.waited[x] = h.waited[x]
            /\ r.changed = h.changed \ {c} /\ r.reconnectable = h.reconnectable
            /\ r.crossed = h.crossed /\ r.overtaken = h.overtaken
            /\ r.link[c] \notin {"dialling", "up"} /\ \A x \in Clients \ {c} : r.link[x] = h.link[x]
            /\ r.batch[c] = <<>>
            /\ \A x \in Clients \ {c} :
                 r.batch[x] = IF x \in Seated(h) /\ x \in Watched THEN Append(h.batch[x], Removed(c))
                              ELSE h.batch[x]
<1> DEFINE d == Disconnect(h, c)
           u == Unseat(d, c)
           m == Removed(c)
           s == SayToAll(u, m)
<1>1. OnSeatRemoved(h, c) = Unlist(s, c)
  BY DEF OnSeatRemoved
<1>2. m \in Messages /\ \A x \in Clients : m = Removed(x) => x = c
  BY RemovedIsSaid DEF Removed
<1>3. m = Removed(c)
  OBVIOUS
<1>4. /\ d \in Hosts
      /\ d.seat = h.seat /\ d.nth = h.nth /\ d.listed = h.listed
      /\ d.held = h.held /\ d.waited = h.waited /\ d.fresh = h.fresh
      /\ d.changed = h.changed /\ d.reconnectable = h.reconnectable
      /\ d.crossed = h.crossed /\ d.overtaken = h.overtaken /\ d.batch = h.batch
      /\ d.link[c] \notin {"dialling", "up"} /\ \A x \in Clients \ {c} : d.link[x] = h.link[x]
  BY DisconnectIs
<1> HIDE DEF d, m
<1>5. /\ u \in Hosts
      /\ u.seat[c] = "none" /\ \A x \in Clients \ {c} : u.seat[x] = h.seat[x]
      /\ u.batch[c] = <<>> /\ \A x \in Clients \ {c} : u.batch[x] = h.batch[x]
      /\ \A t \in Stages : u.fresh[t] = h.fresh[t] \ {c}
      /\ u.nth = d.nth /\ u.link = d.link /\ u.listed = d.listed
      /\ u.held = d.held /\ u.waited = d.waited
      /\ u.changed = d.changed /\ u.reconnectable = d.reconnectable
      /\ u.crossed = d.crossed /\ u.overtaken = d.overtaken
  BY <1>4, UnseatIs
<1> HIDE DEF u
<1>6. /\ s \in Hosts
      /\ s.seat = u.seat /\ s.nth = u.nth /\ s.link = u.link /\ s.listed = u.listed
      /\ s.held = u.held /\ s.waited = u.waited /\ s.fresh = u.fresh
      /\ s.changed = u.changed /\ s.reconnectable = u.reconnectable
      /\ s.crossed = u.crossed /\ s.overtaken = u.overtaken
      /\ \A x \in Clients :
           s.batch[x] = IF x \in Seated(u) /\ (x \in Watched \/ m = Removed(x)) THEN Append(u.batch[x], m)
                        ELSE u.batch[x]
  BY <1>2, <1>5, SayToAllIs
<1> HIDE DEF s
<1>7. c \notin Seated(u) /\ \A x \in Clients \ {c} : x \in Seated(u) <=> x \in Seated(h)
  BY <1>5 DEF Seated
<1>8. /\ s.batch[c] = <<>>
      /\ \A x \in Clients \ {c} :
           s.batch[x] = IF x \in Seated(h) /\ x \in Watched THEN Append(h.batch[x], Removed(c))
                        ELSE h.batch[x]
  BY <1>2, <1>3, <1>5, <1>6, <1>7
<1> DEFINE r == Unlist(s, c)
<1>9. /\ r \in Hosts
      /\ r.seat = s.seat /\ r.nth = s.nth /\ r.link = s.link /\ r.listed = s.listed \ {c}
      /\ r.held = s.held \ {c} /\ r.fresh = s.fresh
      /\ r.waited[c] = 0 /\ \A x \in Clients \ {c} : r.waited[x] = s.waited[x]
      /\ r.changed = s.changed \ {c} /\ r.reconnectable = s.reconnectable
      /\ r.crossed = s.crossed /\ r.overtaken = s.overtaken /\ r.batch = s.batch
  BY <1>6, UnlistIs
<1> HIDE DEF r
<1> QED
  BY <1>1, <1>4, <1>5, <1>6, <1>8, <1>9 DEF r

------------------------------------------------------------------------------
\* In the midst of a sync point

\* A seat that was seen is of somebody listed, for whom nobody waits.
Seen(h, c) ==
  c \in Seated(h) \ h.fresh.seats => c \in h.overtaken \/ c \in h.listed \ h.held
Timely(h, c) == h.waited[c] < Hold
\* Whoever is listed has a seat, or is waited for.
Backed(h) ==
  /\ h.held \subseteq h.listed /\ h.changed \subseteq h.listed
  /\ \A c \in h.listed : c \in Seated(h) \/ c \in h.held
  /\ \A s \in Stages : h.fresh[s] \subseteq Seated(h)
\* h is what g has come to while commands are applied that were queued when it was
\* read: a seat spawned since has not been promoted, where there was none there is
\* none yet, and a seat that add_remote_lobby_participants has not got to is one
\* it will.  Nobody of unknown has been heard of.
Since(g, h) ==
  \A c \in Clients :
    /\ h.nth[c] >= g.nth[c]
    /\ h.nth[c] # g.nth[c] => c \notin Seated(h)
    /\ g.seat[c] = "none" /\ h.nth[c] = g.nth[c] => h.seat[c] = "none"
    /\ c \in g.fresh.seats \/ Seen(h, c)
Unheard(h, unknown) == \A c \in unknown : h.seat[c] = "none" /\ c \notin h.listed
Mid(g, unknown) == {h \in Hosts : Backed(h) /\ Since(g, h) /\ Unheard(h, unknown)}
\* What is true of a player, and stays so.
Goes(h, r) ==
  \A c \in Clients : (Seen(h, c) => Seen(r, c)) /\ (Timely(h, c) => Timely(r, c))

\* What may be queued by systems that read g.
Orders(g, unknown) ==
  {k \in [do : {"seat", "promote", "linkLost", "despawn"}, of : Clients, nth : Nat] :
     /\ k.do # "despawn" => k.nth = g.nth[k.of]
     /\ k.do = "promote" => g.seat[k.of] # "none" /\ k.of \notin unknown}
  \cup [do : {"departed", "drop"}, of : Clients]
  \cup {k \in [do : {"spawn"}, of : Clients, kind : {"pending", "redial"}] : k.of \notin unknown}
  \cup [do : {"sync"}, of : Clients, who : SUBSET Clients]
  \cup {k \in [do : {"syncTo"}, of : Clients, nth : Nat, who : SUBSET Clients] : k.nth = g.nth[k.of]}

\* Nothing that matters is changed.
LEMMA SameKeeps ==
  ASSUME NEW g \in Hosts, NEW U \in SUBSET Clients, NEW h \in Mid(g, U), NEW r \in Hosts,
         r.seat = h.seat, r.nth = h.nth, r.listed = h.listed, r.held = h.held,
         r.waited = h.waited, r.fresh = h.fresh, r.changed = h.changed,
         h.overtaken \subseteq r.overtaken
  PROVE  r \in Mid(g, U) /\ Goes(h, r) /\ Seated(r) = Seated(h)
<1>1. Seated(r) = Seated(h)
  BY DEF Seated
<1>2. Goes(h, r)
  BY <1>1 DEF Goes, Seen, Timely
<1> QED
  BY <1>1, <1>2 DEF Mid, Backed, Since, Unheard, Goes

\* A seat is gone with its participant.
LEMMA RemovedKeeps ==
  ASSUME NEW g \in Hosts, NEW U \in SUBSET Clients, NEW h \in Mid(g, U), NEW c \in Clients
  PROVE  LET r == OnSeatRemoved(h, c) IN r \in Mid(g, U) /\ Goes(h, r) /\ Seated(r) = Seated(h) \ {c}
<1> DEFINE r == OnSeatRemoved(h, c)
<1>1. h \in Hosts
  BY DEF Mid
<1>2. /\ r \in Hosts
      /\ r.seat[c] = "none" /\ \A x \in Clients \ {c} : r.seat[x] = h.seat[x]
      /\ \A s \in Stages : r.fresh[s] = h.fresh[s] \ {c}
      /\ r.nth = h.nth /\ r.listed = h.listed \ {c} /\ r.held = h.held \ {c}
      /\ r.waited[c] = 0 /\ \A x \in Clients \ {c} : r.waited[x] = h.waited[x]
      /\ r.changed = h.changed \ {c} /\ r.overtaken = h.overtaken
  BY <1>1, OnSeatRemovedIs
<1> HIDE DEF r
<1>3. Seated(r) = Seated(h) \ {c}
  BY <1>2 DEF Seated
<1>4. r.fresh.seats = h.fresh.seats \ {c}
  BY <1>2 DEF Stages
<1>5. Goes(h, r)
  BY <1>2, <1>3, <1>4, HoldAssumption DEF Goes, Seen, Timely
<1>6. Backed(r)
  BY <1>2, <1>3, HostFields, <1>1 DEF Mid, Backed
<1>7. Since(g, r)
  BY <1>1, <1>2, <1>3, <1>5 DEF Mid, Since, Goes
<1>8. Unheard(r, U)
  <2> SUFFICES ASSUME NEW x \in U PROVE r.seat[x] = "none" /\ x \notin r.listed
    BY DEF Unheard
  <2>1. h.seat[x] = "none" /\ x \notin h.listed
    BY DEF Mid, Unheard
  <2>2. CASE x = c
    BY <1>2, <2>2
  <2>3. CASE x \in Clients \ {c}
    BY <1>2, <2>1, <2>3
  <2> QED BY <2>2, <2>3
<1> QED
  BY <1>2, <1>3, <1>5, <1>6, <1>7, <1>8 DEF Mid, r

\* A seat goes that nobody sat in.
LEMMA UnseatKeeps ==
  ASSUME NEW g \in Hosts, NEW U \in SUBSET Clients, NEW h \in Mid(g, U), NEW c \in Clients,
         c \notin Seated(h)
  PROVE  LET r == Unseat(h, c) IN r \in Mid(g, U) /\ Goes(h, r) /\ Seated(r) = Seated(h)
<1> DEFINE r == Unseat(h, c)
<1>1. h \in Hosts
  BY DEF Mid
<1>2. /\ r \in Hosts
      /\ r.seat[c] = "none" /\ \A x \in Clients \ {c} : r.seat[x] = h.seat[x]
      /\ \A s \in Stages : r.fresh[s] = h.fresh[s] \ {c}
      /\ r.nth = h.nth /\ r.listed = h.listed /\ r.held = h.held
      /\ r.waited = h.waited /\ r.changed = h.changed /\ r.overtaken = h.overtaken
  BY <1>1, UnseatIs
<1> HIDE DEF r
<1>3. Seated(r) = Seated(h)
  BY <1>2 DEF Seated
<1>4. r.fresh.seats = h.fresh.seats \ {c}
  BY <1>2 DEF Stages
<1>5. Goes(h, r)
  BY <1>2, <1>3, <1>4 DEF Goes, Seen, Timely
<1>6. Backed(r)
  BY <1>2, <1>3, HostFields, <1>1 DEF Mid, Backed
<1>7. Since(g, r)
  BY <1>1, <1>2, <1>3, <1>5 DEF Mid, Since, Goes
<1>8. Unheard(r, U)
  BY <1>2 DEF Mid, Unheard
<1> QED
  BY <1>2, <1>3, <1>5, <1>6, <1>7, <1>8 DEF Mid, r

\* A participant goes that has no seat.
LEMMA UnlistKeeps ==
  ASSUME NEW g \in Hosts, NEW U \in SUBSET Clients, NEW h \in Mid(g, U), NEW c \in Clients,
         c \notin Seated(h)
  PROVE  LET r == Unlist(h, c) IN r \in Mid(g, U) /\ Goes(h, r) /\ Seated(r) = Seated(h)
<1> DEFINE r == Unlist(h, c)
<1>1. h \in Hosts
  BY DEF Mid
<1>2. /\ r \in Hosts
      /\ r.seat = h.seat /\ r.nth = h.nth /\ r.fresh = h.fresh
      /\ r.listed = h.listed \ {c} /\ r.held = h.held \ {c}
      /\ r.waited[c] = 0 /\ \A x \in Clients \ {c} : r.waited[x] = h.waited[x]
      /\ r.changed = h.changed \ {c} /\ r.overtaken = h.overtaken
  BY <1>1, UnlistIs
<1> HIDE DEF r
<1>3. Seated(r) = Seated(h)
  BY <1>2 DEF Seated
<1>5. Goes(h, r)
  BY <1>2, <1>3, HoldAssumption DEF Goes, Seen, Timely
<1>6. Backed(r)
  BY <1>2, <1>3, HostFields, <1>1 DEF Mid, Backed
<1>7. Since(g, r)
  BY <1>1, <1>2, <1>3, <1>5 DEF Mid, Since, Goes
<1>8. Unheard(r, U)
  BY <1>2 DEF Mid, Unheard
<1> QED
  BY <1>2, <1>3, <1>5, <1>6, <1>7, <1>8 DEF Mid, r

\* A link is lost: in a lobby that waits the seat goes and its player is held for.
LEMMA LinkLostKeeps ==
  ASSUME NEW g \in Hosts, NEW U \in SUBSET Clients, NEW h \in Mid(g, U), NEW c \in Clients
  PROVE  LET r == SeatLinkLost(h, c) IN r \in Mid(g, U) /\ Goes(h, r) /\ Seated(r) \subseteq Seated(h)
<1>1. h \in Hosts
  BY DEF Mid
<1>2. Goes(h, h)
  BY DEF Goes
<1>3. CASE h.seat[c] # "seated"
  BY <1>2, <1>3 DEF SeatLinkLost
<1>4. CASE h.seat[c] = "seated" /\ ~(h.reconnectable /\ c \in h.listed)
  BY <1>4, RemovedKeeps DEF SeatLinkLost
<1>5. CASE h.seat[c] = "seated" /\ h.reconnectable /\ c \in h.listed
  <2> DEFINE w == [h.waited EXCEPT ![c] = 0]
             e == h.held \cup {c}
             a == [h EXCEPT !.held = e, !.waited = w]
             d == Disconnect(a, c)
             r == Unseat(d, c)
  <2>1. SeatLinkLost(h, c) = r
    BY <1>5 DEF SeatLinkLost
  <2>2. w \in [Clients -> 0..Hold] /\ w[c] = 0 /\ \A x \in Clients \ {c} : w[x] = h.waited[x]
    BY <1>1, HostFields, HoldAssumption
  <2>3. e \in SUBSET Clients
    BY <1>1, HostFields
  <2> HIDE DEF w, e
  <2>4. /\ a \in Hosts
        /\ a.seat = h.seat /\ a.nth = h.nth /\ a.fresh = h.fresh /\ a.listed = h.listed
        /\ a.held = e /\ a.waited = w /\ a.changed = h.changed /\ a.overtaken = h.overtaken
    BY <1>1, <2>2, <2>3 DEF Hosts
  <2> HIDE DEF a
  <2>5. /\ d \in Hosts
        /\ d.seat = h.seat /\ d.nth = h.nth /\ d.fresh = h.fresh /\ d.listed = h.listed
        /\ d.held = e /\ d.waited = w /\ d.changed = h.changed /\ d.overtaken = h.overtaken
    BY <2>4, DisconnectIs
  <2> HIDE DEF d
  <2>6. /\ r \in Hosts
        /\ r.seat[c] = "none" /\ \A x \in Clients \ {c} : r.seat[x] = h.seat[x]
        /\ \A s \in Stages : r.fresh[s] = h.fresh[s] \ {c}
        /\ r.nth = h.nth /\ r.listed = h.listed /\ r.held = h.held \cup {c}
        /\ r.waited[c] = 0 /\ \A x \in Clients \ {c} : r.waited[x] = h.waited[x]
        /\ r.changed = h.changed /\ r.overtaken = h.overtaken
    BY <2>2, <2>5, UnseatIs DEF e
  <2> HIDE DEF r
  <2>7. Seated(r) = Seated(h) \ {c}
    BY <2>6 DEF Seated
  <2>8. r.fresh.seats = h.fresh.seats \ {c}
    BY <2>6 DEF Stages
  <2>9. Goes(h, r)
    BY <2>6, <2>7, <2>8, HoldAssumption DEF Goes, Seen, Timely
  <2>10. Backed(r)
    BY <1>1, <1>5, <2>6, <2>7, HostFields DEF Mid, Backed
  <2>11. Since(g, r)
    BY <1>1, <2>6, <2>7, <2>9 DEF Mid, Since, Goes
  <2>12. Unheard(r, U)
    BY <2>6 DEF Mid, Unheard
  <2> QED
    BY <2>1, <2>6, <2>7, <2>9, <2>10, <2>11, <2>12 DEF Mid
<1> QED
  BY <1>3, <1>4, <1>5

\* A new participant, or one whose player is back: the seat is seen.
LEMMA SeatParticipantKeeps ==
  ASSUME NEW g \in Hosts, NEW U \in SUBSET Clients, NEW h \in Mid(g, U), NEW k,
         k.of \in Clients, k.nth = g.nth[k.of]
  PROVE  LET r == SeatParticipant(h, k)
         IN r \in Mid(g, U) /\ Goes(h, r) /\ Seen(r, k.of) /\ Seated(r) = Seated(h)
<1> DEFINE c == k.of
           r == SeatParticipant(h, k)
<1>1. h \in Hosts /\ Goes(h, h)
  BY DEF Mid, Goes
<1>2. CASE Gone(h, k) \/ h.seat[c] # "seated"
  <2>1. c \notin Seated(h)
    BY <1>2 DEF Gone, Mid, Since, Seated
  <2> QED BY <1>1, <1>2, <2>1 DEF SeatParticipant, Seen
<1>3. CASE ~(Gone(h, k) \/ h.seat[c] # "seated") /\ c \in h.listed
  <2> DEFINE w == [h.waited EXCEPT ![c] = 0]
             e == h.held \ {c}
  <2>1. r = [h EXCEPT !.held = e, !.waited = w]
    BY <1>3 DEF SeatParticipant
  <2>2. w \in [Clients -> 0..Hold] /\ w[c] = 0 /\ \A x \in Clients \ {c} : w[x] = h.waited[x]
    BY <1>1, HostFields, HoldAssumption
  <2>3. e \in SUBSET Clients
    BY <1>1, HostFields
  <2> HIDE DEF w, e, r
  <2>4. /\ r \in Hosts
        /\ r.seat = h.seat /\ r.nth = h.nth /\ r.fresh = h.fresh /\ r.listed = h.listed
        /\ r.held = e /\ r.waited = w /\ r.changed = h.changed /\ r.overtaken = h.overtaken
    BY <1>1, <2>1, <2>2, <2>3 DEF Hosts
  <2>5. Seated(r) = Seated(h) /\ c \in Seated(h)
    BY <1>3, <2>4 DEF Seated
  <2>6. Goes(h, r) /\ Seen(r, c)
    BY <1>3, <2>2, <2>4, <2>5, HoldAssumption DEF Goes, Seen, Timely, e
  <2>7. Backed(r)
    BY <1>1, <2>4, <2>5 DEF Mid, Backed, e
  <2>8. Since(g, r)
    BY <2>4, <2>5, <2>6 DEF Mid, Since, Goes
  <2>9. Unheard(r, U)
    BY <2>4 DEF Mid, Unheard
  <2> QED
    BY <2>4, <2>5, <2>6, <2>7, <2>8, <2>9 DEF Mid, r
<1>4. CASE ~(Gone(h, k) \/ h.seat[c] # "seated") /\ c \notin h.listed
  <2> DEFINE l == h.listed \cup {c}
             n == h.changed \cup {c}
  <2>1. r = [h EXCEPT !.listed = l, !.changed = n]
    BY <1>4 DEF SeatParticipant
  <2>2. l \in SUBSET Clients /\ n \in SUBSET Clients
    BY <1>1, HostFields
  <2> HIDE DEF l, n, r
  <2>3. /\ r \in Hosts
        /\ r.seat = h.seat /\ r.nth = h.nth /\ r.fresh = h.fresh /\ r.listed = l
        /\ r.held = h.held /\ r.waited = h.waited /\ r.changed = n /\ r.overtaken = h.overtaken
    BY <1>1, <2>1, <2>2 DEF Hosts
  <2>4. Seated(r) = Seated(h) /\ c \in Seated(h)
    BY <1>4, <2>3 DEF Seated
  <2>5. c \notin h.held
    BY <1>4 DEF Mid, Backed
  <2>6. Goes(h, r) /\ Seen(r, c)
    BY <2>3, <2>4, <2>5 DEF Goes, Seen, Timely, l
  <2>7. Backed(r)
    BY <1>1, <2>3, <2>4 DEF Mid, Backed, l, n
  <2>8. Since(g, r)
    BY <2>3, <2>4, <2>6 DEF Mid, Since, Goes
  <2>9. Unheard(r, U)
    BY <1>4, <2>3, <2>4 DEF Mid, Unheard, l, Seated
  <2> QED
    BY <2>3, <2>4, <2>6, <2>7, <2>8, <2>9 DEF Mid, r
<1> QED
  BY <1>2, <1>3, <1>4

\* A removal said of a participant taken off the list.
LEMMA UnlistedSaidIs ==
  ASSUME NEW h \in Hosts, NEW c \in Clients
  PROVE  LET r == SayToAll(Unlist(h, c), Removed(c))
         IN /\ r \in Hosts
            /\ r.seat = h.seat /\ r.nth = h.nth /\ r.link = h.link /\ r.listed = h.listed \ {c}
            /\ r.held = h.held \ {c} /\ r.fresh = h.fresh
            /\ r.waited[c] = 0 /\ \A x \in Clients \ {c} : r.waited[x] = h.waited[x]
            /\ r.changed = h.changed \ {c} /\ r.reconnectable = h.reconnectable
            /\ r.crossed = h.crossed /\ r.overtaken = h.overtaken
            /\ \A x \in Clients :
                 r.batch[x] = IF x \in Seated(h) /\ (x \in Watched \/ Removed(c) = Removed(x))
                              THEN Append(h.batch[x], Removed(c)) ELSE h.batch[x]
<1> DEFINE u == Unlist(h, c)
           m == Removed(c)
           r == SayToAll(u, m)
<1>1. m \in Messages
  BY RemovedIsSaid
<1>2. m = Removed(c)
  OBVIOUS
<1> HIDE DEF m
<1>3. /\ u \in Hosts
      /\ u.seat = h.seat /\ u.nth = h.nth /\ u.link = h.link /\ u.listed = h.listed \ {c}
      /\ u.held = h.held \ {c} /\ u.fresh = h.fresh
      /\ u.waited[c] = 0 /\ \A x \in Clients \ {c} : u.waited[x] = h.waited[x]
      /\ u.changed = h.changed \ {c} /\ u.reconnectable = h.reconnectable
      /\ u.crossed = h.crossed /\ u.overtaken = h.overtaken /\ u.batch = h.batch
  BY UnlistIs
<1>4. Seated(u) = Seated(h)
  BY <1>3 DEF Seated
<1> HIDE DEF u
<1>5. /\ r \in Hosts
      /\ r.seat = u.seat /\ r.nth = u.nth /\ r.link = u.link /\ r.listed = u.listed
      /\ r.held = u.held /\ r.waited = u.waited /\ r.fresh = u.fresh
      /\ r.changed = u.changed /\ r.reconnectable = u.reconnectable
      /\ r.crossed = u.crossed /\ r.overtaken = u.overtaken
      /\ \A x \in Clients :
           r.batch[x] = IF x \in Seated(u) /\ (x \in Watched \/ m = Removed(x)) THEN Append(u.batch[x], m)
                        ELSE u.batch[x]
  BY <1>1, <1>3, SayToAllIs
<1>6. SayToAll(Unlist(h, c), Removed(c)) = r
  BY <1>2 DEF u
<1> HIDE DEF r
<1> QED
  BY <1>2, <1>3, <1>4, <1>5, <1>6

\* A player's departure is known.
LEMMA DepartedKeeps ==
  ASSUME NEW g \in Hosts, NEW U \in SUBSET Clients, NEW h \in Mid(g, U), NEW c \in Clients
  PROVE  LET r == ParticipantDeparted(h, c) IN r \in Mid(g, U) /\ Goes(h, r) /\ Seated(r) \subseteq Seated(h)
<1>1. h \in Hosts /\ Goes(h, h)
  BY DEF Mid, Goes
<1>2. CASE h.seat[c] = "seated"
  BY <1>2, RemovedKeeps DEF ParticipantDeparted
<1>3. CASE h.seat[c] # "seated" /\ c \notin h.listed
  BY <1>1, <1>3 DEF ParticipantDeparted
<1>4. CASE h.seat[c] # "seated" /\ c \in h.listed
  <2> DEFINE u == Unlist(h, c)
             r == SayToAll(u, Removed(c))
  <2>1. u \in Mid(g, U) /\ Goes(h, u) /\ Seated(u) = Seated(h)
    BY <1>4, UnlistKeeps DEF Seated
  <2>2. ParticipantDeparted(h, c) = r
    BY <1>4 DEF ParticipantDeparted
  <2>3. u \in Hosts /\ Removed(c) \in Messages
    BY <2>1, RemovedIsSaid DEF Mid
  <2> HIDE DEF u
  <2>4. /\ r \in Hosts /\ r.seat = u.seat /\ r.nth = u.nth /\ r.listed = u.listed /\ r.held = u.held
        /\ r.waited = u.waited /\ r.fresh = u.fresh /\ r.changed = u.changed
        /\ r.overtaken = u.overtaken
    BY <2>3, SayToAllIs
  <2> HIDE DEF r
  <2>5. r \in Mid(g, U) /\ Goes(u, r) /\ Seated(r) = Seated(u)
    BY <2>1, <2>4, SameKeeps
  <2> QED BY <2>1, <2>2, <2>5 DEF Goes
<1> QED
  BY <1>2, <1>3, <1>4

\* A wait is over.
LEMMA DropKeeps ==
  ASSUME NEW g \in Hosts, NEW U \in SUBSET Clients, NEW h \in Mid(g, U), NEW c \in Clients
  PROVE  LET r == DropParticipant(h, c)
         IN r \in Mid(g, U) /\ Goes(h, r) /\ Timely(r, c) /\ Seated(r) = Seated(h)
<1> DEFINE v == SayToAll(Unlist(h, c), Removed(c))
           back == c \in Seated(h) \/ h.waited[c] = 0
           o == IF back THEN v.overtaken \cup {c} ELSE v.overtaken
           r == DropParticipant(h, c)
<1>1. h \in Hosts
  BY DEF Mid
<1>2. /\ v \in Hosts
      /\ v.seat = h.seat /\ v.nth = h.nth /\ v.fresh = h.fresh
      /\ v.listed = h.listed \ {c} /\ v.held = h.held \ {c}
      /\ v.waited[c] = 0 /\ \A x \in Clients \ {c} : v.waited[x] = h.waited[x]
      /\ v.changed = h.changed \ {c} /\ v.overtaken = h.overtaken
  BY <1>1, UnlistedSaidIs
<1>3. r = [v EXCEPT !.overtaken = o]
  BY DEF DropParticipant
<1> HIDE DEF v
<1>4. o \in SUBSET Clients /\ h.overtaken \subseteq o /\ (c \in Seated(h) => c \in o)
  BY <1>2, HostFields
<1> HIDE DEF o, back, r
<1>5. /\ r \in Hosts
      /\ r.seat = h.seat /\ r.nth = h.nth /\ r.fresh = h.fresh
      /\ r.listed = h.listed \ {c} /\ r.held = h.held \ {c}
      /\ r.waited[c] = 0 /\ \A x \in Clients \ {c} : r.waited[x] = h.waited[x]
      /\ r.changed = h.changed \ {c} /\ r.overtaken = o
  BY <1>2, <1>3, <1>4 DEF Hosts
<1>6. Seated(r) = Seated(h)
  BY <1>5 DEF Seated
<1>7. Goes(h, r) /\ Timely(r, c)
  BY <1>4, <1>5, <1>6, HoldAssumption DEF Goes, Seen, Timely
<1>8. Backed(r)
  BY <1>1, <1>5, <1>6, HostFields DEF Mid, Backed
<1>9. Since(g, r)
  BY <1>5, <1>6, <1>7 DEF Mid, Since, Goes
<1>10. Unheard(r, U)
  BY <1>5 DEF Mid, Unheard
<1> QED
  BY <1>5, <1>6, <1>7, <1>8, <1>9, <1>10 DEF Mid, r

\* Who was read of is announced.
LEMMA AnnounceIs ==
  ASSUME NEW h \in Hosts, NEW who \in SUBSET Clients
  PROVE  LET r == Announce(h, who)
         IN /\ r \in Hosts
            /\ r.seat = h.seat /\ r.nth = h.nth /\ r.link = h.link /\ r.listed = h.listed
            /\ r.held = h.held /\ r.waited = h.waited /\ r.fresh = h.fresh
            /\ r.changed = h.changed /\ r.reconnectable = h.reconnectable
            /\ r.crossed = h.crossed \cup (who \ h.listed)
            /\ r.overtaken = h.overtaken /\ r.batch = h.batch
<1> DEFINE x == h.crossed \cup (who \ h.listed)
<1>1. Announce(h, who) = [h EXCEPT !.crossed = x]
  BY DEF Announce
<1>2. x \in SUBSET Clients
  BY HostFields
<1> HIDE DEF x
<1>3. Announce(h, who).crossed = x
  BY <1>1 DEF Hosts
<1> QED
  BY <1>1, <1>2, <1>3 DEF Hosts, x

LEMMA SyncKeeps ==
  ASSUME NEW g \in Hosts, NEW U \in SUBSET Clients, NEW h \in Mid(g, U),
         NEW c \in Clients, NEW who \in SUBSET Clients
  PROVE  /\ SayToAll(Announce(h, who), Present(who)) \in Mid(g, U)
         /\ Goes(h, SayToAll(Announce(h, who), Present(who)))
         /\ SayTo(Announce(h, who), c, Present(who)) \in Mid(g, U)
         /\ Goes(h, SayTo(Announce(h, who), c, Present(who)))
         /\ Seated(SayToAll(Announce(h, who), Present(who))) = Seated(h)
         /\ Seated(SayTo(Announce(h, who), c, Present(who))) = Seated(h)
<1> DEFINE a == Announce(h, who)
           m == Present(who)
           r == SayToAll(a, m)
           t == SayTo(a, c, m)
<1>1. h \in Hosts /\ m \in Messages
  BY DEF Mid, Messages, Present
<1>2. /\ a \in Hosts /\ a.seat = h.seat /\ a.nth = h.nth /\ a.listed = h.listed /\ a.held = h.held
      /\ a.waited = h.waited /\ a.fresh = h.fresh /\ a.changed = h.changed
      /\ a.overtaken = h.overtaken
  BY <1>1, AnnounceIs
<1> HIDE DEF a, m
<1>3. /\ r \in Hosts /\ r.seat = h.seat /\ r.nth = h.nth /\ r.listed = h.listed /\ r.held = h.held
      /\ r.waited = h.waited /\ r.fresh = h.fresh /\ r.changed = h.changed
      /\ r.overtaken = h.overtaken
  BY <1>1, <1>2, SayToAllIs
<1>4. /\ t \in Hosts /\ t.seat = h.seat /\ t.nth = h.nth /\ t.listed = h.listed /\ t.held = h.held
      /\ t.waited = h.waited /\ t.fresh = h.fresh /\ t.changed = h.changed
      /\ t.overtaken = h.overtaken
  BY <1>1, <1>2, SayToIs
<1> HIDE DEF r, t
<1>5. r \in Mid(g, U) /\ Goes(h, r) /\ t \in Mid(g, U) /\ Goes(h, t)
      /\ Seated(r) = Seated(h) /\ Seated(t) = Seated(h)
  BY <1>3, <1>4, SameKeeps
<1> QED
  BY <1>5 DEF a, m, r, t

\* A seat is spawned where nobody sits.
LEMMA SpawnKeeps ==
  ASSUME NEW g \in Hosts, NEW U \in SUBSET Clients, NEW h \in Mid(g, U), NEW c \in Clients \ U,
         NEW kind \in {"pending", "redial"}, c \notin Seated(h)
  PROVE  LET r == SpawnSeat(h, c, kind)
         IN r \in Mid(g, U) /\ Goes(h, r) /\ Seated(r) = Seated(h)
<1> DEFINE z == [h.seat EXCEPT ![c] = kind]
           n == [h.nth EXCEPT ![c] = @ + 1]
           r == SpawnSeat(h, c, kind)
<1>1. h \in Hosts
  BY DEF Mid
<1>2. z \in [Clients -> Seats] /\ z[c] = kind /\ \A x \in Clients \ {c} : z[x] = h.seat[x]
  BY <1>1, HostFields DEF Seats
<1>3. /\ n \in [Clients -> Nat] /\ n[c] = h.nth[c] + 1 /\ \A x \in Clients \ {c} : n[x] = h.nth[x]
  BY <1>1, HostFields
<1>4. r = [h EXCEPT !.seat = z, !.nth = n]
  BY DEF SpawnSeat
<1> HIDE DEF z, n, r
<1>5. /\ r \in Hosts /\ r.seat = z /\ r.nth = n /\ r.listed = h.listed /\ r.held = h.held
      /\ r.waited = h.waited /\ r.fresh = h.fresh /\ r.changed = h.changed
      /\ r.overtaken = h.overtaken
  BY <1>1, <1>2, <1>3, <1>4 DEF Hosts
<1>6. Seated(r) = Seated(h)
  BY <1>2, <1>5 DEF Seated
<1>7. Goes(h, r)
  BY <1>5, <1>6 DEF Goes, Seen, Timely
<1>8. Backed(r)
  BY <1>5, <1>6 DEF Mid, Backed
<1>9. Since(g, r)
  <2> SUFFICES ASSUME NEW x \in Clients
               PROVE  /\ r.nth[x] >= g.nth[x]
                      /\ r.nth[x] # g.nth[x] => x \notin Seated(r)
                      /\ g.seat[x] = "none" /\ r.nth[x] = g.nth[x] => r.seat[x] = "none"
                      /\ x \in g.fresh.seats \/ Seen(r, x)
    BY DEF Since
  <2>1. /\ h.nth[x] >= g.nth[x] /\ h.nth[x] \in Nat /\ g.nth[x] \in Nat
        /\ h.nth[x] # g.nth[x] => x \notin Seated(h)
        /\ g.seat[x] = "none" /\ h.nth[x] = g.nth[x] => h.seat[x] = "none"
        /\ x \in g.fresh.seats \/ Seen(h, x)
    BY <1>1, HostFields DEF Mid, Since
  <2>2. CASE x = c
    <3>1. r.nth[x] >= g.nth[x] /\ r.nth[x] # g.nth[x]
      BY <1>3, <1>5, <2>1, <2>2
    <3> QED BY <1>6, <1>7, <2>1, <2>2, <3>1 DEF Goes
  <2>3. CASE x # c
    BY <1>2, <1>3, <1>5, <1>6, <1>7, <2>1, <2>3 DEF Goes
  <2> QED BY <2>2, <2>3
<1>10. Unheard(r, U)
  BY <1>2, <1>5 DEF Mid, Unheard
<1> QED
  BY <1>5, <1>6, <1>7, <1>8, <1>9, <1>10 DEF Mid, r

\* A seat is promoted.
LEMMA PromoteKeeps ==
  ASSUME NEW g \in Hosts, NEW U \in SUBSET Clients, NEW h \in Mid(g, U), NEW c \in Clients \ U,
         h.nth[c] = g.nth[c], g.seat[c] # "none"
  PROVE  LET r == PromoteSeat(h, c) IN r \in Mid(g, U) /\ Goes(h, r)
<1> DEFINE z == [h.seat EXCEPT ![c] = "seated"]
           f == [s \in DOMAIN h.fresh |-> h.fresh[s] \cup {c}]
           o == IF h.link[c] = "dialling" THEN h.overtaken \cup {c} ELSE h.overtaken
           r == PromoteSeat(h, c)
<1>1. h \in Hosts
  BY DEF Mid
<1>2. z \in [Clients -> Seats] /\ z[c] = "seated" /\ \A x \in Clients \ {c} : z[x] = h.seat[x]
  BY <1>1, HostFields DEF Seats
<1>3. f \in [Stages -> SUBSET Clients] /\ \A s \in Stages : f[s] = h.fresh[s] \cup {c}
  BY <1>1, HostFields
<1>4. o \in SUBSET Clients /\ h.overtaken \subseteq o
  BY <1>1, HostFields
<1>5. r = [h EXCEPT !.seat = z, !.fresh = f, !.overtaken = o]
  BY DEF PromoteSeat
<1> HIDE DEF z, f, o, r
<1>6. /\ r \in Hosts /\ r.seat = z /\ r.nth = h.nth /\ r.listed = h.listed /\ r.held = h.held
      /\ r.waited = h.waited /\ r.fresh = f /\ r.changed = h.changed /\ r.overtaken = o
  BY <1>1, <1>2, <1>3, <1>4, <1>5 DEF Hosts, Stages
<1>7. Seated(r) = Seated(h) \cup {c}
  BY <1>2, <1>6 DEF Seated
<1>8. r.fresh.seats = h.fresh.seats \cup {c}
  BY <1>3, <1>6 DEF Stages
<1>9. Goes(h, r)
  BY <1>4, <1>6, <1>7, <1>8 DEF Goes, Seen, Timely
<1>10. Backed(r)
  BY <1>3, <1>6, <1>7 DEF Mid, Backed
<1>11. Since(g, r)
  BY <1>2, <1>6, <1>7, <1>9 DEF Mid, Since, Goes
<1>12. Unheard(r, U)
  BY <1>2, <1>6 DEF Mid, Unheard
<1> QED
  BY <1>6, <1>9, <1>10, <1>11, <1>12 DEF Mid, r

\* A command, whatever it is.
LEMMA DoKeeps ==
  ASSUME NEW g \in Hosts, NEW U \in SUBSET Clients, NEW h \in Mid(g, U), NEW k \in Orders(g, U),
         k.do = "spawn" => k.of \notin Seated(h)
  PROVE  LET r == Do(h, k)
         IN /\ r \in Mid(g, U) /\ Goes(h, r)
            /\ k.do = "seat" => Seen(r, k.of)
            /\ k.do = "drop" => Timely(r, k.of)
            /\ k.do # "promote" => Seated(r) \subseteq Seated(h)
            /\ k.do = "despawn" /\ k.nth = g.nth[k.of] => k.of \notin Seated(r)
<1> DEFINE r == Do(h, k)
           c == k.of
<1>1. h \in Hosts /\ Goes(h, h) /\ c \in Clients
  BY DEF Mid, Goes, Orders
<1>2. Gone(h, k) /\ k.nth = g.nth[c] => c \notin Seated(h)
  BY <1>1 DEF Gone, Mid, Since, Seated
<1>3. CASE k.do = "seat"
  <2>1. k.nth = g.nth[c] /\ r = SeatParticipant(h, k)
    BY <1>3 DEF Orders, Do
  <2> QED BY <1>1, <1>3, <2>1, SeatParticipantKeeps
<1>4. CASE k.do = "departed"
  <2>1. r = ParticipantDeparted(h, c)
    BY <1>4 DEF Do
  <2> QED BY <1>1, <1>4, <2>1, DepartedKeeps
<1>5. CASE k.do = "drop"
  <2>1. r = DropParticipant(h, c)
    BY <1>5 DEF Do
  <2> QED BY <1>1, <1>5, <2>1, DropKeeps
<1>6. CASE k.do \in {"sync", "syncTo"}
  <2>1. k.who \in SUBSET Clients
    BY <1>6 DEF Orders
  <2>2. r \in {h, SayToAll(Announce(h, k.who), Present(k.who)), SayTo(Announce(h, k.who), c, Present(k.who))}
    BY <1>6 DEF Do
  <2>3. r \in Mid(g, U) /\ Goes(h, r) /\ Seated(r) = Seated(h)
    BY <1>1, <2>1, <2>2, SyncKeeps
  <2> QED BY <1>6, <2>3
<1>7. CASE k.do = "spawn"
  <2>1. r = SpawnSeat(h, c, k.kind) /\ c \in Clients \ U /\ k.kind \in {"pending", "redial"}
    BY <1>7 DEF Orders, Do
  <2> QED BY <1>7, <2>1, SpawnKeeps
<1>8. CASE k.do = "promote"
  <2>1. k.nth = g.nth[c] /\ g.seat[c] # "none" /\ c \in Clients \ U
    BY <1>8 DEF Orders
  <2>2. CASE Gone(h, k)
    <3> DEFINE v == [h EXCEPT !.panicked = TRUE]
    <3>1. r = v
      BY <1>8, <2>2 DEF Do
    <3>2. /\ v \in Hosts /\ v.seat = h.seat /\ v.nth = h.nth /\ v.listed = h.listed /\ v.held = h.held
          /\ v.waited = h.waited /\ v.fresh = h.fresh /\ v.changed = h.changed
          /\ v.overtaken = h.overtaken
      BY <1>1 DEF Hosts
    <3> HIDE DEF v
    <3> QED BY <1>8, <3>1, <3>2, SameKeeps
  <2>3. CASE ~Gone(h, k)
    <3>1. r = PromoteSeat(h, c) /\ h.nth[c] = g.nth[c]
      BY <1>8, <2>1, <2>3 DEF Do, Gone
    <3> QED BY <1>8, <2>1, <3>1, PromoteKeeps
  <2> QED BY <2>2, <2>3
<1>9. CASE k.do = "linkLost"
  <2>1. r \in {h, SeatLinkLost(h, c)}
    BY <1>9 DEF Do
  <2> QED BY <1>1, <1>9, <2>1, LinkLostKeeps
<1>10. CASE k.do = "despawn"
  <2>1. r = IF Gone(h, k) THEN h ELSE DespawnSeat(h, c)
    BY <1>10 DEF Do
  <2>2. CASE Gone(h, k)
    BY <1>1, <1>2, <1>10, <2>1, <2>2
  <2>3. CASE ~Gone(h, k) /\ h.seat[c] = "seated"
    <3>1. r = OnSeatRemoved(h, c)
      BY <2>1, <2>3 DEF DespawnSeat
    <3> QED BY <1>1, <1>10, <3>1, RemovedKeeps
  <2>4. CASE ~Gone(h, k) /\ h.seat[c] # "seated"
    <3>1. r = Unseat(h, c) /\ c \notin Seated(h)
      BY <2>1, <2>4 DEF DespawnSeat, Seated
    <3> QED BY <1>1, <1>10, <3>1, UnseatKeeps
  <2> QED BY <2>2, <2>3, <2>4
<1>11. k.do \in {"seat", "departed", "drop", "sync", "syncTo", "spawn", "promote", "linkLost", "despawn"}
  BY DEF Orders
<1> HIDE DEF r, c
<1> QED
  BY <1>3, <1>4, <1>5, <1>6, <1>7, <1>8, <1>9, <1>10, <1>11 DEF r, c

------------------------------------------------------------------------------
\* Loops

\* J says what is true after so many commands.
LEMMA ApplyAlong ==
  ASSUME NEW q, NEW n \in Nat, n = Len(q), NEW J, NEW h \in J[0],
         \A i \in 1..n : \A v \in J[i - 1] : Do(v, q[i]) \in J[i]
  PROVE  Apply(h, q) \in J[n]
<1> DEFINE S == UNION {J[i] : i \in 0..n}
           safe(i, v) == IF Do(v, q[i]) \in S THEN Do(v, q[i]) ELSE v
           step == [i \in 1..n |-> [v \in S |-> safe(i, v)]]
           so[i \in 0..Len(q)] == IF i = 0 THEN h ELSE Do(so[i - 1], q[i])
<1>1. Apply(h, q) = so[n]
  BY DEF Apply, InTurn
<1>2. \A i \in 0..n : J[i] \subseteq S
  OBVIOUS
<1>3. h \in S
  BY <1>2
<1>4. step \in [1..n -> [S -> S]]
  OBVIOUS
<1>5. \A i \in 1..n : \A v \in J[i - 1] : v \in S /\ Do(v, q[i]) \in S /\ step[i][v] = Do(v, q[i])
  <2> SUFFICES ASSUME NEW i \in 1..n, NEW v \in J[i - 1]
               PROVE  v \in S /\ Do(v, q[i]) \in S /\ step[i][v] = Do(v, q[i])
    OBVIOUS
  <2>1. i - 1 \in 0..n /\ i \in 0..n
    OBVIOUS
  <2>2. v \in S /\ Do(v, q[i]) \in S
    BY <1>2, <2>1
  <2> HIDE DEF S
  <2> QED BY <2>2
<1> HIDE DEF S, step
<1>6. PICK f \in [0..n -> S] : Follows(f, h, n, step)
  BY <1>3, <1>4, Folds
<1>7. ASSUME NEW i \in 0..n PROVE f[i] \in J[i]
  <2>1. f[0] \in J[0]
    BY <1>6 DEF Follows
  <2>2. ASSUME NEW j \in 1..i, f[j - 1] \in J[j - 1] PROVE f[j] \in J[j]
    <3>1. j \in 1..n
      BY <1>7
    <3>2. f[j] = step[j][f[j - 1]]
      BY <1>6, <3>1 DEF Follows
    <3> QED BY <1>5, <2>2, <3>1, <3>2
  <2>3. i \in Nat
    BY <1>7
  <2> QED BY <2>1, <2>2, <2>3, GrowsAlong
<1>8. f = [i \in 0..n |-> IF i = 0 THEN h ELSE Do(f[i - 1], q[i])]
  <2>1. ASSUME NEW i \in 0..n, i # 0 PROVE f[i] = Do(f[i - 1], q[i])
    <3>1. i \in 1..n /\ i - 1 \in 0..n
      BY <2>1
    <3>2. f[i - 1] \in J[i - 1]
      BY <1>7, <3>1
    <3>3. f[i] = step[i][f[i - 1]]
      BY <1>6, <3>1 DEF Follows
    <3> QED BY <1>5, <3>1, <3>2, <3>3
  <2> QED BY <1>6, <2>1 DEF Follows
<1>9. so = [i \in 0..n |-> IF i = 0 THEN h ELSE Do(so[i - 1], q[i])]
  BY <1>8
<1> HIDE DEF so
<1>10. so[0] \in J[0]
  BY <1>9
<1>11. ASSUME NEW i \in 1..n, so[i - 1] \in J[i - 1] PROVE so[i] \in J[i]
  <2>1. so[i] = Do(so[i - 1], q[i])
    BY <1>9
  <2> QED BY <1>11, <2>1
<1> QED
  BY <1>1, <1>10, <1>11, GrowsAlong

Flushed(b, order, stale) == InTurn(LAMBDA h, s : Apply(h, Queued(s, stale)), b, order)
\* The same of the systems, each with all its commands.
LEMMA FlushedAlong ==
  ASSUME NEW q, NEW n \in Nat, n = Len(q), NEW J, NEW h \in J[0], NEW stale,
         \A i \in 1..n : \A v \in J[i - 1] : Apply(v, Queued(q[i], stale)) \in J[i]
  PROVE  Flushed(h, q, stale) \in J[n]
<1> DEFINE one(v, k) == Apply(v, Queued(k, stale))
           S == UNION {J[i] : i \in 0..n}
           safe(i, v) == IF one(v, q[i]) \in S THEN one(v, q[i]) ELSE v
           step == [i \in 1..n |-> [v \in S |-> safe(i, v)]]
           so[i \in 0..Len(q)] == IF i = 0 THEN h ELSE one(so[i - 1], q[i])
<1>1. Flushed(h, q, stale) = so[n]
  BY DEF Flushed, InTurn
<1>0. \A i \in 1..n : \A v \in J[i - 1] : one(v, q[i]) \in J[i]
  OBVIOUS
<1> HIDE DEF one
<1>2. \A i \in 0..n : J[i] \subseteq S
  OBVIOUS
<1>3. h \in S
  BY <1>2
<1>4. step \in [1..n -> [S -> S]]
  OBVIOUS
<1>5. \A i \in 1..n : \A v \in J[i - 1] : v \in S /\ one(v, q[i]) \in S /\ step[i][v] = one(v, q[i])
  <2> SUFFICES ASSUME NEW i \in 1..n, NEW v \in J[i - 1]
               PROVE  v \in S /\ one(v, q[i]) \in S /\ step[i][v] = one(v, q[i])
    OBVIOUS
  <2>1. i - 1 \in 0..n /\ i \in 0..n
    OBVIOUS
  <2>2. v \in S /\ one(v, q[i]) \in S
    BY <1>0, <1>2, <2>1
  <2> HIDE DEF S
  <2> QED BY <2>2
<1> HIDE DEF S, step
<1>6. PICK f \in [0..n -> S] : Follows(f, h, n, step)
  BY <1>3, <1>4, Folds
<1>7. ASSUME NEW i \in 0..n PROVE f[i] \in J[i]
  <2>1. f[0] \in J[0]
    BY <1>6 DEF Follows
  <2>2. ASSUME NEW j \in 1..i, f[j - 1] \in J[j - 1] PROVE f[j] \in J[j]
    <3>1. j \in 1..n
      BY <1>7
    <3>2. f[j] = step[j][f[j - 1]]
      BY <1>6, <3>1 DEF Follows
    <3> QED BY <1>0, <1>5, <2>2, <3>1, <3>2
  <2>3. i \in Nat
    BY <1>7
  <2> QED BY <2>1, <2>2, <2>3, GrowsAlong
<1>8. f = [i \in 0..n |-> IF i = 0 THEN h ELSE one(f[i - 1], q[i])]
  <2>1. ASSUME NEW i \in 0..n, i # 0 PROVE f[i] = one(f[i - 1], q[i])
    <3>1. i \in 1..n /\ i - 1 \in 0..n
      BY <2>1
    <3>2. f[i - 1] \in J[i - 1]
      BY <1>7, <3>1
    <3>3. f[i] = step[i][f[i - 1]]
      BY <1>6, <3>1 DEF Follows
    <3> QED BY <1>5, <3>1, <3>2, <3>3
  <2> QED BY <1>6, <2>1 DEF Follows
<1>9. so = [i \in 0..n |-> IF i = 0 THEN h ELSE one(so[i - 1], q[i])]
  BY <1>8
<1> HIDE DEF so
<1>10. so[0] \in J[0]
  BY <1>9
<1>11. ASSUME NEW i \in 1..n, so[i - 1] \in J[i - 1] PROVE so[i] \in J[i]
  <2>1. so[i] = one(so[i - 1], q[i])
    BY <1>9
  <2> QED BY <1>0, <1>11, <2>1
<1> QED
  BY <1>1, <1>10, <1>11, GrowsAlong

------------------------------------------------------------------------------
\* A queue

\* The i-th command finds the seat gone that g had for c, if none is promoted meanwhile.
Retired(g, q, i, c) == \E j \in 1..(i - 1) : q[j].do = "despawn" /\ q[j].of = c /\ q[j].nth = g.nth[c]
Promotes(q) == \E i \in 1..Len(q) : q[i].do = "promote"
\* What one system queues: a seat is spawned only where there was none, or where one
\* is despawned before.
Ready(g, unknown, q) ==
  /\ q \in Seq(Orders(g, unknown))
  /\ \A i \in 1..Len(q) :
       q[i].do = "spawn" => g.seat[q[i].of] = "none" \/ (~Promotes(q) /\ Retired(g, q, i, q[i].of))
\* The first i commands had their effect.
Done(q, i, v) ==
  \A j \in 1..i : /\ q[j].do = "seat" => Seen(v, q[j].of)
                  /\ q[j].do = "drop" => Timely(v, q[j].of)

LEMMA GoesOn ==
  ASSUME NEW h, NEW v, NEW r, Goes(h, v), Goes(v, r)
  PROVE  Goes(h, r)
  BY DEF Goes

\* A queue is worked off.
LEMMA QueueKeeps ==
  ASSUME NEW g \in Hosts, NEW U \in SUBSET Clients, NEW h \in Mid(g, U), NEW q, Ready(g, U, q)
  PROVE  LET r == Apply(h, q) IN r \in Mid(g, U) /\ Goes(h, r) /\ Done(q, Len(q), r)
<1> DEFINE n == Len(q)
           off(i, v) == \A j \in 1..i : q[j].do = "despawn" /\ q[j].nth = g.nth[q[j].of] => q[j].of \notin Seated(v)
           J == [i \in 0..n |-> {v \in Mid(g, U) : Goes(h, v) /\ Done(q, i, v) /\ (Promotes(q) \/ off(i, v))}]
<1>1. n \in Nat /\ \A i \in 1..n : q[i] \in Orders(g, U)
  BY DEF Ready
<1>2. h \in J[0]
  BY <1>1 DEF Goes, Done
<1>3. ASSUME NEW i \in 1..n, NEW v \in J[i - 1] PROVE Do(v, q[i]) \in J[i]
  <2> DEFINE k == q[i]
             c == q[i].of
             r == Do(v, q[i])
  <2>1. i \in 0..n /\ i - 1 \in 0..n
    BY <1>1
  <2>2. v \in Mid(g, U) /\ Goes(h, v) /\ Done(q, i - 1, v) /\ (Promotes(q) \/ off(i - 1, v))
    BY <2>1
  <2> HIDE DEF J
  <2>3. k \in Orders(g, U) /\ c \in Clients
    BY <1>1 DEF Orders
  <2>4. k.do = "spawn" => c \notin Seated(v)
    <3>1. CASE g.seat[c] = "none"
      BY <2>2, <2>3, <3>1 DEF Mid, Since, Seated
    <3>2. CASE k.do = "spawn" /\ ~Promotes(q) /\ Retired(g, q, i, c)
      BY <2>2, <3>2 DEF Retired
    <3> QED BY <3>1, <3>2 DEF Ready
  <2>5. /\ r \in Mid(g, U) /\ Goes(v, r)
        /\ k.do = "seat" => Seen(r, c)
        /\ k.do = "drop" => Timely(r, c)
        /\ k.do # "promote" => Seated(r) \subseteq Seated(v)
        /\ k.do = "despawn" /\ k.nth = g.nth[c] => c \notin Seated(r)
    BY <2>2, <2>3, <2>4, DoKeeps
  <2> HIDE DEF r
  <2>6. \A j \in 1..i : j \in 1..(i - 1) \/ j = i
    BY <1>1
  <2>7. Done(q, i, r)
    <3> SUFFICES ASSUME NEW j \in 1..i
                 PROVE  /\ q[j].do = "seat" => Seen(r, q[j].of)
                        /\ q[j].do = "drop" => Timely(r, q[j].of)
      BY DEF Done
    <3>1. CASE j = i
      BY <2>5, <3>1
    <3>2. CASE j \in 1..(i - 1)
      <4>1. q[j].of \in Clients
        BY <1>1, <3>2 DEF Orders
      <4> QED BY <2>2, <2>5, <3>2, <4>1 DEF Done, Goes
    <3> QED BY <2>6, <3>1, <3>2
  <2>8. Promotes(q) \/ off(i, r)
    <3>1. CASE Promotes(q)
      BY <3>1
    <3>2. CASE ~Promotes(q)
      <4>1. k.do # "promote"
        BY <3>2 DEF Promotes
      <4> QED BY <2>2, <2>5, <2>6, <3>2, <4>1
    <3> QED BY <3>1, <3>2
  <2>9. Goes(h, r)
    BY <2>2, <2>5, GoesOn
  <2> QED BY <2>1, <2>5, <2>7, <2>8, <2>9 DEF J, r
<1> HIDE DEF J
<1>4. Apply(h, q) \in J[n]
  BY <1>1, <1>2, <1>3, ApplyAlong
<1> QED
  BY <1>1, <1>4 DEF J

\* Each is listed once.
LEMMA ListedOnce ==
  ASSUME NEW T, IsFiniteSet(T)
  PROVE  SetToSeq(T) \in Seq(T) /\ \A t \in T : \E i \in 1..Len(SetToSeq(T)) : SetToSeq(T)[i] = t
<1> DEFINE n == Cardinality(T)
           s == SetToSeq(T)
<1>1. n \in Nat /\ \E f \in [1..n -> T] : IsInjective(f)
  BY Listings
<1>2. s \in [1..n -> T] /\ IsInjective(s)
  BY <1>1 DEF SetToSeq
<1>3. s \in Seq(T) /\ Range(s) = T
  BY <1>2, Listings
<1> HIDE DEF s
<1> QED
  BY <1>3 DEF Range, s

\* A command for each of some players.
Each(who, f) == SetToSeq({f[c] : c \in who})
LEMMA EachIs ==
  ASSUME NEW who \in SUBSET Clients, NEW f
  PROVE  /\ Each(who, f) \in Seq({f[c] : c \in who})
         /\ Len(Each(who, f)) \in Nat
         /\ \A i \in 1..Len(Each(who, f)) : \E c \in who : Each(who, f)[i] = f[c]
         /\ \A c \in who : \E i \in 1..Len(Each(who, f)) : Each(who, f)[i] = f[c]
<1> DEFINE T == {f[c] : c \in who}
           q == SetToSeq(T)
           m == [c \in who |-> f[c]]
<1>1. IsFiniteSet(who)
  BY ClientsAssumption, FS_Subset
<1>2. m \in Surjection(who, T)
  BY DEF Surjection
<1>3. IsFiniteSet(T)
  BY <1>1, <1>2, FS_Surjection
<1>4. q \in Seq(T) /\ \A t \in T : \E i \in 1..Len(q) : q[i] = t
  BY <1>3, ListedOnce
<1> HIDE DEF q
<1>5. Len(q) \in Nat /\ \A i \in 1..Len(q) : q[i] \in T
  BY <1>4
<1>6. \A i \in 1..Len(q) : \E c \in who : q[i] = f[c]
  BY <1>5
<1>7. \A c \in who : \E i \in 1..Len(q) : q[i] = f[c]
  BY <1>4
<1>8. q = Each(who, f)
  BY DEF Each, q
<1> QED
  BY <1>4, <1>5, <1>6, <1>7, <1>8

LEMMA EachHas ==
  ASSUME NEW who \in SUBSET Clients, NEW f
  PROVE  /\ Len(Each(who, f)) \in Nat
         /\ \A i \in 1..Len(Each(who, f)) : \E c \in who : Each(who, f)[i] = f[c]
         /\ \A c \in who : \E i \in 1..Len(Each(who, f)) : Each(who, f)[i] = f[c]
<1> DEFINE T == {f[c] : c \in who}
<1>1. /\ Each(who, f) \in Seq(T)
      /\ Len(Each(who, f)) \in Nat
      /\ \A i \in 1..Len(Each(who, f)) : \E c \in who : Each(who, f)[i] = f[c]
      /\ \A c \in who : \E i \in 1..Len(Each(who, f)) : Each(who, f)[i] = f[c]
  BY EachIs
<1> HIDE DEF T
<1> QED BY <1>1

LEMMA EachIn ==
  ASSUME NEW who \in SUBSET Clients, NEW f, NEW S, \A c \in who : f[c] \in S
  PROVE  Each(who, f) \in Seq(S)
<1> DEFINE T == {f[c] : c \in who}
           q == Each(who, f)
<1>1. q \in Seq(T)
  BY EachIs
<1>2. T \subseteq S
  OBVIOUS
<1> HIDE DEF T, q
<1>3. q \in Seq(S)
  BY <1>1, <1>2
<1> QED
  BY <1>3 DEF q

------------------------------------------------------------------------------
\* What the systems queue

\* A queue of one command each that spawns only where there is no seat.
LEMMA EachReady ==
  ASSUME NEW g, NEW U, NEW who \in SUBSET Clients, NEW f,
         \A c \in who : f[c] \in Orders(g, U) /\ (f[c].do = "spawn" => g.seat[f[c].of] = "none")
  PROVE  Ready(g, U, Each(who, f))
<1> DEFINE S == Orders(g, U)
<1>0. \A c \in who : f[c] \in S
  OBVIOUS
<1> HIDE DEF S
<1>1. Each(who, f) \in Seq(S)
  BY <1>0, EachIn
<1>2. \A i \in 1..Len(Each(who, f)) : \E c \in who : Each(who, f)[i] = f[c]
  BY EachHas
<1> QED
  BY <1>1, <1>2 DEF Ready, S

\* One queue behind another.
LEMMA BothReady ==
  ASSUME NEW g, NEW U, NEW a \in Seq(Orders(g, U)), NEW b \in Seq(Orders(g, U)),
         \A i \in 1..Len(a) : a[i].do = "spawn" => g.seat[a[i].of] = "none",
         \A i \in 1..Len(b) :
           b[i].do = "spawn" =>
             \/ g.seat[b[i].of] = "none"
             \/ /\ \E j \in 1..Len(a) : a[j].do = "despawn" /\ a[j].of = b[i].of /\ a[j].nth = g.nth[b[i].of]
                /\ \A j \in 1..Len(a) : a[j].do # "promote"
                /\ \A j \in 1..Len(b) : b[j].do # "promote"
  PROVE  Ready(g, U, a \o b)
<1> DEFINE q == a \o b
           m == Len(a)
<1>1. /\ q \in Seq(Orders(g, U)) /\ Len(q) = m + Len(b) /\ m \in Nat /\ Len(b) \in Nat
      /\ \A i \in 1..m : q[i] = a[i]
      /\ \A i \in 1..Len(q) : i \in 1..m \/ (i - m \in 1..Len(b) /\ q[i] = b[i - m] /\ i > m)
  OBVIOUS
<1> HIDE DEF q, m
<1>2. ASSUME NEW i \in 1..Len(q), q[i].do = "spawn"
      PROVE  g.seat[q[i].of] = "none" \/ (~Promotes(q) /\ Retired(g, q, i, q[i].of))
  <2>1. CASE i \in 1..m
    BY <1>1, <1>2, <2>1 DEF m
  <2>2. CASE i - m \in 1..Len(b) /\ q[i] = b[i - m] /\ i > m /\ g.seat[q[i].of] # "none"
    <3> DEFINE t == i - m
    <3>0. t \in 1..Len(b) /\ b[t] = q[i] /\ b[t].do = "spawn" /\ g.seat[b[t].of] # "none"
      BY <1>2, <2>2
    <3> HIDE DEF t
    <3>5. /\ \E j \in 1..Len(a) : a[j].do = "despawn" /\ a[j].of = b[t].of /\ a[j].nth = g.nth[b[t].of]
          /\ \A j \in 1..Len(a) : a[j].do # "promote"
          /\ \A j \in 1..Len(b) : b[j].do # "promote"
      BY <3>0
    <3>1. /\ \E j \in 1..m : a[j].do = "despawn" /\ a[j].of = q[i].of /\ a[j].nth = g.nth[q[i].of]
          /\ \A j \in 1..m : a[j].do # "promote"
          /\ \A j \in 1..Len(b) : b[j].do # "promote"
      BY <3>0, <3>5 DEF m
    <3>2. ~Promotes(q)
      <4> SUFFICES ASSUME NEW j \in 1..Len(q) PROVE q[j].do # "promote"
        BY DEF Promotes
      <4>1. j \in 1..m \/ (j - m \in 1..Len(b) /\ q[j] = b[j - m])
        BY <1>1
      <4>2. CASE j \in 1..m
        BY <1>1, <3>1, <4>2
      <4>3. CASE j - m \in 1..Len(b) /\ q[j] = b[j - m]
        BY <3>1, <4>3
      <4> QED BY <4>1, <4>2, <4>3
    <3>3. 1..m \subseteq 1..(i - 1)
      BY <1>1, <2>2
    <3>4. Retired(g, q, i, q[i].of)
      BY <1>1, <3>1, <3>3 DEF Retired
    <3> QED BY <3>2, <3>4
  <2> QED BY <1>1, <2>1, <2>2
<1> QED
  BY <1>1, <1>2 DEF Ready, q

\* What a system can count on: nobody of unknown is to be spawned a seat.
Heeds(unknown, s) ==
  /\ unknown \in SUBSET Clients /\ Unheard(host, unknown)
  /\ s = "events" => unknown \cap Read("joined") = {}
  /\ \A c \in Read("joined") : host.seat[c] = "none"
  /\ host.held \subseteq host.listed

LEMMA OnSeatIs ==
  ASSUME host \in Hosts, NEW U, NEW c \in Clients, NEW what
  PROVE  LET k == OnSeat(what, c)
         IN /\ k.do = what /\ k.of = c /\ k.nth = host.nth[c]
            /\ what \in {"seat", "linkLost", "despawn"} => k \in Orders(host, U)
            /\ what = "promote" /\ host.seat[c] # "none" /\ c \notin U => k \in Orders(host, U)
<1>1. host.nth[c] \in Nat
  BY HostFields
<1> QED
  BY <1>1 DEF OnSeat, Orders

LEMMA SocketsReady ==
  ASSUME host \in Hosts, NEW U
  PROVE  Ready(host, U, Sockets)
<1> DEFINE who == {c \in Read("broken") : Has(c)}
           f == [c \in Clients |-> OnSeat(IF host.seat[c] = "seated" THEN "linkLost" ELSE "despawn", c)]
<1>1. who \in SUBSET Clients
  BY DEF Read
<1>2. ASSUME NEW c \in who PROVE f[c] \in Orders(host, U) /\ f[c].do # "spawn"
  <2>1. f[c] = OnSeat("linkLost", c) \/ f[c] = OnSeat("despawn", c)
    BY <1>1
  <2> HIDE DEF f, who
  <2>2. c \in Clients
    BY <1>1
  <2>3. ASSUME NEW w \in {"seat", "linkLost", "despawn"}
        PROVE  /\ OnSeat(w, c).do = w /\ OnSeat(w, c).of = c /\ OnSeat(w, c).nth = host.nth[c]
               /\ OnSeat(w, c) \in Orders(host, U)
    BY <2>2, OnSeatIs
  <2> QED BY <2>1, <2>3
<1>3. Sockets = Each(who, f)
  BY <1>1 DEF Sockets, ForEach, Each
<1> HIDE DEF who, f
<1> QED BY <1>1, <1>2, <1>3, EachReady

LEMMA GameReady ==
  ASSUME host \in Hosts, NEW U
  PROVE  Ready(host, U, Game)
<1> DEFINE who == {c \in Read("kick") : Has(c)}
           f == [c \in Clients |-> OnSeat("despawn", c)]
<1>1. who \in SUBSET Clients
  BY DEF Read
<1>2. ASSUME NEW c \in who
      PROVE  f[c] \in Orders(host, U) /\ f[c].do = "despawn" /\ f[c].of = c
  <2>1. f[c] = OnSeat("despawn", c)
    BY <1>1
  <2> HIDE DEF f, who
  <2>2. c \in Clients
    BY <1>1
  <2>3. ASSUME NEW w \in {"seat", "linkLost", "despawn"}
        PROVE  /\ OnSeat(w, c).do = w /\ OnSeat(w, c).of = c /\ OnSeat(w, c).nth = host.nth[c]
               /\ OnSeat(w, c) \in Orders(host, U)
    BY <2>2, OnSeatIs
  <2> QED BY <2>1, <2>3
<1>3. Game = Each(who, f)
  <2>1. {f[c] : c \in who} = {OnSeat("despawn", c) : c \in who}
    BY <1>1
  <2> QED BY <2>1 DEF Game, ForEach, Each
<1> HIDE DEF who, f
<1> QED BY <1>1, <1>2, <1>3, EachReady

LEMMA PromotionReady ==
  ASSUME host \in Hosts, NEW U, Unheard(host, U)
  PROVE  Ready(host, U, Promotion)
<1> DEFINE who == {c \in Read("handshake") : host.seat[c] \in {"pending", "redial"}}
           f == [c \in Clients |-> OnSeat("promote", c)]
<1>1. who \in SUBSET Clients /\ \A c \in who : c \notin U /\ host.seat[c] # "none"
  BY DEF Read, Unheard
<1>2. ASSUME NEW c \in who
      PROVE  f[c] \in Orders(host, U) /\ f[c].do = "promote" /\ f[c].of = c
  <2>1. f[c] = OnSeat("promote", c)
    BY <1>1
  <2> HIDE DEF f, who
  <2>2. c \in Clients
    BY <1>1
  <2>3. c \notin U /\ host.seat[c] # "none"
    BY <1>1
  <2>4. LET k == OnSeat("promote", c) IN k.do = "promote" /\ k.of = c /\ k \in Orders(host, U)
    BY <2>2, <2>3, OnSeatIs
  <2> QED BY <2>1, <2>4
<1>3. Promotion = Each(who, f)
  <2>1. {f[c] : c \in who} = {OnSeat("promote", c) : c \in who}
    BY <1>1
  <2> QED BY <2>1 DEF Promotion, ForEach, Each
<1> HIDE DEF who, f
<1> QED BY <1>1, <1>2, <1>3, EachReady

LEMMA ClocksReady ==
  ASSUME host \in Hosts, NEW U
  PROVE  /\ Ready(host, U, Clocks)
         /\ \A c \in host.held : Waited[c] >= Hold =>
              \E i \in 1..Len(Clocks) : Clocks[i].do = "drop" /\ Clocks[i].of = c
<1> DEFINE who == {c \in host.held : Waited[c] >= Hold}
           f == [c \in Clients |-> [do |-> "drop", of |-> c]]
<1>1. who \in SUBSET Clients
  BY HostFields
<1>2. \A c \in who : f[c] \in Orders(host, U) /\ (f[c].do = "spawn" => host.seat[f[c].of] = "none")
  BY <1>1 DEF Orders
<1>3. Clocks = Each(who, f)
  <2>1. {f[c] : c \in who} = {[do |-> "drop", of |-> c] : c \in who}
    BY <1>1
  <2> QED BY <2>1 DEF Clocks, ForEach, Each
<1>4. \A c \in who : f[c].do = "drop" /\ f[c].of = c
  BY <1>1
<1>5. \A c \in host.held : Waited[c] >= Hold => c \in who
  OBVIOUS
<1> HIDE DEF who, f
<1>6. \A c \in who : \E i \in 1..Len(Each(who, f)) : Each(who, f)[i] = f[c]
  BY <1>1, EachHas
<1>7. Ready(host, U, Each(who, f))
  BY <1>1, <1>2, EachReady
<1> QED BY <1>3, <1>4, <1>5, <1>6, <1>7

LEMMA NewSeatsReady ==
  ASSUME host \in Hosts, NEW U
  PROVE  /\ Ready(host, U, NewSeats)
         /\ \A c \in host.fresh.seats : \E i \in 1..Len(NewSeats) : NewSeats[i].do = "seat" /\ NewSeats[i].of = c
<1> DEFINE who == host.fresh.seats
           f == [c \in Clients |-> OnSeat("seat", c)]
<1>1. who \in SUBSET Clients
  BY HostFields DEF Stages
<1>2. ASSUME NEW c \in who
      PROVE  f[c] \in Orders(host, U) /\ f[c].do = "seat" /\ f[c].of = c
  <2>1. f[c] = OnSeat("seat", c)
    BY <1>1
  <2> HIDE DEF f, who
  <2>2. c \in Clients
    BY <1>1
  <2>3. ASSUME NEW w \in {"seat", "linkLost", "despawn"}
        PROVE  /\ OnSeat(w, c).do = w /\ OnSeat(w, c).of = c /\ OnSeat(w, c).nth = host.nth[c]
               /\ OnSeat(w, c) \in Orders(host, U)
    BY <2>2, OnSeatIs
  <2> QED BY <2>1, <2>3
<1>3. NewSeats = Each(who, f)
  <2>1. {f[c] : c \in who} = {OnSeat("seat", c) : c \in who}
    BY <1>1
  <2> QED BY <2>1 DEF NewSeats, ForEach, Each
<1> HIDE DEF f
<1>4. \A c \in who : \E i \in 1..Len(Each(who, f)) : Each(who, f)[i] = f[c]
  BY <1>1, EachHas
<1> QED BY <1>1, <1>2, <1>3, <1>4, EachReady

LEMMA SyncNewSeatsReady ==
  ASSUME host \in Hosts, NEW U
  PROVE  Ready(host, U, SyncNewSeats)
<1> DEFINE who == host.fresh.syncs
           f == [c \in Clients |-> [do |-> "syncTo", of |-> c, nth |-> host.nth[c], who |-> host.listed]]
<1>1. who \in SUBSET Clients /\ host.listed \in SUBSET Clients /\ \A c \in Clients : host.nth[c] \in Nat
  BY HostFields DEF Stages
<1>2. \A c \in who : f[c] \in Orders(host, U) /\ (f[c].do = "spawn" => host.seat[f[c].of] = "none")
  BY <1>1 DEF Orders
<1>3. SyncNewSeats = Each(who, f)
  <2>1. {f[c] : c \in who} = {[do |-> "syncTo", of |-> c, nth |-> host.nth[c], who |-> host.listed] : c \in who}
    BY <1>1
  <2> QED BY <2>1 DEF SyncNewSeats, ForEach, Each
<1> HIDE DEF who, f
<1> QED BY <1>1, <1>2, <1>3, EachReady

LEMMA BroadcastReady ==
  ASSUME host \in Hosts, NEW U
  PROVE  Ready(host, U, Broadcast)
<1> DEFINE whoever == CHOOSE c \in Clients : TRUE
           k == [do |-> "sync", of |-> whoever, who |-> host.changed]
<1>1. CASE host.changed = {}
  BY <1>1 DEF Broadcast, Ready
<1>2. CASE host.changed # {}
  <2>1. host.changed \in SUBSET Clients
    BY HostFields
  <2>2. whoever \in Clients
    BY <1>2, <2>1
  <2> HIDE DEF whoever
  <2>3. k \in Orders(host, U) /\ k.do # "spawn"
    BY <2>1, <2>2 DEF Orders
  <2>4. Broadcast = <<k>>
    BY <1>2 DEF Broadcast, whoever
  <2> HIDE DEF k
  <2> QED BY <2>3, <2>4 DEF Ready
<1> QED
  BY <1>1, <1>2

LEMMA EventsReady ==
  ASSUME host \in Hosts, NEW U, Heeds(U, "events")
  PROVE  Ready(host, U, Events)
<1> DEFINE in == Read("joined")
           out == {c \in Read("left") : Has(c) \/ c \in Read("joined")}
           off == {c \in Read("left") : host.seat[c] # "seated"}
           f == [c \in Clients |-> Spawn(c, "pending")]
           g == [c \in Clients |-> [OnSeat("despawn", c) EXCEPT !.nth = IF c \in Read("joined") THEN @ + 1 ELSE @]]
           d == [c \in Clients |-> [do |-> "departed", of |-> c]]
           a == Each(in, f)
           b == Each(out, g)
           e == Each(off, d)
<1>1. in \in SUBSET Clients /\ out \in SUBSET Clients /\ off \in SUBSET Clients
  BY DEF Read
<1>2. \A c \in Clients : host.nth[c] \in Nat
  BY HostFields
<1>3. \A c \in in : f[c] \in Orders(host, U) /\ host.seat[f[c].of] = "none"
  BY <1>1 DEF Spawn, Orders, Heeds
<1>4. \A c \in out : g[c] \in Orders(host, U) /\ g[c].do # "spawn"
  BY <1>1, <1>2 DEF OnSeat, Orders
<1>5. \A c \in off : d[c] \in Orders(host, U) /\ d[c].do # "spawn"
  BY <1>1 DEF Orders
<1>6. Joined = a
  <2>1. {f[c] : c \in in} = {Spawn(c, "pending") : c \in in}
    BY <1>1
  <2> QED BY <2>1 DEF Joined, ForEach, Each
<1>7. Left = b \o e
  <2>1. {d[c] : c \in off} = {[do |-> "departed", of |-> c] : c \in off}
    BY <1>1
  <2>2. {g[c] : c \in out} = {[OnSeat("despawn", c) EXCEPT !.nth = IF c \in Read("joined") THEN @ + 1 ELSE @] : c \in out}
    BY <1>1
  <2> QED BY <2>1, <2>2 DEF Left, ForEach, Each
<1> HIDE DEF in, out, off, f, g, d
<1>8. /\ a \in Seq(Orders(host, U)) /\ Len(a) \in Nat /\ \A i \in 1..Len(a) : \E c \in in : a[i] = f[c]
      /\ b \in Seq(Orders(host, U)) /\ Len(b) \in Nat /\ \A i \in 1..Len(b) : \E c \in out : b[i] = g[c]
      /\ e \in Seq(Orders(host, U)) /\ Len(e) \in Nat /\ \A i \in 1..Len(e) : \E c \in off : e[i] = d[c]
  <2>1. a \in Seq(Orders(host, U)) /\ b \in Seq(Orders(host, U)) /\ e \in Seq(Orders(host, U))
    <3> DEFINE S == Orders(host, U)
    <3>1. (\A c \in in : f[c] \in S) /\ (\A c \in out : g[c] \in S) /\ (\A c \in off : d[c] \in S)
      BY <1>3, <1>4, <1>5
    <3> HIDE DEF S
    <3>2. a \in Seq(S) /\ b \in Seq(S) /\ e \in Seq(S)
      BY <1>1, <3>1, EachIn
    <3> QED BY <3>2 DEF S
  <2>2. Len(a) \in Nat /\ \A i \in 1..Len(a) : \E c \in in : a[i] = f[c]
    BY <1>1, EachHas
  <2>3. Len(b) \in Nat /\ \A i \in 1..Len(b) : \E c \in out : b[i] = g[c]
    BY <1>1, EachHas
  <2>4. Len(e) \in Nat /\ \A i \in 1..Len(e) : \E c \in off : e[i] = d[c]
    BY <1>1, EachHas
  <2> HIDE DEF a, b, e
  <2> QED BY <2>1, <2>2, <2>3, <2>4
<1> HIDE DEF a, b, e
<1> DEFINE l == b \o e
<1>9. /\ l \in Seq(Orders(host, U)) /\ Len(l) = Len(b) + Len(e)
      /\ \A i \in 1..Len(l) : (i \in 1..Len(b) /\ l[i] = b[i]) \/ (i - Len(b) \in 1..Len(e) /\ l[i] = e[i - Len(b)])
  BY <1>8
<1> HIDE DEF l
<1>10. ASSUME NEW i \in 1..Len(l) PROVE l[i].do # "spawn"
  <2>1. CASE i \in 1..Len(b) /\ l[i] = b[i]
    <3>1. PICK c \in out : b[i] = g[c]
      BY <1>8, <2>1
    <3> QED BY <1>4, <2>1, <3>1
  <2>2. CASE i - Len(b) \in 1..Len(e) /\ l[i] = e[i - Len(b)]
    <3>1. PICK c \in off : e[i - Len(b)] = d[c]
      BY <1>8, <2>2
    <3> QED BY <1>5, <2>2, <3>1
  <2> QED BY <1>9, <2>1, <2>2
<1>11. Ready(host, U, a \o l)
  <2>1. ASSUME NEW i \in 1..Len(a) PROVE host.seat[a[i].of] = "none"
    <3>1. PICK c \in in : a[i] = f[c]
      BY <1>8
    <3> QED BY <1>3, <3>1
  <2>2. l \in Seq(Orders(host, U)) /\ a \in Seq(Orders(host, U))
    BY <1>8, <1>9
  <2> QED BY <1>10, <2>1, <2>2, BothReady
<1> QED
  BY <1>6, <1>7, <1>11 DEF Events, l

LEMMA RedialsReady ==
  ASSUME host \in Hosts, NEW U, Heeds(U, "redial"), NEW stale
  PROVE  Ready(host, U, Redials(stale))
<1> DEFINE out == Dropped(stale)
           in == Dialled(stale)
           f == [c \in Clients |-> OnSeat("despawn", c)]
           g == [c \in Clients |-> Spawn(c, "redial")]
           a == Each(out, f)
           b == Each(in, g)
<1>1. out \in SUBSET Clients /\ in \in SUBSET Clients /\ host.held \in SUBSET Clients
  BY HostFields DEF Dropped, Dialled
<1>2. ASSUME NEW c \in out
      PROVE  f[c] \in Orders(host, U) /\ f[c].do = "despawn" /\ f[c].of = c /\ f[c].nth = host.nth[c]
  <2>1. f[c] = OnSeat("despawn", c)
    BY <1>1
  <2> HIDE DEF f, out
  <2>2. c \in Clients
    BY <1>1
  <2>3. ASSUME NEW w \in {"seat", "linkLost", "despawn"}
        PROVE  /\ OnSeat(w, c).do = w /\ OnSeat(w, c).of = c /\ OnSeat(w, c).nth = host.nth[c]
               /\ OnSeat(w, c) \in Orders(host, U)
    BY <2>2, OnSeatIs
  <2> QED BY <2>1, <2>3
<1>3. \A c \in in : c \notin U /\ (host.seat[c] = "none" \/ c \in out)
  BY <1>1 DEF Dialled, Has, Heeds, Unheard
<1>4. \A c \in in : g[c] \in Orders(host, U) /\ g[c].of = c /\ g[c].do = "spawn"
  BY <1>1, <1>3 DEF Spawn, Orders
<1>5. Redials(stale) = a \o b
  <2>1. {f[c] : c \in out} = {OnSeat("despawn", c) : c \in out}
    BY <1>1
  <2>2. {g[c] : c \in in} = {Spawn(c, "redial") : c \in in}
    BY <1>1
  <2> QED BY <2>1, <2>2 DEF Redials, ForEach, Each
<1> HIDE DEF out, in, f, g
<1>6. /\ a \in Seq(Orders(host, U)) /\ Len(a) \in Nat /\ \A i \in 1..Len(a) : \E c \in out : a[i] = f[c]
      /\ \A c \in out : \E i \in 1..Len(a) : a[i] = f[c]
      /\ b \in Seq(Orders(host, U)) /\ Len(b) \in Nat /\ \A i \in 1..Len(b) : \E c \in in : b[i] = g[c]
  <2>1. a \in Seq(Orders(host, U)) /\ b \in Seq(Orders(host, U))
    <3> DEFINE S == Orders(host, U)
    <3>1. (\A c \in out : f[c] \in S) /\ (\A c \in in : g[c] \in S)
      BY <1>2, <1>4
    <3> HIDE DEF S
    <3>2. a \in Seq(S) /\ b \in Seq(S)
      BY <1>1, <3>1, EachIn
    <3> QED BY <3>2 DEF S
  <2>2. /\ Len(a) \in Nat /\ \A i \in 1..Len(a) : \E c \in out : a[i] = f[c]
        /\ \A c \in out : \E i \in 1..Len(a) : a[i] = f[c]
    BY <1>1, EachHas
  <2>3. Len(b) \in Nat /\ \A i \in 1..Len(b) : \E c \in in : b[i] = g[c]
    BY <1>1, EachHas
  <2> HIDE DEF a, b
  <2> QED BY <2>1, <2>2, <2>3
<1> HIDE DEF a, b
<1>8. \A i \in 1..Len(a) : a[i].do = "despawn"
  BY <1>2, <1>6
<1>9. ASSUME NEW i \in 1..Len(b)
      PROVE  \/ host.seat[b[i].of] = "none"
             \/ \E j \in 1..Len(a) : a[j].do = "despawn" /\ a[j].of = b[i].of /\ a[j].nth = host.nth[b[i].of]
  <2>1. PICK c \in in : b[i] = g[c] /\ b[i].of = c
    BY <1>4, <1>6
  <2>2. CASE c \in out
    <3>1. PICK j \in 1..Len(a) : a[j] = f[c]
      BY <1>6, <2>2
    <3> QED BY <1>2, <2>1, <2>2, <3>1
  <2> QED BY <1>3, <2>1, <2>2
<1>10. \A i \in 1..Len(b) : b[i].do = "spawn"
  BY <1>4, <1>6
<1>11. Ready(host, U, a \o b)
  <2>1. \A i \in 1..Len(a) : a[i].do = "spawn" => host.seat[a[i].of] = "none"
    BY <1>8
  <2>2. (\A j \in 1..Len(a) : a[j].do # "promote") /\ (\A j \in 1..Len(b) : b[j].do # "promote")
    BY <1>8, <1>10
  <2> QED BY <1>6, <1>9, <2>1, <2>2, BothReady
<1> QED
  BY <1>5, <1>11

\* Every system's queue is as it should be.
LEMMA QueuedReady ==
  ASSUME host \in Hosts, NEW U, NEW s \in Systems, Heeds(U, s), NEW stale
  PROVE  Ready(host, U, Queued(s, stale))
<1>1. Unheard(host, U)
  BY DEF Heeds
<1> QED
  BY <1>1, SocketsReady, GameReady, PromotionReady, ClocksReady, NewSeatsReady, SyncNewSeatsReady,
     BroadcastReady, EventsReady, RedialsReady DEF Queued, Systems

------------------------------------------------------------------------------
\* The systems up to a sync point

\* What the systems change at once.
LEMMA AtOnceIs ==
  ASSUME host \in Hosts, \A c \in Clients : Timely(host, c), NEW systems, NEW stale
  PROVE  LET b == AtOnce(systems, stale)
         IN /\ b \in Hosts
            /\ b.seat = host.seat /\ b.nth = host.nth /\ b.listed = host.listed /\ b.held = host.held
            /\ b.batch = host.batch /\ b.reconnectable = host.reconnectable /\ b.panicked = host.panicked
            /\ b.crossed = host.crossed /\ b.overtaken = host.overtaken
            /\ b.waited = IF "clocks" \in systems THEN Waited ELSE host.waited
            /\ \A s \in Stages : b.fresh[s] = IF s \in systems THEN {} ELSE host.fresh[s]
            /\ b.changed = IF "broadcast" \in systems THEN {} ELSE host.changed
<1> DEFINE redialled == IF "redial" \in systems THEN Dialled(stale) ELSE {}
           hungUp == IF "redial" \in systems THEN Dropped(stale) ELSE {}
           offered == IF "events" \in systems THEN Read("joined") ELSE {}
           closed == IF "sockets" \in systems THEN Read("broken") ELSE {}
           l == [c \in Clients |->
                    IF c \in redialled \cup offered THEN "dialling"
                    ELSE IF c \in hungUp \/ (c \in closed /\ host.link[c] = "broken") THEN "none" ELSE host.link[c]]
           w == IF "clocks" \in systems THEN Waited ELSE host.waited
           f == [s \in DOMAIN host.fresh |-> IF s \in systems THEN {} ELSE host.fresh[s]]
           n == IF "broadcast" \in systems THEN {} ELSE host.changed
           b == AtOnce(systems, stale)
<1>1. l \in [Clients -> LinkStates]
  <2> HIDE DEF redialled, hungUp, offered, closed
  <2> SUFFICES ASSUME NEW c \in Clients PROVE l[c] \in LinkStates
    OBVIOUS
  <2> QED BY HostFields DEF LinkStates
<1>2. w \in [Clients -> 0..Hold]
  <2> SUFFICES ASSUME NEW c \in Clients PROVE Waited[c] \in 0..Hold
    BY HostFields DEF Waited
  <2>1. host.waited[c] \in 0..Hold /\ host.waited[c] < Hold
    BY HostFields DEF Timely
  <2> QED BY <2>1, HoldAssumption DEF Waited
<1>3. f \in [Stages -> SUBSET Clients] /\ \A s \in Stages : f[s] = IF s \in systems THEN {} ELSE host.fresh[s]
  BY HostFields
<1>4. n \in SUBSET Clients
  BY HostFields
<1>5. b = [host EXCEPT !.link = l, !.waited = w, !.fresh = f, !.changed = n]
  BY DEF AtOnce
<1>6. w = IF "clocks" \in systems THEN Waited ELSE host.waited
  OBVIOUS
<1>7. n = IF "broadcast" \in systems THEN {} ELSE host.changed
  OBVIOUS
<1> HIDE DEF l, w, f, n
<1>8. b \in Hosts
  BY <1>1, <1>2, <1>3, <1>4, <1>5 DEF Hosts, Stages
<1>9. b.waited = w /\ b.fresh = f /\ b.changed = n
  BY <1>5 DEF Hosts
<1>10. /\ b.seat = host.seat /\ b.nth = host.nth /\ b.listed = host.listed /\ b.held = host.held
       /\ b.batch = host.batch /\ b.reconnectable = host.reconnectable /\ b.panicked = host.panicked
       /\ b.crossed = host.crossed /\ b.overtaken = host.overtaken
  BY <1>5 DEF Hosts
<1> HIDE DEF b
<1> QED
  BY <1>3, <1>6, <1>7, <1>8, <1>9, <1>10 DEF b

\* What holds of every player at a sync point.
InOrderOf(h) == h \in Hosts /\ Backed(h) /\ \A c \in Clients : Seen(h, c) /\ Timely(h, c)
\* The systems of the first i places have had their effect.
Served(order, i, v) ==
  \A j \in 1..i :
    /\ order[j] = "seats" => \A c \in host.fresh.seats : Seen(v, c)
    /\ order[j] = "clocks" => \A c \in host.held : Waited[c] >= Hold => Timely(v, c)

LEMMA StartIs ==
  ASSUME InOrderOf(host), NEW U \in SUBSET Clients, Unheard(host, U), NEW systems, NEW stale
  PROVE  LET b == AtOnce(systems, stale)
         IN /\ b \in Mid(host, U)
            /\ \A c \in Clients :
                 /\ ("seats" \in systems /\ c \in host.fresh.seats) \/ Seen(b, c)
                 /\ ("clocks" \in systems /\ c \in host.held /\ Waited[c] >= Hold) \/ Timely(b, c)
<1> DEFINE b == AtOnce(systems, stale)
<1>1. /\ b \in Hosts
      /\ b.seat = host.seat /\ b.nth = host.nth /\ b.listed = host.listed /\ b.held = host.held
      /\ b.overtaken = host.overtaken
      /\ b.waited = IF "clocks" \in systems THEN Waited ELSE host.waited
      /\ \A s \in Stages : b.fresh[s] = IF s \in systems THEN {} ELSE host.fresh[s]
      /\ b.changed = IF "broadcast" \in systems THEN {} ELSE host.changed
  BY AtOnceIs DEF InOrderOf
<1> HIDE DEF b
<1>2. Seated(b) = Seated(host)
  BY <1>1 DEF Seated
<1>3. b.fresh.seats = IF "seats" \in systems THEN {} ELSE host.fresh.seats
  BY <1>1 DEF Stages
<1>4. ASSUME NEW c \in Clients PROVE ("seats" \in systems /\ c \in host.fresh.seats) \/ Seen(b, c)
  BY <1>1, <1>2, <1>3 DEF InOrderOf, Seen
<1>5. ASSUME NEW c \in Clients
      PROVE  ("clocks" \in systems /\ c \in host.held /\ Waited[c] >= Hold) \/ Timely(b, c)
  <2>1. host.waited[c] \in 0..Hold /\ host.waited[c] < Hold
    BY HostFields DEF InOrderOf, Timely
  <2>2. Waited[c] = IF c \in host.held THEN host.waited[c] + 1 ELSE host.waited[c]
    BY DEF Waited
  <2> QED BY <1>1, <2>1, <2>2, HoldAssumption DEF Timely
<1>6. Backed(b)
  BY <1>1, <1>2 DEF InOrderOf, Backed
<1>7. Since(host, b)
  <2>1. \A c \in Clients : host.nth[c] \in Nat
    BY HostFields DEF InOrderOf
  <2> QED BY <1>1, <1>4, <2>1 DEF Since
<1>8. Unheard(b, U)
  BY <1>1 DEF Unheard
<1> QED
  BY <1>1, <1>4, <1>5, <1>6, <1>7, <1>8 DEF Mid, b

LEMMA FlushKeeps ==
  ASSUME InOrderOf(host), NEW U \in SUBSET Clients, NEW order, NEW stale, NEW n \in Nat, n = Len(order),
         \A i \in 1..n : order[i] \in Systems /\ Heeds(U, order[i]),
         NEW b \in Mid(host, U)
  PROVE  LET r == Flushed(b, order, stale) IN r \in Mid(host, U) /\ Goes(b, r) /\ Served(order, n, r)
<1> DEFINE J == [i \in 0..n |-> {v \in Mid(host, U) : Goes(b, v) /\ Served(order, i, v)}]
<1>1. b \in J[0]
  BY DEF Goes, Served
<1>2. ASSUME NEW i \in 1..n, NEW v \in J[i - 1] PROVE Apply(v, Queued(order[i], stale)) \in J[i]
  <2> DEFINE s == order[i]
             q == Queued(s, stale)
             r == Apply(v, q)
  <2>1. i \in 0..n /\ i - 1 \in 0..n
    OBVIOUS
  <2>2. v \in Mid(host, U) /\ Goes(b, v) /\ Served(order, i - 1, v)
    BY <2>1
  <2> HIDE DEF J
  <2>3. host \in Hosts /\ s \in Systems /\ Heeds(U, s)
    BY DEF InOrderOf
  <2> HIDE DEF s
  <2>4. Ready(host, U, q)
    BY <2>3, QueuedReady
  <2>5. s = "seats" => \A c \in host.fresh.seats : \E k \in 1..Len(q) : q[k].do = "seat" /\ q[k].of = c
    <3>1. \A c \in host.fresh.seats : \E k \in 1..Len(NewSeats) : NewSeats[k].do = "seat" /\ NewSeats[k].of = c
      BY <2>3, NewSeatsReady
    <3> QED BY <3>1 DEF Queued
  <2>6. s = "clocks" => \A c \in host.held : Waited[c] >= Hold => \E k \in 1..Len(q) : q[k].do = "drop" /\ q[k].of = c
    <3>1. \A c \in host.held : Waited[c] >= Hold => \E k \in 1..Len(Clocks) : Clocks[k].do = "drop" /\ Clocks[k].of = c
      BY <2>3, ClocksReady
    <3> QED BY <3>1 DEF Queued
  <2> HIDE DEF q
  <2>7. r \in Mid(host, U) /\ Goes(v, r) /\ Done(q, Len(q), r)
    BY <2>2, <2>3, <2>4, QueueKeeps
  <2> HIDE DEF r
  <2>8. Goes(b, r)
    BY <2>2, <2>7, GoesOn
  <2>9. /\ s = "seats" => \A c \in host.fresh.seats : Seen(r, c)
        /\ s = "clocks" => \A c \in host.held : Waited[c] >= Hold => Timely(r, c)
    BY <2>5, <2>6, <2>7 DEF Done
  <2>10. host.fresh.seats \subseteq Clients /\ host.held \subseteq Clients
    BY <2>3, HostFields DEF Stages
  <2>11. Served(order, i, r)
    <3> SUFFICES ASSUME NEW j \in 1..i
                 PROVE  /\ order[j] = "seats" => \A c \in host.fresh.seats : Seen(r, c)
                        /\ order[j] = "clocks" => \A c \in host.held : Waited[c] >= Hold => Timely(r, c)
      BY DEF Served
    <3>1. j \in 1..(i - 1) \/ j = i
      OBVIOUS
    <3>2. CASE j = i
      BY <2>9, <3>2 DEF s
    <3>3. CASE j \in 1..(i - 1)
      <4>1. /\ order[j] = "seats" => \A c \in host.fresh.seats : Seen(v, c)
            /\ order[j] = "clocks" => \A c \in host.held : Waited[c] >= Hold => Timely(v, c)
        BY <2>2, <3>3 DEF Served
      <4> QED BY <2>7, <2>10, <4>1 DEF Goes
    <3> QED BY <3>1, <3>2, <3>3
  <2>12. r \in J[i]
    BY <2>1, <2>7, <2>8, <2>11 DEF J
  <2> QED BY <2>12 DEF r, q, s
<1>3. n \in 0..n
  OBVIOUS
<1> HIDE DEF J
<1>4. Flushed(b, order, stale) \in J[n]
  BY <1>1, <1>2, FlushedAlong
<1> QED
  BY <1>3, <1>4 DEF J

\* The systems are finitely many.
LEMMA SystemsAreFinite == IsFiniteSet(Systems)
<1>1. IsFiniteSet({"sockets", "events", "promotion"})
  <2>1. IsFiniteSet({} \cup {"sockets"})
    BY FS_EmptySet, FS_AddElement
  <2>2. IsFiniteSet(({} \cup {"sockets"}) \cup {"events"})
    BY <2>1, FS_AddElement
  <2>3. IsFiniteSet((({} \cup {"sockets"}) \cup {"events"}) \cup {"promotion"})
    BY <2>2, FS_AddElement
  <2>4. {"sockets", "events", "promotion"} = (({} \cup {"sockets"}) \cup {"events"}) \cup {"promotion"}
    OBVIOUS
  <2> QED BY <2>3, <2>4
<1>2. IsFiniteSet({"redial", "clocks", "game"})
  <2>1. IsFiniteSet({} \cup {"redial"})
    BY FS_EmptySet, FS_AddElement
  <2>2. IsFiniteSet(({} \cup {"redial"}) \cup {"clocks"})
    BY <2>1, FS_AddElement
  <2>3. IsFiniteSet((({} \cup {"redial"}) \cup {"clocks"}) \cup {"game"})
    BY <2>2, FS_AddElement
  <2>4. {"redial", "clocks", "game"} = (({} \cup {"redial"}) \cup {"clocks"}) \cup {"game"}
    OBVIOUS
  <2> QED BY <2>3, <2>4
<1>3. IsFiniteSet({"seats", "syncs", "broadcast"})
  <2>1. IsFiniteSet({} \cup {"seats"})
    BY FS_EmptySet, FS_AddElement
  <2>2. IsFiniteSet(({} \cup {"seats"}) \cup {"syncs"})
    BY <2>1, FS_AddElement
  <2>3. IsFiniteSet((({} \cup {"seats"}) \cup {"syncs"}) \cup {"broadcast"})
    BY <2>2, FS_AddElement
  <2>4. {"seats", "syncs", "broadcast"} = (({} \cup {"seats"}) \cup {"syncs"}) \cup {"broadcast"}
    OBVIOUS
  <2> QED BY <2>3, <2>4
<1> DEFINE a == {"sockets", "events", "promotion"}
           b == {"redial", "clocks", "game"}
           d == {"seats", "syncs", "broadcast"}
<1>4. Systems = (a \cup b) \cup d
  BY DEF Systems
<1> HIDE DEF a, b, d
<1> QED
  BY <1>1, <1>2, <1>3, <1>4, FS_Union DEF a, b, d

\* An order of some systems.
LEMMA OrderIs ==
  ASSUME NEW systems \in SUBSET Systems, NEW order \in SetToSeqs(systems)
  PROVE  /\ Len(order) \in Nat /\ DOMAIN order = 1..Len(order)
         /\ \A i \in 1..Len(order) : order[i] \in Systems
         /\ ToSet(order) = systems
         /\ \A s \in systems : \E i \in 1..Len(order) : order[i] = s
<1>1. IsFiniteSet(systems)
  BY SystemsAreFinite, FS_Subset
<1> DEFINE n == Cardinality(systems)
<1>2. n \in Nat /\ order \in [1..n -> systems]
  BY <1>1, Listings DEF SetToSeqs
<1>3. IsInjective(order)
  BY DEF SetToSeqs, IsInjective
<1>4. order \in Seq(systems) /\ Range(order) = systems
  BY <1>1, <1>2, <1>3, Listings
<1> HIDE DEF n
<1> QED
  BY <1>4 DEF Range, ToSet

\* A sync point leaves everybody as they should be.
LEMMA StretchKeeps ==
  ASSUME InOrderOf(host), NEW U \in SUBSET Clients,
         NEW systems \in SUBSET Systems, NEW order \in SetToSeqs(systems), NEW stale,
         Unheard(host, U), \A s \in systems : Heeds(U, s), Stretch(order, stale)
  PROVE  InOrderOf(host') /\ Unheard(host', U)
<1> DEFINE n == Len(order)
           b == AtOnce(systems, stale)
           r == Flushed(b, order, stale)
<1>1. /\ n \in Nat /\ \A i \in 1..n : order[i] \in Systems
      /\ ToSet(order) = systems /\ \A s \in systems : \E i \in 1..n : order[i] = s
      /\ \A i \in 1..n : order[i] \in systems
  <2>1. \A i \in 1..n : order[i] \in ToSet(order)
    BY OrderIs DEF ToSet
  <2> QED BY <2>1, OrderIs
<1>2. host' = r
  BY <1>1 DEF Stretch, Flushed
<1>3. /\ b \in Mid(host, U)
      /\ \A c \in Clients :
           /\ ("seats" \in systems /\ c \in host.fresh.seats) \/ Seen(b, c)
           /\ ("clocks" \in systems /\ c \in host.held /\ Waited[c] >= Hold) \/ Timely(b, c)
  BY StartIs
<1> HIDE DEF b
<1>4. r \in Mid(host, U) /\ Goes(b, r) /\ Served(order, n, r)
  BY <1>1, <1>3, FlushKeeps
<1> HIDE DEF r
<1>5. ASSUME NEW c \in Clients PROVE Seen(r, c)
  <2>1. CASE Seen(b, c)
    BY <1>4, <2>1 DEF Goes
  <2>2. CASE "seats" \in systems /\ c \in host.fresh.seats
    <3>1. PICK i \in 1..n : order[i] = "seats"
      BY <1>1, <2>2
    <3> QED BY <1>4, <2>2, <3>1 DEF Served
  <2> QED BY <1>3, <2>1, <2>2
<1>6. ASSUME NEW c \in Clients PROVE Timely(r, c)
  <2>1. CASE Timely(b, c)
    BY <1>4, <2>1 DEF Goes
  <2>2. CASE "clocks" \in systems /\ c \in host.held /\ Waited[c] >= Hold
    <3>1. PICK i \in 1..n : order[i] = "clocks"
      BY <1>1, <2>2
    <3> QED BY <1>4, <2>2, <3>1 DEF Served
  <2> QED BY <1>3, <2>1, <2>2
<1>7. InOrderOf(r) /\ Unheard(r, U)
  BY <1>4, <1>5, <1>6 DEF Mid, InOrderOf
<1> QED
  BY <1>2, <1>7

------------------------------------------------------------------------------
\* A client's copy

LEMMA CopyAlong ==
  ASSUME NEW q, NEW n \in Nat, n = Len(q), NEW J, NEW h \in J[0],
         \A i \in 1..n : \A v \in J[i - 1] : ApplyLobbyState(v, q[i]) \in J[i]
  PROVE  InTurn(ApplyLobbyState, h, q) \in J[n]
<1> DEFINE S == UNION {J[i] : i \in 0..n}
           safe(i, v) == IF ApplyLobbyState(v, q[i]) \in S THEN ApplyLobbyState(v, q[i]) ELSE v
           step == [i \in 1..n |-> [v \in S |-> safe(i, v)]]
           so[i \in 0..Len(q)] == IF i = 0 THEN h ELSE ApplyLobbyState(so[i - 1], q[i])
<1>1. InTurn(ApplyLobbyState, h, q) = so[n]
  BY DEF InTurn
<1>2. \A i \in 0..n : J[i] \subseteq S
  OBVIOUS
<1>3. h \in S
  BY <1>2
<1>4. step \in [1..n -> [S -> S]]
  OBVIOUS
<1>5. \A i \in 1..n : \A v \in J[i - 1] :
        v \in S /\ ApplyLobbyState(v, q[i]) \in S /\ step[i][v] = ApplyLobbyState(v, q[i])
  <2> SUFFICES ASSUME NEW i \in 1..n, NEW v \in J[i - 1]
               PROVE  v \in S /\ ApplyLobbyState(v, q[i]) \in S /\ step[i][v] = ApplyLobbyState(v, q[i])
    OBVIOUS
  <2>1. i - 1 \in 0..n /\ i \in 0..n
    OBVIOUS
  <2>2. v \in S /\ ApplyLobbyState(v, q[i]) \in S
    BY <1>2, <2>1
  <2> HIDE DEF S
  <2> QED BY <2>2
<1> HIDE DEF S, step
<1>6. PICK f \in [0..n -> S] : Follows(f, h, n, step)
  BY <1>3, <1>4, Folds
<1>7. ASSUME NEW i \in 0..n PROVE f[i] \in J[i]
  <2>1. f[0] \in J[0]
    BY <1>6 DEF Follows
  <2>2. ASSUME NEW j \in 1..i, f[j - 1] \in J[j - 1] PROVE f[j] \in J[j]
    <3>1. j \in 1..n
      BY <1>7
    <3>2. f[j] = step[j][f[j - 1]]
      BY <1>6, <3>1 DEF Follows
    <3> QED BY <1>5, <2>2, <3>1, <3>2
  <2>3. i \in Nat
    BY <1>7
  <2> QED BY <2>1, <2>2, <2>3, GrowsAlong
<1>8. f = [i \in 0..n |-> IF i = 0 THEN h ELSE ApplyLobbyState(f[i - 1], q[i])]
  <2>1. ASSUME NEW i \in 0..n, i # 0 PROVE f[i] = ApplyLobbyState(f[i - 1], q[i])
    <3>1. i \in 1..n /\ i - 1 \in 0..n
      BY <2>1
    <3>2. f[i - 1] \in J[i - 1]
      BY <1>7, <3>1
    <3>3. f[i] = step[i][f[i - 1]]
      BY <1>6, <3>1 DEF Follows
    <3> QED BY <1>5, <3>1, <3>2, <3>3
  <2> QED BY <1>6, <2>1 DEF Follows
<1>9. so = [i \in 0..n |-> IF i = 0 THEN h ELSE ApplyLobbyState(so[i - 1], q[i])]
  BY <1>8
<1> HIDE DEF so
<1>10. so[0] \in J[0]
  BY <1>9
<1>11. ASSUME NEW i \in 1..n, so[i - 1] \in J[i - 1] PROVE so[i] \in J[i]
  <2>1. so[i] = ApplyLobbyState(so[i - 1], q[i])
    BY <1>9
  <2> QED BY <1>11, <2>1
<1> QED
  BY <1>1, <1>10, <1>11, GrowsAlong

\* A message is of players there are.
LEMMA MessagesAre ==
  ASSUME NEW m \in Messages
  PROVE  m.who \in SUBSET Clients /\ m.say \in {"sync", "remove"}
  BY DEF Messages

LEMMA CopyIsOfClients ==
  ASSUME NEW known \in SUBSET Clients, NEW q \in Seq(Messages)
  PROVE  InTurn(ApplyLobbyState, known, q) \in SUBSET Clients
<1> DEFINE n == Len(q)
           J == [i \in 0..n |-> SUBSET Clients]
<1>1. n \in Nat /\ \A i \in 1..n : q[i] \in Messages
  OBVIOUS
<1>2. ASSUME NEW i \in 1..n, NEW v \in J[i - 1] PROVE ApplyLobbyState(v, q[i]) \in J[i]
  <2>1. q[i].who \in SUBSET Clients /\ v \in SUBSET Clients
    BY <1>1, MessagesAre
  <2> QED BY <1>1, <2>1 DEF ApplyLobbyState
<1>3. known \in J[0] /\ n \in 0..n
  BY <1>1
<1>4. J[n] = SUBSET Clients
  BY <1>3
<1> HIDE DEF J
<1>5. InTurn(ApplyLobbyState, known, q) \in J[n]
  BY <1>1, <1>2, <1>3, CopyAlong
<1> QED
  BY <1>4, <1>5

\* And so are removals.
LEMMA RemovesAreOfClients ==
  ASSUME NEW h \in Hosts, NEW c \in Clients
  PROVE  RemovesFor(h, c) \in SUBSET Clients
<1>1. h.batch[c] \in Seq(Messages)
  BY HostFields
<1>2. \A m \in ToSet(h.batch[c]) : m.who \in SUBSET Clients
  BY <1>1, MessagesAre DEF ToSet
<1> QED
  BY <1>2 DEF RemovesFor

------------------------------------------------------------------------------
\* The invariant

\* Nobody has a seat before the host has heard of them, and of everyone it hears once.
Unknown == {c \in Clients : \/ client[c] = "out" \/ "joined" \in ToSet(news[c])
                            \/ Input("joined", c) \in inbox}
Newcomers ==
  /\ Unheard(host, Unknown)
  /\ \A c \in Clients : client[c] = "out" => "joined" \notin ToSet(news[c]) /\ Input("joined", c) \notin inbox
  /\ \A c \in Clients : Input("joined", c) \in inbox => "joined" \notin ToSet(news[c])

\* The types of all but the host.
RestOK ==
  /\ inbox \subseteq Inputs /\ due \subseteq Systems /\ ran \subseteq Systems
  /\ inFrame \in BOOLEAN
  /\ client \in [Clients -> ClientStates] /\ view \in [Watched -> SUBSET Clients]
  /\ news \in [Clients -> Seq({"joined", "left"})]
  /\ unheard \in [Watched -> SUBSET Clients]
RosterInv == RestOK /\ InOrderOf(host) /\ Newcomers
LEMMA TypeIs ==
  TypeOK <=> host \in Hosts /\ host.held \subseteq host.listed /\ host.changed \subseteq host.listed /\ RestOK
<1> DEFINE P == [seat : [Clients -> Seats], nth : [Clients -> Nat], link : [Clients -> LinkStates],
               listed : SUBSET Clients, held : SUBSET host.listed,
               waited : [Clients -> 0..Hold], fresh : [{"seats", "syncs"} -> SUBSET Clients],
               changed : SUBSET host.listed, batch : [Clients -> Seq(Messages)],
               reconnectable : BOOLEAN, panicked : BOOLEAN,
               crossed : SUBSET Clients, overtaken : SUBSET Clients]
<1>1. TypeOK <=> host \in P /\ RestOK
  BY DEF TypeOK, RestOK
<1>2. ASSUME host \in P PROVE host \in Hosts /\ host.held \subseteq host.listed /\ host.changed \subseteq host.listed
  BY <1>2 DEF Hosts
<1>3. ASSUME host \in Hosts, host.held \subseteq host.listed, host.changed \subseteq host.listed PROVE host \in P
  <2> DEFINE a == SUBSET Clients
             b == SUBSET host.listed
  <2>1. host.held \in b /\ host.changed \in b
    BY <1>3
  <2> HIDE DEF b
  <2> QED BY <1>3, <2>1 DEF Hosts
<1> HIDE DEF P
<1> QED
  BY <1>1, <1>2, <1>3

LEMMA InvStarts == Init => RosterInv
<1> SUFFICES ASSUME Init PROVE RosterInv
  OBVIOUS
<1>1. PICK bound \in Instances :
        /\ host = [seat |-> [c \in Clients |-> IF c \in bound.members THEN "pending" ELSE "none"],
               nth |-> [c \in Clients |-> 0],
               link |-> [c \in Clients |-> IF c \in bound.members THEN "dialling" ELSE "none"],
               listed |-> bound.members, held |-> bound.members, waited |-> [c \in Clients |-> 0],
               fresh |-> [s \in {"seats", "syncs"} |-> {}], changed |-> {},
               batch |-> [c \in Clients |-> <<>>],
               reconnectable |-> bound.reconnectable, panicked |-> FALSE,
               crossed |-> {}, overtaken |-> {}]
        /\ client = [c \in Clients |-> IF c \in bound.members THEN "waiting" ELSE "out"]
        /\ view = [c \in Watched |-> IF c \in bound.members THEN bound.members ELSE {}]
        /\ inbox = {} /\ due = {} /\ ran = {}
        /\ inFrame = FALSE
        /\ news = [c \in Clients |-> <<>>]
        /\ bounds = bound /\ troubles = 0
        /\ unheard = [c \in Watched |-> {}]
  BY DEF Init
<1>2. bound.members \in SUBSET Clients /\ bound.reconnectable \in BOOLEAN
  BY BoundAssumption
<1> DEFINE members == bound.members
           seat == [c \in Clients |-> IF c \in members THEN "pending" ELSE "none"]
           link == [c \in Clients |-> IF c \in members THEN "dialling" ELSE "none"]
           nth == [c \in Clients |-> 0]
           fresh == [s \in {"seats", "syncs"} |-> {}]
           batch == [c \in Clients |-> <<>>]
<1>3. /\ seat \in [Clients -> Seats] /\ link \in [Clients -> LinkStates] /\ nth \in [Clients -> Nat]
      /\ nth \in [Clients -> 0..Hold]
      /\ fresh \in [{"seats", "syncs"} -> SUBSET Clients] /\ batch \in [Clients -> Seq(Messages)]
  BY HoldAssumption DEF Seats, LinkStates
<1>4. /\ \A c \in Clients : seat[c] # "seated" /\ (c \notin members => seat[c] = "none") /\ nth[c] = 0
      /\ \A s \in Stages : fresh[s] = {}
  BY DEF Stages
<1>5. host = [seat |-> seat, nth |-> nth, link |-> link, listed |-> members, held |-> members,
              waited |-> nth, fresh |-> fresh, changed |-> {}, batch |-> batch,
              reconnectable |-> bound.reconnectable, panicked |-> FALSE,
              crossed |-> {}, overtaken |-> {}]
  BY <1>1
<1> HIDE DEF seat, link, nth, fresh, batch, members
<1>6. host \in Hosts
  BY <1>2, <1>3, <1>5 DEF Hosts, members
<1>7. /\ host.seat = seat /\ host.listed = members /\ host.held = members /\ host.waited = nth
      /\ host.fresh = fresh /\ host.changed = {}
  BY <1>5
<1>8. Seated(host) = {}
  BY <1>4, <1>7 DEF Seated
<1>9. InOrderOf(host)
  BY <1>4, <1>6, <1>7, <1>8, HoldAssumption DEF InOrderOf, Backed, Seen, Timely
<1>10. RestOK
  <2>1. view \in [Watched -> SUBSET Clients]
    BY <1>1, <1>2
  <2>2. client \in [Clients -> ClientStates]
    BY <1>1 DEF ClientStates
  <2>3. inbox = {} /\ due = {} /\ ran = {} /\ inFrame = FALSE
    BY <1>1
  <2>4. news \in [Clients -> Seq({"joined", "left"})]
    BY <1>1
  <2>5. unheard \in [Watched -> SUBSET Clients]
    BY <1>1, ClientsAssumption
  <2> QED BY <2>1, <2>2, <2>3, <2>4, <2>5 DEF RestOK
<1>11. \A c \in Clients : /\ ToSet(news[c]) = {} /\ Input("joined", c) \notin inbox
                          /\ (client[c] = "out" => c \notin members)
  BY <1>1 DEF ToSet, members
<1>12. Newcomers
  BY <1>4, <1>7, <1>11 DEF Newcomers, Unknown, Unheard
<1> QED
  BY <1>9, <1>10, <1>12 DEF RosterInv

\* A step that changes no more of the host than its links, batches and numbers.
LEMMA QuietKeeps ==
  ASSUME NEW h, NEW r \in Hosts, InOrderOf(h),
         r.seat = h.seat, r.listed = h.listed, r.held = h.held, r.waited = h.waited,
         r.fresh = h.fresh, r.changed = h.changed, r.overtaken = h.overtaken
  PROVE  InOrderOf(r) /\ \A U : Unheard(h, U) => Unheard(r, U)
<1>1. Seated(r) = Seated(h)
  BY DEF Seated
<1> QED
  BY <1>1 DEF InOrderOf, Backed, Seen, Timely, Unheard

LEMMA RelinkKeeps ==
  ASSUME NEW h, InOrderOf(h), NEW c \in Clients, NEW to \in LinkStates
  PROVE  LET r == [h EXCEPT !.link[c] = to]
         IN InOrderOf(r) /\ \A U : Unheard(h, U) => Unheard(r, U)
<1> DEFINE l == [h.link EXCEPT ![c] = to]
           r == [h EXCEPT !.link = l]
<1>1. h \in Hosts
  BY DEF InOrderOf
<1>2. l \in [Clients -> LinkStates]
  BY <1>1, HostFields
<1> HIDE DEF l
<1>3. /\ r \in Hosts /\ r.seat = h.seat /\ r.listed = h.listed /\ r.held = h.held /\ r.waited = h.waited
      /\ r.fresh = h.fresh /\ r.changed = h.changed /\ r.overtaken = h.overtaken
  BY <1>1, <1>2 DEF Hosts
<1>4. r = [h EXCEPT !.link[c] = to]
  BY DEF l
<1> HIDE DEF r
<1>5. InOrderOf(r) /\ \A U : Unheard(h, U) => Unheard(r, U)
  BY <1>3, QuietKeeps
<1> QED
  BY <1>4, <1>5

\* What has been said to the host before is said.
LEMMA SaidIs ==
  ASSUME NEW said \in Seq({"joined", "left"}), NEW word \in {"joined", "left"}
  PROVE  /\ Append(said, word) \in Seq({"joined", "left"})
         /\ ToSet(Append(said, word)) = ToSet(said) \cup {word}
<1> DEFINE t == Append(said, word)
           n == Len(said)
<1>1. /\ t \in Seq({"joined", "left"}) /\ n \in Nat /\ Len(t) = n + 1
      /\ DOMAIN t = 1..(n + 1) /\ DOMAIN said = 1..n
      /\ t[n + 1] = word /\ \A i \in 1..n : t[i] = said[i]
  OBVIOUS
<1>2. 1..(n + 1) = (1..n) \cup {n + 1}
  BY <1>1
<1> HIDE DEF t, n
<1>3. ToSet(t) = ToSet(said) \cup {word}
  BY <1>1, <1>2 DEF ToSet
<1> QED
  BY <1>1, <1>3 DEF t

\* Of what is known of the newcomers, only what a step changes can be lost.
LEMMA NewcomersKeep ==
  ASSUME Newcomers, \A U : Unheard(host, U) => Unheard(host', U), Unknown' \subseteq Unknown,
         \A c \in Clients :
           /\ client'[c] = "out" => client[c] = "out"
           /\ "joined" \in ToSet(news'[c]) => "joined" \in ToSet(news[c])
           /\ Input("joined", c) \in inbox' => Input("joined", c) \in inbox
  PROVE  Newcomers'
<1>1. Unheard(host', Unknown')
  BY DEF Newcomers, Unheard
<1>2. \A c \in Clients : client'[c] = "out" => "joined" \notin ToSet(news'[c]) /\ Input("joined", c) \notin inbox'
  BY DEF Newcomers
<1>3. \A c \in Clients : Input("joined", c) \in inbox' => "joined" \notin ToSet(news'[c])
  BY DEF Newcomers
<1> QED
  BY <1>1, <1>2, <1>3 DEF Newcomers, Input

LEMMA NobodyNew ==
  ASSUME Newcomers, \A U : Unheard(host, U) => Unheard(host', U),
         \A c \in Clients :
           /\ client'[c] = "out" => client[c] = "out"
           /\ "joined" \in ToSet(news'[c]) => "joined" \in ToSet(news[c])
           /\ Input("joined", c) \in inbox' => Input("joined", c) \in inbox
  PROVE  Newcomers'
<1>1. Unknown' \subseteq Unknown
  BY DEF Unknown, Input
<1> QED
  BY <1>1, NewcomersKeep

LEMMA BeginFrameKeeps == RosterInv /\ BeginFrame => RosterInv'
<1> SUFFICES ASSUME RosterInv, BeginFrame PROVE RosterInv'
  OBVIOUS
<1>1. PICK chosen \in SUBSET Possible :
        /\ inbox' = chosen
        /\ news' = [c \in Clients |->
                      Retain(news[c], {word \in {"joined", "left"} : Input(word, c) \notin chosen})]
  BY DEF BeginFrame
<1>2. /\ host' = host /\ client' = client /\ view' = view /\ unheard' = unheard
      /\ due' = {s \in Systems : HasWork(s)'} /\ inFrame' = TRUE /\ ran' = {}
  BY DEF BeginFrame, clientVars
<1>3. ASSUME NEW c \in Clients
      PROVE  /\ news'[c] \in Seq({"joined", "left"})
             /\ ToSet(news'[c]) = {word \in ToSet(news[c]) : Input(word, c) \notin chosen}
  <2>1. news[c] \in Seq({"joined", "left"})
    BY DEF RosterInv, RestOK
  <2> DEFINE K == {word \in {"joined", "left"} : Input(word, c) \notin chosen}
             t == Retain(news[c], K)
  <2>2. t \in Seq({"joined", "left"}) /\ Range(t) = Range(news[c]) \cap K
    BY <2>1, RetainKeepsExactly
  <2>3. news'[c] = t
    BY <1>1
  <2>4. ToSet(t) = Range(t) /\ ToSet(news[c]) = Range(news[c]) /\ ToSet(news[c]) \subseteq {"joined", "left"}
    BY <2>1 DEF ToSet, Range
  <2> HIDE DEF t
  <2>5. ToSet(t) = {word \in ToSet(news[c]) : Input(word, c) \notin chosen}
    BY <2>2, <2>4
  <2> QED BY <2>2, <2>3, <2>5
<1>4. chosen \subseteq Inputs
  <2>1. \A got \in {"broken", "joined", "left", "handshake", "kick"}, c \in Clients : Input(got, c) \in Inputs
    BY DEF Inputs, Input
  <2> QED BY <2>1 DEF Possible
<1>5. ASSUME NEW c \in Clients, Input("joined", c) \in chosen PROVE "joined" \in ToSet(news[c])
  BY <1>5 DEF Possible, Input
<1>6. RestOK'
  <2>1. news' \in [Clients -> Seq({"joined", "left"})]
    BY <1>1, <1>3
  <2> QED BY <1>1, <1>2, <1>4, <2>1 DEF RosterInv, RestOK
<1>7. Newcomers'
  <2>1. Unknown' \subseteq Unknown
    BY <1>1, <1>2, <1>3, <1>5 DEF Unknown, Input
  <2>2. Unheard(host', Unknown')
    BY <1>2, <2>1 DEF RosterInv, Newcomers, Unheard
  <2>3. ASSUME NEW c \in Clients
        PROVE  /\ client'[c] = "out" => "joined" \notin ToSet(news'[c]) /\ Input("joined", c) \notin inbox'
               /\ Input("joined", c) \in inbox' => "joined" \notin ToSet(news'[c])
    BY <1>1, <1>2, <1>3, <1>5 DEF RosterInv, Newcomers
  <2> QED BY <2>2, <2>3 DEF Newcomers, Input
<1> QED
  BY <1>2, <1>6, <1>7 DEF RosterInv

LEMMA UpdateKeeps == RosterInv /\ Update => RosterInv'
<1> SUFFICES ASSUME RosterInv, Update PROVE RosterInv'
  OBVIOUS
<1>1. PICK systems \in SUBSET Systems : \E order \in SetToSeqs(systems) : \E stale : Stretch(order, stale)
  BY DEF Update
<1>2. PICK order \in SetToSeqs(systems) : \E stale : Stretch(order, stale)
  BY <1>1
<1>3. PICK stale : Stretch(order, stale)
  BY <1>2
<1>4. inFrame' = inFrame /\ client' = client /\ view' = view /\ news' = news
  BY DEF Update, clientVars
<1> DEFINE U == {c \in Clients : \/ client[c] = "out" \/ "joined" \in ToSet(news[c])
                                 \/ Input("joined", c) \in inbox /\ "events" \notin systems}
<1>5. U \subseteq Unknown /\ U \in SUBSET Clients
  BY DEF Unknown
<1>6. InOrderOf(host) /\ Unheard(host, U)
  BY <1>5 DEF RosterInv, Newcomers, Unheard
<1>7. ASSUME NEW s \in systems PROVE Heeds(U, s)
  <2>1. s = "events" => U \cap Read("joined") = {}
    BY DEF RosterInv, Newcomers, Read
  <2>2. \A c \in Read("joined") : host.seat[c] = "none"
    BY DEF RosterInv, Newcomers, Unheard, Unknown, Read
  <2>3. host.held \subseteq host.listed
    BY <1>6 DEF InOrderOf, Backed
  <2> HIDE DEF U
  <2> QED BY <1>5, <1>6, <2>1, <2>2, <2>3 DEF Heeds
<1> HIDE DEF U
<1>8. InOrderOf(host') /\ Unheard(host', U)
  BY <1>3, <1>5, <1>6, <1>7, StretchKeeps
<1>9. ToSet(order) = systems
  BY OrderIs
<1>10. /\ ran' = ran \cup systems /\ due' = due \ systems
       /\ inbox' = {i \in inbox : \A s \in systems \cap DOMAIN Inbound : i.got \notin Inbound[s]}
       /\ unheard' = Missed(host, host')
  BY <1>3, <1>9 DEF Stretch
<1>11. ASSUME NEW c \in Clients, Input("joined", c) \in inbox'
       PROVE  Input("joined", c) \in inbox /\ "events" \notin systems
  BY <1>10, <1>11 DEF Inbound, Input
<1>12. Unknown' \subseteq U
  BY <1>4, <1>11 DEF Unknown, U, Input
<1>13. Newcomers'
  <2>1. Unheard(host', Unknown')
    BY <1>8, <1>12 DEF Unheard
  <2>2. ASSUME NEW c \in Clients
        PROVE  /\ client'[c] = "out" => "joined" \notin ToSet(news'[c]) /\ Input("joined", c) \notin inbox'
               /\ Input("joined", c) \in inbox' => "joined" \notin ToSet(news'[c])
    BY <1>4, <1>11 DEF RosterInv, Newcomers
  <2> QED BY <2>1, <2>2 DEF Newcomers, Input
<1>14. RestOK'
  <2>1. unheard' \in [Watched -> SUBSET Clients]
    <3>1. host \in Hosts /\ host' \in Hosts
      BY <1>6, <1>8 DEF InOrderOf
    <3>2. \A c \in Watched : c \in Clients /\ unheard[c] \in SUBSET Clients
      BY ClientsAssumption DEF RosterInv, RestOK
    <3>3. \A c \in Watched :
            ((host.listed \ host'.listed) \cup RemovesFor(host, c)) \ RemovesFor(host', c) \in SUBSET Clients
      BY <3>1, <3>2, HostFields, RemovesAreOfClients
    <3> QED BY <1>10, <3>2, <3>3 DEF Missed
  <2>2. inbox' \subseteq inbox
    BY <1>10
  <2> QED BY <1>4, <1>10, <2>1, <2>2 DEF RosterInv, RestOK
<1> QED
  BY <1>8, <1>13, <1>14 DEF RosterInv

LEMMA EndFrameKeeps == RosterInv /\ EndFrame => RosterInv'
<1> SUFFICES ASSUME RosterInv, EndFrame PROVE RosterInv'
  OBVIOUS
<1> DEFINE arrives == {c \in Clients : host.link[c] = "up"}
           ended == {c \in arrives : client[c] \in {"in", "waiting"} /\ Removed(c) \in ToSet(host.batch[c])}
           reached == {c \in arrives \cap Seated(host) : client[c] = "waiting"}
           b == [c \in Clients |-> <<>>]
           n == [c \in Clients |-> 0]
           l == [c \in Clients |-> IF c \in ended THEN "broken" ELSE host.link[c]]
           r == [host EXCEPT !.batch = b, !.nth = n, !.link = l]
<1>1. host \in Hosts
  BY DEF RosterInv, InOrderOf
<1>2. /\ inFrame' = FALSE /\ inbox' = {} /\ ran' = {} /\ due' = {}
      /\ view' = [c \in Watched |->
                   IF c \in ended THEN {}
                   ELSE IF c \in arrives THEN InTurn(ApplyLobbyState, view[c], host.batch[c]) ELSE view[c]]
      /\ client' = [c \in Clients |-> IF c \in ended THEN "gone"
                                     ELSE IF c \in reached THEN "in" ELSE client[c]]
      /\ news' = [c \in Clients |-> IF c \in ended THEN Append(news[c], "left") ELSE news[c]]
      /\ unheard' = [c \in Watched |-> IF c \in arrives THEN unheard[c] ELSE unheard[c] \cup RemovesFor(host, c)]
  BY DEF EndFrame
<1>3. host' = r
  BY DEF EndFrame
<1> HIDE DEF ended, reached, arrives
<1>4. l \in [Clients -> LinkStates] /\ b \in [Clients -> Seq(Messages)] /\ n \in [Clients -> Nat]
  BY <1>1, HostFields DEF LinkStates
<1> HIDE DEF l, b, n
<1>5. /\ r \in Hosts /\ r.seat = host.seat /\ r.listed = host.listed /\ r.held = host.held
      /\ r.waited = host.waited /\ r.fresh = host.fresh /\ r.changed = host.changed
      /\ r.overtaken = host.overtaken
  BY <1>1, <1>4 DEF Hosts
<1> HIDE DEF r
<1>6. InOrderOf(host') /\ \A U : Unheard(host, U) => Unheard(host', U)
  BY <1>3, <1>5, QuietKeeps DEF RosterInv
<1>7. ASSUME NEW c \in Clients
      PROVE  /\ news'[c] \in Seq({"joined", "left"})
             /\ "joined" \in ToSet(news'[c]) => "joined" \in ToSet(news[c])
             /\ client'[c] = "out" => client[c] = "out"
             /\ client'[c] \in ClientStates
  <2>1. news[c] \in Seq({"joined", "left"}) /\ client[c] \in ClientStates
    BY DEF RosterInv, RestOK
  <2>2. Append(news[c], "left") \in Seq({"joined", "left"}) /\ ToSet(Append(news[c], "left")) = ToSet(news[c]) \cup {"left"}
    BY <2>1, SaidIs
  <2>3. news'[c] = news[c] \/ news'[c] = Append(news[c], "left")
    BY <1>2
  <2>4. client'[c] \in {"gone", "in", client[c]}
    BY <1>2
  <2>5. /\ news'[c] \in Seq({"joined", "left"})
        /\ "joined" \in ToSet(news'[c]) => "joined" \in ToSet(news[c])
    <3> DEFINE t == Append(news[c], "left")
    <3>1. CASE news'[c] = news[c]
      BY <2>1, <3>1
    <3>2. CASE news'[c] = t
      <4>1. t \in Seq({"joined", "left"}) /\ ToSet(t) = ToSet(news[c]) \cup {"left"}
        BY <2>2
      <4> HIDE DEF t
      <4> QED BY <3>2, <4>1
    <3> QED BY <2>3, <3>1, <3>2
  <2> QED BY <2>1, <2>4, <2>5 DEF ClientStates
<1>8. Newcomers'
  BY <1>2, <1>6, <1>7, NobodyNew DEF RosterInv
<1>9. RestOK'
  <2>1. \A c \in Watched : c \in Clients /\ view[c] \in SUBSET Clients /\ unheard[c] \in SUBSET Clients
    BY ClientsAssumption DEF RosterInv, RestOK
  <2>2. \A c \in Watched : host.batch[c] \in Seq(Messages)
    BY <1>1, <2>1, HostFields
  <2>3. view' \in [Watched -> SUBSET Clients]
    <3>1. \A c \in Watched : InTurn(ApplyLobbyState, view[c], host.batch[c]) \in SUBSET Clients
      BY <2>1, <2>2, CopyIsOfClients
    <3> QED BY <1>2, <2>1, <3>1
  <2>4. unheard' \in [Watched -> SUBSET Clients]
    <3>1. \A c \in Watched : RemovesFor(host, c) \in SUBSET Clients
      BY <1>1, <2>1, RemovesAreOfClients
    <3> QED BY <1>2, <2>1, <3>1
  <2>5. news' \in [Clients -> Seq({"joined", "left"})] /\ client' \in [Clients -> ClientStates]
    BY <1>2, <1>7
  <2> QED BY <1>2, <2>3, <2>4, <2>5 DEF RestOK
<1> QED
  BY <1>6, <1>8, <1>9 DEF RosterInv

LEMMA JoinLobbyKeeps ==
  ASSUME RosterInv, NEW c \in Clients, JoinLobby(c)
  PROVE  RosterInv'
<1> DEFINE t == Append(news[c], "joined")
<1>1. /\ client[c] = "out" /\ client' = [client EXCEPT ![c] = "joining"] /\ news' = [news EXCEPT ![c] = t]
      /\ inbox' = inbox /\ due' = due /\ ran' = ran /\ inFrame' = inFrame
      /\ host' = host /\ view' = view /\ unheard' = unheard
  BY DEF JoinLobby, Between, frameVars
<1>2. t \in Seq({"joined", "left"}) /\ client \in [Clients -> ClientStates] /\ news \in [Clients -> Seq({"joined", "left"})]
  BY SaidIs DEF RosterInv, RestOK
<1> HIDE DEF t
<1>3. RestOK'
  <2>1. client' \in [Clients -> ClientStates] /\ news' \in [Clients -> Seq({"joined", "left"})]
    BY <1>1, <1>2 DEF ClientStates
  <2> QED BY <1>1, <2>1 DEF RosterInv, RestOK
<1>4. /\ client'[c] = "joining" /\ \A x \in Clients \ {c} : client'[x] = client[x] /\ news'[x] = news[x]
  BY <1>1, <1>2
<1>5. Newcomers'
  <2>1. Unknown' \subseteq Unknown
    <3> SUFFICES ASSUME NEW x \in Unknown' PROVE x \in Unknown
      OBVIOUS
    <3>1. CASE x = c
      BY <1>1, <3>1 DEF Unknown
    <3>2. CASE x \in Clients \ {c}
      BY <1>1, <1>4, <3>2 DEF Unknown, Input
    <3> QED BY <3>1, <3>2 DEF Unknown
  <2>2. Unheard(host', Unknown')
    BY <1>1, <2>1 DEF RosterInv, Newcomers, Unheard
  <2>3. ASSUME NEW x \in Clients
        PROVE  /\ client'[x] = "out" => "joined" \notin ToSet(news'[x]) /\ Input("joined", x) \notin inbox'
               /\ Input("joined", x) \in inbox' => "joined" \notin ToSet(news'[x])
    <3>1. CASE x = c
      BY <1>1, <1>4, <3>1 DEF RosterInv, Newcomers
    <3>2. CASE x # c
      BY <1>1, <1>4, <3>2 DEF RosterInv, Newcomers
    <3> QED BY <3>1, <3>2
  <2> QED BY <2>2, <2>3 DEF Newcomers, Input
<1> QED
  BY <1>1, <1>3, <1>5 DEF RosterInv

\* What Leaves does to all but the host.
LEMMA LeavesIs ==
  ASSUME RosterInv, NEW c \in Clients, Leaves(c)
  PROVE  /\ client' \in [Clients -> ClientStates] /\ news' \in [Clients -> Seq({"joined", "left"})]
         /\ view' \in [Watched -> SUBSET Clients] /\ unheard' = unheard
         /\ \A x \in Clients :
              /\ client'[x] = "out" => client[x] = "out"
              /\ "joined" \in ToSet(news'[x]) => "joined" \in ToSet(news[x])
<1> DEFINE t == Append(news[c], "left")
<1>1. /\ client' = [client EXCEPT ![c] = "gone"] /\ news' = [news EXCEPT ![c] = t]
      /\ view' = [d \in Watched |-> IF d = c THEN {} ELSE view[d]] /\ unheard' = unheard
  BY DEF Leaves
<1>2. /\ client \in [Clients -> ClientStates] /\ news \in [Clients -> Seq({"joined", "left"})]
      /\ view \in [Watched -> SUBSET Clients]
  BY DEF RosterInv, RestOK
<1>3. t \in Seq({"joined", "left"}) /\ ToSet(t) = ToSet(news[c]) \cup {"left"}
  BY <1>2, SaidIs
<1> HIDE DEF t
<1>4. client' \in [Clients -> ClientStates] /\ news' \in [Clients -> Seq({"joined", "left"})]
  BY <1>1, <1>2, <1>3 DEF ClientStates
<1>5. view' \in [Watched -> SUBSET Clients]
  BY <1>1, <1>2
<1>6. ASSUME NEW x \in Clients
      PROVE  /\ client'[x] = "out" => client[x] = "out"
             /\ "joined" \in ToSet(news'[x]) => "joined" \in ToSet(news[x])
  <2>1. CASE x = c
    BY <1>1, <1>2, <1>3, <2>1
  <2>2. CASE x # c
    BY <1>1, <1>2, <2>2
  <2> QED BY <2>1, <2>2
<1> QED
  BY <1>1, <1>4, <1>5, <1>6

\* What happens between two frames to a link and its client.
LEMMA BetweenKeeps ==
  ASSUME RosterInv, Between, InOrderOf(host'), \A U : Unheard(host, U) => Unheard(host', U),
         client' \in [Clients -> ClientStates], news' \in [Clients -> Seq({"joined", "left"})],
         view' \in [Watched -> SUBSET Clients], unheard' = unheard,
         \A x \in Clients :
           /\ client'[x] = "out" => client[x] = "out"
           /\ "joined" \in ToSet(news'[x]) => "joined" \in ToSet(news[x])
  PROVE  RosterInv'
<1>1. inbox' = inbox /\ due' = due /\ ran' = ran /\ inFrame' = inFrame
  BY DEF Between, frameVars
<1>2. Newcomers'
  BY <1>1, NobodyNew DEF RosterInv, Input
<1>3. RestOK'
  BY <1>1 DEF RosterInv, RestOK
<1> QED
  BY <1>2, <1>3 DEF RosterInv

LEMMA ClientStepKeeps ==
  ASSUME RosterInv, NEW c \in Clients,
         \/ Connect(c) \/ LinkBreaks(c) \/ LinkCloses(c) \/ LeaveLobby(c) \/ NoticesTheBreak(c)
  PROVE  RosterInv'
<1>1. /\ InOrderOf(host) /\ client \in [Clients -> ClientStates] /\ news \in [Clients -> Seq({"joined", "left"})]
      /\ view \in [Watched -> SUBSET Clients]
  BY DEF RosterInv, RestOK
<1>2. ASSUME NEW to \in LinkStates, host' = [host EXCEPT !.link[c] = to]
      PROVE  InOrderOf(host') /\ \A U : Unheard(host, U) => Unheard(host', U)
  <2> DEFINE r == [host EXCEPT !.link[c] = to]
  <2>1. InOrderOf(r) /\ \A U : Unheard(host, U) => Unheard(r, U)
    BY <1>1, RelinkKeeps
  <2>2. host' = r
    BY <1>2
  <2> HIDE DEF r
  <2> QED BY <2>1, <2>2
<1>3. CASE Connect(c)
  <2>1. /\ Between /\ client[c] \in {"joining", "waiting"} /\ host' = [host EXCEPT !.link[c] = "up"]
        /\ client' = [client EXCEPT ![c] = IF @ = "joining" THEN "in" ELSE @]
        /\ view' = view /\ news' = news /\ unheard' = unheard
    BY <1>3 DEF Connect
  <2>2. client' \in [Clients -> ClientStates] /\ \A x \in Clients : client'[x] = "out" => client[x] = "out"
    BY <1>1, <2>1 DEF ClientStates
  <2>3. "up" \in LinkStates
    BY DEF LinkStates
  <2> QED BY <1>1, <1>2, <2>1, <2>2, <2>3, BetweenKeeps
<1>4. CASE LinkBreaks(c)
  <2>1. /\ Between /\ host' = [host EXCEPT !.link[c] = "broken"]
        /\ client' = client /\ view' = view /\ news' = news /\ unheard' = unheard
    BY <1>4 DEF LinkBreaks, clientVars
  <2>2. "broken" \in LinkStates
    BY DEF LinkStates
  <2> QED BY <1>1, <1>2, <2>1, <2>2, BetweenKeeps
<1>5. CASE LinkCloses(c)
  <2>1. /\ Between /\ host' = [host EXCEPT !.link[c] = "none"]
        /\ \/ client' = client /\ view' = view /\ news' = news /\ unheard' = unheard
           \/ Leaves(c)
    BY <1>5 DEF LinkCloses, clientVars
  <2>2. "none" \in LinkStates
    BY DEF LinkStates
  <2>3. InOrderOf(host') /\ \A U : Unheard(host, U) => Unheard(host', U)
    BY <1>2, <2>1, <2>2
  <2>4. CASE client' = client /\ view' = view /\ news' = news /\ unheard' = unheard
    BY <1>1, <2>1, <2>3, <2>4, BetweenKeeps
  <2>5. CASE Leaves(c)
    BY <2>1, <2>3, <2>5, LeavesIs, BetweenKeeps
  <2> QED BY <2>1, <2>4, <2>5
<1>6. CASE LeaveLobby(c)
  <2> DEFINE to == IF host.link[c] \in {"dialling", "up"} THEN "broken" ELSE "none"
  <2>1. Between /\ Leaves(c) /\ host' = [host EXCEPT !.link[c] = to]
    BY <1>6 DEF LeaveLobby
  <2>2. to \in LinkStates
    BY DEF LinkStates
  <2> HIDE DEF to
  <2>3. InOrderOf(host') /\ \A U : Unheard(host, U) => Unheard(host', U)
    BY <1>2, <2>1, <2>2
  <2> QED BY <2>1, <2>3, LeavesIs, BetweenKeeps
<1>7. CASE NoticesTheBreak(c)
  <2>1. /\ Between /\ host' = host
        /\ \/ client' = [client EXCEPT ![c] = "waiting"] /\ view' = view /\ news' = news /\ unheard' = unheard
           \/ Leaves(c)
    BY <1>7 DEF NoticesTheBreak
  <2>2. InOrderOf(host') /\ \A U : Unheard(host, U) => Unheard(host', U)
    BY <1>1, <2>1
  <2>3. CASE client' = [client EXCEPT ![c] = "waiting"] /\ view' = view /\ news' = news /\ unheard' = unheard
    <3>1. client' \in [Clients -> ClientStates] /\ \A x \in Clients : client'[x] = "out" => client[x] = "out"
      BY <1>1, <2>3 DEF ClientStates
    <3> QED BY <1>1, <2>1, <2>2, <2>3, <3>1, BetweenKeeps
  <2>4. CASE Leaves(c)
    BY <2>1, <2>2, <2>4, LeavesIs, BetweenKeeps
  <2> QED BY <2>1, <2>3, <2>4
<1> QED
  BY <1>3, <1>4, <1>5, <1>6, <1>7

LEMMA HearsADepartureKeeps ==
  ASSUME RosterInv, NEW c \in Watched, HearsADeparture(c)
  PROVE  RosterInv'
<1>1. PICK gone \in view[c] : view' = [view EXCEPT ![c] = @ \ {gone}]
  BY DEF HearsADeparture
<1>2. Between /\ host' = host /\ client' = client /\ news' = news /\ unheard' = unheard
  BY DEF HearsADeparture
<1>3. /\ InOrderOf(host) /\ client \in [Clients -> ClientStates] /\ news \in [Clients -> Seq({"joined", "left"})]
      /\ view \in [Watched -> SUBSET Clients]
  BY DEF RosterInv, RestOK
<1>4. view' \in [Watched -> SUBSET Clients]
  BY <1>1, <1>3
<1> QED
  BY <1>2, <1>3, <1>4, BetweenKeeps

\* A run is of clients there are: bounds does not change.
BoundsOK == bounds \in Instances
LEMMA StepKeeps == BoundsOK /\ RosterInv /\ [Next]_vars => RosterInv' /\ BoundsOK'
<1> SUFFICES ASSUME BoundsOK, RosterInv, [Next]_vars PROVE RosterInv' /\ BoundsOK'
  OBVIOUS
<1>1. bounds.players \subseteq Clients
  BY BoundAssumption DEF BoundsOK
<1>2. CASE UNCHANGED vars
  <2>1. /\ host' = host /\ inbox' = inbox /\ due' = due /\ ran' = ran /\ inFrame' = inFrame
        /\ client' = client /\ view' = view /\ news' = news /\ bounds' = bounds /\ unheard' = unheard
    BY <1>2 DEF vars, frameVars, clientVars
  <2>2. RestOK'
    BY <2>1 DEF RosterInv, RestOK
  <2>3. Newcomers'
    BY <2>1, NobodyNew DEF RosterInv, Input
  <2> QED BY <2>1, <2>2, <2>3 DEF RosterInv, BoundsOK
<1>3. CASE BeginFrame
  BY <1>3, BeginFrameKeeps DEF BeginFrame, BoundsOK
<1>4. CASE Update
  BY <1>4, UpdateKeeps DEF Update, BoundsOK
<1>5. CASE EndFrame
  BY <1>5, EndFrameKeeps DEF EndFrame, BoundsOK
<1>6. ASSUME NEW c \in Clients, JoinLobby(c) PROVE RosterInv' /\ BoundsOK'
  BY <1>6, JoinLobbyKeeps DEF JoinLobby, Between, BoundsOK
<1>7. ASSUME NEW c \in Clients,
             \/ Connect(c) \/ LinkBreaks(c) \/ LinkCloses(c) \/ LeaveLobby(c) \/ NoticesTheBreak(c)
      PROVE  RosterInv' /\ BoundsOK'
  <2>1. Between
    BY <1>7 DEF Connect, LinkBreaks, LinkCloses, LeaveLobby, NoticesTheBreak
  <2> QED BY <1>7, <2>1, ClientStepKeeps DEF Between, BoundsOK
<1>8. ASSUME NEW c \in Watched, HearsADeparture(c) PROVE RosterInv' /\ BoundsOK'
  BY <1>8, HearsADepartureKeeps DEF HearsADeparture, Between, BoundsOK
<1> QED
  BY <1>1, <1>2, <1>3, <1>4, <1>5, <1>6, <1>7, <1>8 DEF Next

\* The invariant, for any number of players: every system queues what it may, and no
\* command, whatever was applied before it, undoes what another has put right.
THEOREM RosterStaysRight == Spec => [](BoundsOK /\ RosterInv)
<1>1. Init => BoundsOK /\ RosterInv
  BY InvStarts DEF Init, BoundsOK
<1>2. BoundsOK /\ RosterInv /\ [Next]_vars => (BoundsOK /\ RosterInv)'
  BY StepKeeps
<1> QED
  BY <1>1, <1>2, PTL DEF Spec

\* The variables have their types; whoever waits, or changed, is listed.
THEOREM RosterTypesHold == Spec => []TypeOK
<1>1. RosterInv => TypeOK
  BY TypeIs DEF RosterInv, InOrderOf, Backed
<1> QED
  BY <1>1, RosterStaysRight, PTL

\* The roster is that of the seats: between frames nobody is listed who has neither a
\* seat nor a wait that will remove them, and every seat is of somebody listed, for whom
\* nobody waits, but where the wait ran out in the frame of the return.
THEOREM RosterFollowsTheSeats == Spec => []RosterIsTheSeats
<1>1. RosterInv => RosterIsTheSeats
  <2> SUFFICES ASSUME RosterInv
               PROVE  /\ \A c \in host.listed : host.seat[c] = "seated" \/ c \in host.held
                      /\ \A c \in Seated(host) \ host.fresh.seats :
                           c \in host.overtaken \/ c \in host.listed \ host.held
    BY DEF RosterIsTheSeats
  <2>1. \A c \in host.listed : c \in Seated(host) \/ c \in host.held
    BY DEF RosterInv, InOrderOf, Backed
  <2>2. \A c \in Clients : Seen(host, c)
    BY DEF RosterInv, InOrderOf
  <2> QED BY <2>1, <2>2 DEF Seated, Seen
<1> QED
  BY <1>1, RosterStaysRight, PTL

------------------------------------------------------------------------------
\* What a command says, and to whom

\* Nothing is said to w, and nobody goes.
Grew(h, r, w) ==
  /\ r.batch[w] = h.batch[w] /\ h.listed \subseteq r.listed
  /\ r.listed \ h.listed \subseteq r.changed /\ h.changed \subseteq r.changed
\* x goes, and w is told.
Lost(h, r, w, x) ==
  r.batch[w] = Append(h.batch[w], Removed(x)) /\ r.listed = h.listed \ {x} /\ r.changed = h.changed \ {x}
\* w is told who is here.
Heard(h, r, w, who) ==
  /\ r.batch[w] = Append(h.batch[w], Present(who)) /\ r.listed = h.listed /\ r.changed = h.changed
  /\ who \subseteq h.listed \cup r.crossed
Told(h, r, w) ==
  \/ Grew(h, r, w)
  \/ w \in Seated(h) /\ \E x \in Clients : Lost(h, r, w, x)
  \/ w \in Seated(h) /\ \E who \in SUBSET Clients : Heard(h, r, w, who)
\* What every command respects: a seat is new to sync_existing_participants_to_new_lobby_clients
\* when it is promoted, a link is not dialled, and what is batched goes with its seat.
Sound(h, r) ==
  /\ h.crossed \subseteq r.crossed /\ h.overtaken \subseteq r.overtaken
  /\ \A x \in Clients :
       /\ r.link[x] \in {"up", "dialling"} => r.link[x] = h.link[x]
       /\ x \in Seated(r) \ r.overtaken /\ r.link[x] = "dialling" => x \in Seated(h) \ h.overtaken
       /\ x \in Seated(r) \ r.fresh.syncs => x \in Seated(h) \ h.fresh.syncs
       /\ x \notin Seated(r) => r.batch[x] = <<>> \/ (x \notin Seated(h) /\ r.batch[x] = h.batch[x])
       /\ x \in Watched \cap Seated(r) => Told(h, r, x)
       /\ \/ r.nth[x] = h.nth[x] /\ r.seat[x] \in {h.seat[x], "none", "seated"}
          \/ r.nth[x] = h.nth[x] + 1
\* What a command leaves of a player who is listed.
Spares(h, r, x) ==
  x \in h.listed \ Seated(h) => x \in r.listed \ Seated(r) /\ r.link[x] = h.link[x]

\* Players come to be listed, and nothing else that matters.
LEMMA GrewIsSound ==
  ASSUME NEW h \in Hosts, NEW r \in Hosts,
         r.seat = h.seat, r.nth = h.nth, r.link = h.link, r.fresh = h.fresh, r.batch = h.batch,
         r.crossed = h.crossed, r.overtaken = h.overtaken,
         h.listed \subseteq r.listed, r.listed \ h.listed \subseteq r.changed, h.changed \subseteq r.changed
  PROVE  Sound(h, r) /\ \A x \in Clients : Spares(h, r, x)
<1>1. Seated(r) = Seated(h)
  BY DEF Seated
<1>2. \A x \in Clients : Told(h, r, x)
  BY DEF Told, Grew
<1> QED
  BY <1>1, <1>2 DEF Sound, Spares

LEMMA SeatParticipantSays ==
  ASSUME NEW h \in Hosts, NEW k, k.of \in Clients
  PROVE  LET r == SeatParticipant(h, k)
         IN Sound(h, r) /\ (\A x \in Clients : Spares(h, r, x)) /\ h.listed \subseteq r.listed
<1> DEFINE c == k.of
           w == [h.waited EXCEPT ![c] = 0]
           e == h.held \ {c}
           l == h.listed \cup {c}
           n == h.changed \cup {c}
           a == [h EXCEPT !.held = e, !.waited = w]
           b == [h EXCEPT !.listed = l, !.changed = n]
<1>1. SeatParticipant(h, k) \in {h, a, b}
  BY DEF SeatParticipant
<1>2. w \in [Clients -> 0..Hold] /\ e \in SUBSET Clients /\ l \in SUBSET Clients /\ n \in SUBSET Clients
  BY HostFields, HoldAssumption
<1>3. h.listed \subseteq l /\ l \ h.listed \subseteq n /\ h.changed \subseteq n
  OBVIOUS
<1> HIDE DEF w, e, l, n
<1>4. /\ a \in Hosts /\ a.seat = h.seat /\ a.nth = h.nth /\ a.link = h.link /\ a.fresh = h.fresh /\ a.batch = h.batch
      /\ a.crossed = h.crossed /\ a.overtaken = h.overtaken /\ a.listed = h.listed /\ a.changed = h.changed
  BY <1>2 DEF Hosts
<1>5. /\ b \in Hosts /\ b.seat = h.seat /\ b.nth = h.nth /\ b.link = h.link /\ b.fresh = h.fresh /\ b.batch = h.batch
      /\ b.crossed = h.crossed /\ b.overtaken = h.overtaken /\ b.listed = l /\ b.changed = n
  BY <1>2 DEF Hosts
<1> HIDE DEF a, b
<1>6. Sound(h, h) /\ \A x \in Clients : Spares(h, h, x)
  BY GrewIsSound
<1>7. Sound(h, a) /\ \A x \in Clients : Spares(h, a, x)
  BY <1>4, GrewIsSound
<1>8. Sound(h, b) /\ \A x \in Clients : Spares(h, b, x)
  BY <1>3, <1>5, GrewIsSound
<1> QED
  BY <1>1, <1>3, <1>4, <1>5, <1>6, <1>7, <1>8

LEMMA OnSeatRemovedSays ==
  ASSUME NEW h \in Hosts, NEW c \in Clients
  PROVE  LET r == OnSeatRemoved(h, c)
         IN Sound(h, r) /\ \A x \in Clients \ {c} : Spares(h, r, x) /\ (x \in h.listed => x \in r.listed)
<1> DEFINE r == OnSeatRemoved(h, c)
<1>1. /\ r \in Hosts
      /\ r.seat[c] = "none" /\ \A x \in Clients \ {c} : r.seat[x] = h.seat[x]
      /\ \A s \in Stages : r.fresh[s] = h.fresh[s] \ {c}
      /\ r.nth = h.nth /\ r.listed = h.listed \ {c} /\ r.changed = h.changed \ {c}
      /\ r.crossed = h.crossed /\ r.overtaken = h.overtaken
      /\ r.link[c] \notin {"dialling", "up"} /\ \A x \in Clients \ {c} : r.link[x] = h.link[x]
      /\ r.batch[c] = <<>>
      /\ \A x \in Clients \ {c} :
           r.batch[x] = IF x \in Seated(h) /\ x \in Watched THEN Append(h.batch[x], Removed(c))
                        ELSE h.batch[x]
  BY OnSeatRemovedIs
<1> HIDE DEF r
<1>3. Seated(r) = Seated(h) \ {c}
  BY <1>1 DEF Seated
<1>4. r.fresh.syncs = h.fresh.syncs \ {c}
  BY <1>1 DEF Stages
<1>5. ASSUME NEW x \in Clients
      PROVE  /\ r.link[x] \in {"up", "dialling"} => r.link[x] = h.link[x]
             /\ x \in Seated(r) \ r.overtaken /\ r.link[x] = "dialling" => x \in Seated(h) \ h.overtaken
             /\ x \in Seated(r) \ r.fresh.syncs => x \in Seated(h) \ h.fresh.syncs
             /\ x \notin Seated(r) => r.batch[x] = <<>> \/ (x \notin Seated(h) /\ r.batch[x] = h.batch[x])
             /\ x \in Watched \cap Seated(r) => Told(h, r, x)
             /\ r.nth[x] = h.nth[x] /\ r.seat[x] \in {h.seat[x], "none", "seated"}
  <2>1. CASE x = c
    BY <1>1, <1>3, <2>1
  <2>2. CASE x \in Clients \ {c}
    <3>1. x \in Watched \cap Seated(r) => Lost(h, r, x, c) /\ x \in Seated(h)
      BY <1>1, <1>3, <2>2 DEF Lost
    <3> QED BY <1>1, <1>3, <1>4, <2>2, <3>1 DEF Told
  <2> QED BY <2>1, <2>2
<1>6. \A x \in Clients \ {c} : Spares(h, r, x) /\ (x \in h.listed => x \in r.listed)
  BY <1>1, <1>3 DEF Spares
<1> QED
  BY <1>1, <1>5, <1>6 DEF Sound, r

\* A player goes, and all who have a seat are told.
LEMMA GoneIsSound ==
  ASSUME NEW h \in Hosts, NEW r \in Hosts, NEW c \in Clients,
         r.seat = h.seat, r.nth = h.nth, r.link = h.link, r.fresh = h.fresh,
         r.crossed = h.crossed, h.overtaken \subseteq r.overtaken,
         r.listed = h.listed \ {c}, r.changed = h.changed \ {c},
         \A x \in Clients :
           r.batch[x] = IF x \in Seated(h) /\ (x \in Watched \/ Removed(c) = Removed(x))
                        THEN Append(h.batch[x], Removed(c)) ELSE h.batch[x]
  PROVE  Sound(h, r) /\ \A x \in Clients \ {c} : Spares(h, r, x) /\ (x \in h.listed => x \in r.listed)
<1>1. Seated(r) = Seated(h)
  BY DEF Seated
<1>2. \A x \in Watched \cap Seated(r) : x \in Clients => Told(h, r, x)
  BY <1>1 DEF Told, Lost
<1>3. \A x \in Clients : x \notin Seated(h) => r.batch[x] = h.batch[x]
  OBVIOUS
<1>4. \A x \in Clients \ {c} : Spares(h, r, x) /\ (x \in h.listed => x \in r.listed)
  BY <1>1 DEF Spares
<1> QED
  BY <1>1, <1>2, <1>3, <1>4 DEF Sound

LEMMA DepartedSays ==
  ASSUME NEW h \in Hosts, NEW c \in Clients
  PROVE  LET r == ParticipantDeparted(h, c)
         IN Sound(h, r) /\ \A x \in Clients \ {c} : Spares(h, r, x) /\ (x \in h.listed => x \in r.listed)
<1> DEFINE v == SayToAll(Unlist(h, c), Removed(c))
<1>1. ParticipantDeparted(h, c) \in {OnSeatRemoved(h, c), v, h}
  BY DEF ParticipantDeparted
<1>2. Sound(h, v) /\ \A x \in Clients \ {c} : Spares(h, v, x) /\ (x \in h.listed => x \in v.listed)
  <2>1. /\ v \in Hosts /\ v.seat = h.seat /\ v.nth = h.nth /\ v.link = h.link /\ v.fresh = h.fresh
        /\ v.crossed = h.crossed /\ v.overtaken = h.overtaken
        /\ v.listed = h.listed \ {c} /\ v.changed = h.changed \ {c}
        /\ \A x \in Clients :
             v.batch[x] = IF x \in Seated(h) /\ (x \in Watched \/ Removed(c) = Removed(x))
                          THEN Append(h.batch[x], Removed(c)) ELSE h.batch[x]
    BY UnlistedSaidIs
  <2> HIDE DEF v
  <2> QED BY <2>1, GoneIsSound
<1>3. Sound(h, h) /\ \A x \in Clients : Spares(h, h, x)
  BY GrewIsSound
<1> HIDE DEF v
<1> QED
  BY <1>1, <1>2, <1>3, OnSeatRemovedSays

LEMMA DropSays ==
  ASSUME NEW h \in Hosts, NEW c \in Clients
  PROVE  LET r == DropParticipant(h, c)
         IN Sound(h, r) /\ \A x \in Clients \ {c} : Spares(h, r, x) /\ (x \in h.listed => x \in r.listed)
<1> DEFINE v == SayToAll(Unlist(h, c), Removed(c))
           back == c \in Seated(h) \/ h.waited[c] = 0
           o == IF back THEN v.overtaken \cup {c} ELSE v.overtaken
           r == DropParticipant(h, c)
<1>1. /\ v \in Hosts /\ v.seat = h.seat /\ v.nth = h.nth /\ v.link = h.link /\ v.fresh = h.fresh
      /\ v.crossed = h.crossed /\ v.overtaken = h.overtaken
      /\ v.listed = h.listed \ {c} /\ v.changed = h.changed \ {c}
      /\ \A x \in Clients :
           v.batch[x] = IF x \in Seated(h) /\ (x \in Watched \/ Removed(c) = Removed(x))
                        THEN Append(h.batch[x], Removed(c)) ELSE h.batch[x]
  BY UnlistedSaidIs
<1>2. r = [v EXCEPT !.overtaken = o]
  BY DEF DropParticipant
<1> HIDE DEF v
<1>3. o \in SUBSET Clients /\ h.overtaken \subseteq o
  BY <1>1, HostFields
<1> HIDE DEF o, r
<1>4. /\ r \in Hosts /\ r.seat = v.seat /\ r.nth = v.nth /\ r.link = v.link /\ r.fresh = v.fresh
      /\ r.crossed = v.crossed /\ r.overtaken = o /\ r.batch = v.batch
      /\ r.listed = v.listed /\ r.changed = v.changed
  BY <1>1, <1>2, <1>3 DEF Hosts
<1>5. Sound(h, r) /\ \A x \in Clients \ {c} : Spares(h, r, x) /\ (x \in h.listed => x \in r.listed)
  BY <1>1, <1>3, <1>4, GoneIsSound
<1> QED
  BY <1>5 DEF r

\* A seat goes, and its player stays listed.
LEMMA UnseatedIsSound ==
  ASSUME NEW h \in Hosts, NEW r \in Hosts, NEW c \in Clients,
         r.seat[c] = "none", \A x \in Clients \ {c} : r.seat[x] = h.seat[x],
         r.link[c] \notin {"dialling", "up"} \/ r.link[c] = h.link[c],
         \A x \in Clients \ {c} : r.link[x] = h.link[x],
         \A s \in Stages : r.fresh[s] = h.fresh[s] \ {c},
         r.nth = h.nth, r.batch[c] = <<>>, \A x \in Clients \ {c} : r.batch[x] = h.batch[x],
         r.crossed = h.crossed, r.overtaken = h.overtaken, r.listed = h.listed, r.changed = h.changed
  PROVE  /\ Sound(h, r) /\ \A x \in Clients \ {c} : Spares(h, r, x)
         /\ r.link[c] = h.link[c] => Spares(h, r, c)
<1>1. Seated(r) = Seated(h) \ {c}
  BY DEF Seated
<1>2. r.fresh.syncs = h.fresh.syncs \ {c}
  BY DEF Stages
<1>3. ASSUME NEW x \in Clients
      PROVE  /\ r.link[x] \in {"up", "dialling"} => r.link[x] = h.link[x]
             /\ x \in Seated(r) \ r.overtaken /\ r.link[x] = "dialling" => x \in Seated(h) \ h.overtaken
             /\ x \in Seated(r) \ r.fresh.syncs => x \in Seated(h) \ h.fresh.syncs
             /\ x \notin Seated(r) => r.batch[x] = <<>> \/ (x \notin Seated(h) /\ r.batch[x] = h.batch[x])
             /\ x \in Watched \cap Seated(r) => Told(h, r, x)
             /\ r.nth[x] = h.nth[x] /\ r.seat[x] \in {h.seat[x], "none", "seated"}
  <2>1. CASE x = c
    BY <1>1, <2>1
  <2>2. CASE x \in Clients \ {c}
    <3>1. Told(h, r, x)
      BY <2>2 DEF Told, Grew
    <3> QED BY <1>1, <1>2, <2>2, <3>1
  <2> QED BY <2>1, <2>2
<1> QED
  BY <1>1, <1>3 DEF Sound, Spares

LEMMA UnseatSays ==
  ASSUME NEW h \in Hosts, NEW c \in Clients
  PROVE  LET r == Unseat(h, c)
         IN Sound(h, r) /\ (\A x \in Clients : Spares(h, r, x)) /\ r.listed = h.listed
<1> DEFINE r == Unseat(h, c)
<1>1. /\ r \in Hosts
      /\ r.seat[c] = "none" /\ \A x \in Clients \ {c} : r.seat[x] = h.seat[x]
      /\ r.batch[c] = <<>> /\ \A x \in Clients \ {c} : r.batch[x] = h.batch[x]
      /\ \A s \in Stages : r.fresh[s] = h.fresh[s] \ {c}
      /\ r.nth = h.nth /\ r.link = h.link /\ r.listed = h.listed
      /\ r.changed = h.changed /\ r.crossed = h.crossed /\ r.overtaken = h.overtaken
  BY UnseatIs
<1> HIDE DEF r
<1>2. /\ Sound(h, r) /\ \A x \in Clients \ {c} : Spares(h, r, x)
      /\ r.link[c] = h.link[c] => Spares(h, r, c)
  BY <1>1, UnseatedIsSound
<1> QED
  BY <1>1, <1>2 DEF r

LEMMA LinkLostSays ==
  ASSUME NEW h \in Hosts, NEW c \in Clients
  PROVE  LET r == SeatLinkLost(h, c)
         IN /\ Sound(h, r) /\ \A x \in Clients \ {c} : Spares(h, r, x) /\ (x \in h.listed => x \in r.listed)
            /\ Spares(h, r, c)
<1>1. Sound(h, h) /\ \A x \in Clients : Spares(h, h, x)
  BY GrewIsSound
<1>2. CASE h.seat[c] # "seated"
  BY <1>1, <1>2 DEF SeatLinkLost
<1>3. CASE h.seat[c] = "seated" /\ ~(h.reconnectable /\ c \in h.listed)
  <2>1. SeatLinkLost(h, c) = OnSeatRemoved(h, c) /\ c \in Seated(h)
    BY <1>3 DEF SeatLinkLost, Seated
  <2>2. Spares(h, OnSeatRemoved(h, c), c)
    BY <2>1 DEF Spares
  <2> QED BY <2>1, <2>2, OnSeatRemovedSays
<1>4. CASE h.seat[c] = "seated" /\ h.reconnectable /\ c \in h.listed
  <2> DEFINE w == [h.waited EXCEPT ![c] = 0]
             e == h.held \cup {c}
             a == [h EXCEPT !.held = e, !.waited = w]
             d == Disconnect(a, c)
             r == Unseat(d, c)
  <2>1. SeatLinkLost(h, c) = r
    BY <1>4 DEF SeatLinkLost
  <2>2. w \in [Clients -> 0..Hold] /\ e \in SUBSET Clients
    BY HostFields, HoldAssumption
  <2> HIDE DEF w, e
  <2>3. /\ a \in Hosts /\ a.seat = h.seat /\ a.nth = h.nth /\ a.fresh = h.fresh /\ a.listed = h.listed /\ a.batch = h.batch
        /\ a.changed = h.changed /\ a.overtaken = h.overtaken /\ a.crossed = h.crossed /\ a.link = h.link
    BY <2>2 DEF Hosts
  <2> HIDE DEF a
  <2>4. /\ d \in Hosts /\ d.seat = h.seat /\ d.nth = h.nth /\ d.fresh = h.fresh /\ d.listed = h.listed /\ d.batch = h.batch
        /\ d.changed = h.changed /\ d.overtaken = h.overtaken /\ d.crossed = h.crossed
        /\ d.link[c] \notin {"dialling", "up"} /\ \A x \in Clients \ {c} : d.link[x] = h.link[x]
    BY <2>3, DisconnectIs
  <2> HIDE DEF d
  <2>5. /\ r \in Hosts
        /\ r.seat[c] = "none" /\ \A x \in Clients \ {c} : r.seat[x] = h.seat[x]
        /\ r.batch[c] = <<>> /\ \A x \in Clients \ {c} : r.batch[x] = h.batch[x]
        /\ \A s \in Stages : r.fresh[s] = h.fresh[s] \ {c}
        /\ r.nth = h.nth /\ r.link = d.link /\ r.listed = h.listed
        /\ r.changed = h.changed /\ r.crossed = h.crossed /\ r.overtaken = h.overtaken
    BY <2>4, UnseatIs
  <2> HIDE DEF r
  <2>6. Sound(h, r) /\ \A x \in Clients \ {c} : Spares(h, r, x)
    BY <2>4, <2>5, UnseatedIsSound
  <2>7. Spares(h, r, c)
    BY <1>4 DEF Spares, Seated
  <2> QED BY <2>1, <2>5, <2>6, <2>7
<1> QED
  BY <1>2, <1>3, <1>4

\* Someone is told who is here.
LEMMA SyncSays ==
  ASSUME NEW h \in Hosts, NEW c \in Clients, NEW who \in SUBSET Clients
  PROVE  LET a == Announce(h, who)
             r == SayToAll(a, Present(who))
             t == SayTo(a, c, Present(who))
         IN /\ Sound(h, r) /\ (\A x \in Clients : Spares(h, r, x)) /\ r.listed = h.listed
            /\ c \in Seated(h) => Sound(h, t)
            /\ (\A x \in Clients : Spares(h, t, x)) /\ t.listed = h.listed
            /\ \A x \in Watched \cap Seated(h) : Heard(h, r, x, who)
            /\ c \in Watched => Heard(h, t, c, who)
<1> DEFINE a == Announce(h, who)
           m == Present(who)
           r == SayToAll(a, m)
           t == SayTo(a, c, m)
<1>1. m \in Messages /\ \A x \in Clients : m # Removed(x)
  BY DEF Messages, Present, Removed
<1>2. /\ a \in Hosts /\ a.seat = h.seat /\ a.nth = h.nth /\ a.link = h.link /\ a.listed = h.listed
      /\ a.fresh = h.fresh /\ a.changed = h.changed /\ a.batch = h.batch
      /\ a.overtaken = h.overtaken /\ a.crossed = h.crossed \cup (who \ h.listed)
  BY AnnounceIs
<1>3. m = Present(who)
  OBVIOUS
<1> HIDE DEF a, m
<1>4. Seated(a) = Seated(h)
  BY <1>2 DEF Seated
<1>5. /\ r \in Hosts /\ r.seat = h.seat /\ r.nth = h.nth /\ r.nth = h.nth /\ r.link = h.link /\ r.listed = h.listed
      /\ r.fresh = h.fresh /\ r.changed = h.changed
      /\ r.overtaken = h.overtaken /\ r.crossed = h.crossed \cup (who \ h.listed)
      /\ \A x \in Clients :
           r.batch[x] = IF x \in Seated(h) /\ x \in Watched THEN Append(h.batch[x], m) ELSE h.batch[x]
  BY <1>1, <1>2, <1>4, SayToAllIs
<1>6. /\ t \in Hosts /\ t.seat = h.seat /\ t.nth = h.nth /\ t.link = h.link /\ t.listed = h.listed
      /\ t.fresh = h.fresh /\ t.changed = h.changed
      /\ t.overtaken = h.overtaken /\ t.crossed = h.crossed \cup (who \ h.listed)
      /\ \A x \in Clients :
           t.batch[x] = IF x = c /\ c \in Watched THEN Append(h.batch[x], m) ELSE h.batch[x]
  BY <1>1, <1>2, SayToIs
<1> HIDE DEF r, t
<1>7. Seated(r) = Seated(h) /\ Seated(t) = Seated(h)
  BY <1>5, <1>6 DEF Seated
<1>8. \A x \in Watched \cap Seated(h) : x \in Clients => Heard(h, r, x, who)
  BY <1>3, <1>5 DEF Heard
<1>9. c \in Watched => Heard(h, t, c, who)
  BY <1>3, <1>6 DEF Heard
<1>10. \A x \in Watched \cap Seated(h) : x \in Clients => Told(h, r, x)
  BY <1>8 DEF Told
<1>11. \A x \in Watched \cap Seated(h) : x \in Clients => Told(h, t, x)
  BY <1>6, <1>9 DEF Told, Grew
<1>12. Sound(h, r) /\ \A x \in Clients : Spares(h, r, x)
  BY <1>5, <1>7, <1>10 DEF Sound, Spares
<1>13. c \in Seated(h) => Sound(h, t)
  BY <1>6, <1>7, <1>11 DEF Sound
<1>14. \A x \in Clients : Spares(h, t, x)
  BY <1>6, <1>7 DEF Spares
<1>15. \A x \in Watched \cap Seated(h) : Heard(h, r, x, who)
  BY ClientsAssumption, <1>8
<1> QED
  BY <1>5, <1>6, <1>9, <1>12, <1>13, <1>14, <1>15 DEF a, m, r, t

LEMMA SpawnSays ==
  ASSUME NEW h \in Hosts, NEW c \in Clients, NEW kind \in {"pending", "redial"}, c \notin Seated(h)
  PROVE  LET r == SpawnSeat(h, c, kind)
         IN Sound(h, r) /\ (\A x \in Clients : Spares(h, r, x)) /\ r.listed = h.listed
<1> DEFINE z == [h.seat EXCEPT ![c] = kind]
           n == [h.nth EXCEPT ![c] = @ + 1]
           r == SpawnSeat(h, c, kind)
<1>1. z \in [Clients -> Seats] /\ z[c] = kind /\ \A x \in Clients \ {c} : z[x] = h.seat[x]
  BY HostFields DEF Seats
<1>2. n \in [Clients -> Nat] /\ n[c] = h.nth[c] + 1 /\ \A x \in Clients \ {c} : n[x] = h.nth[x]
  BY HostFields
<1>3. r = [h EXCEPT !.seat = z, !.nth = n]
  BY DEF SpawnSeat
<1> HIDE DEF z, n, r
<1>4. /\ r \in Hosts /\ r.seat = z /\ r.nth = n /\ r.link = h.link /\ r.listed = h.listed
      /\ r.fresh = h.fresh /\ r.changed = h.changed /\ r.batch = h.batch
      /\ r.crossed = h.crossed /\ r.overtaken = h.overtaken
  BY <1>1, <1>2, <1>3 DEF Hosts
<1>5. Seated(r) = Seated(h)
  BY <1>1, <1>4 DEF Seated
<1>6. \A x \in Clients : Told(h, r, x)
  BY <1>4 DEF Told, Grew
<1>7. ASSUME NEW x \in Clients
      PROVE  \/ r.nth[x] = h.nth[x] /\ r.seat[x] \in {h.seat[x], "none", "seated"}
             \/ r.nth[x] = h.nth[x] + 1
  BY <1>1, <1>2, <1>4
<1>8. Sound(h, r) /\ \A x \in Clients : Spares(h, r, x)
  BY <1>4, <1>5, <1>6, <1>7 DEF Sound, Spares
<1> QED
  BY <1>4, <1>8 DEF r

LEMMA PromoteSays ==
  ASSUME NEW h \in Hosts, NEW c \in Clients
  PROVE  LET r == PromoteSeat(h, c)
         IN /\ Sound(h, r) /\ (\A x \in Clients \ {c} : Spares(h, r, x)) /\ r.listed = h.listed
            /\ h.link[c] = "dialling" => c \in r.overtaken
            /\ Seated(r) = Seated(h) \cup {c}
<1> DEFINE z == [h.seat EXCEPT ![c] = "seated"]
           f == [s \in DOMAIN h.fresh |-> h.fresh[s] \cup {c}]
           o == IF h.link[c] = "dialling" THEN h.overtaken \cup {c} ELSE h.overtaken
           r == PromoteSeat(h, c)
<1>1. z \in [Clients -> Seats] /\ z[c] = "seated" /\ \A x \in Clients \ {c} : z[x] = h.seat[x]
  BY HostFields DEF Seats
<1>2. f \in [Stages -> SUBSET Clients] /\ \A s \in Stages : f[s] = h.fresh[s] \cup {c}
  BY HostFields
<1>3. o \in SUBSET Clients /\ h.overtaken \subseteq o /\ (h.link[c] = "dialling" => c \in o) /\ o \subseteq h.overtaken \cup {c}
  BY HostFields
<1>4. r = [h EXCEPT !.seat = z, !.fresh = f, !.overtaken = o]
  BY DEF PromoteSeat
<1> HIDE DEF z, f, o, r
<1>5. /\ r \in Hosts /\ r.seat = z /\ r.nth = h.nth /\ r.link = h.link /\ r.listed = h.listed
      /\ r.fresh = f /\ r.changed = h.changed /\ r.batch = h.batch
      /\ r.crossed = h.crossed /\ r.overtaken = o
  BY <1>1, <1>2, <1>3, <1>4 DEF Hosts, Stages
<1>6. Seated(r) = Seated(h) \cup {c}
  BY <1>1, <1>5 DEF Seated
<1>7. r.fresh.syncs = h.fresh.syncs \cup {c}
  BY <1>2, <1>5 DEF Stages
<1>8. \A x \in Clients : Told(h, r, x)
  BY <1>5 DEF Told, Grew
<1>9. ASSUME NEW x \in Clients
      PROVE  /\ x \in Seated(r) \ r.overtaken /\ r.link[x] = "dialling" => x \in Seated(h) \ h.overtaken
             /\ x \in Seated(r) \ r.fresh.syncs => x \in Seated(h) \ h.fresh.syncs
             /\ r.nth[x] = h.nth[x] /\ r.seat[x] \in {h.seat[x], "none", "seated"}
  BY <1>1, <1>3, <1>5, <1>6, <1>7
<1>10. Sound(h, r)
  BY <1>3, <1>5, <1>6, <1>8, <1>9 DEF Sound
<1>11. \A x \in Clients \ {c} : Spares(h, r, x)
  BY <1>5, <1>6 DEF Spares
<1> QED
  BY <1>3, <1>5, <1>6, <1>10, <1>11 DEF r

\* A seat that was seated when the queue was made is not one that waits.
Steady(g, h) == \A x \in Seated(g) : h.nth[x] = g.nth[x] => h.seat[x] \in {"none", "seated"}
LEMMA SteadyStays ==
  ASSUME NEW g \in Hosts, NEW h \in Hosts, NEW r \in Hosts, Since(g, h), Steady(g, h), Sound(h, r)
  PROVE  Steady(g, r)
<1> SUFFICES ASSUME NEW x \in Seated(g), r.nth[x] = g.nth[x] PROVE r.seat[x] \in {"none", "seated"}
  BY DEF Steady
<1>1. x \in Clients /\ h.nth[x] \in Nat /\ g.nth[x] \in Nat /\ h.nth[x] >= g.nth[x]
  BY HostFields DEF Seated, Since
<1>2. r.nth[x] = h.nth[x] /\ r.seat[x] \in {h.seat[x], "none", "seated"}
  BY <1>1 DEF Sound
<1> QED
  BY <1>2 DEF Steady

\* What command k makes of h.
Says(h, k, r) ==
  /\ Sound(h, r)
  /\ \A x \in Clients : x \in Seated(r) => x \in Seated(h) \/ (k.do = "promote" /\ k.of = x)
  /\ k.do = "sync" => \A x \in Watched \cap Seated(h) : Heard(h, r, x, k.who)
  /\ k.do = "syncTo" /\ k.of \in Watched \cap Seated(h) => Heard(h, r, k.of, k.who)
  /\ \A x \in Clients :
       (k.of = x => k.do \notin {"departed", "drop"}) =>
         /\ (k.of = x => k.do \notin {"linkLost", "despawn"}) /\ x \in h.listed => x \in r.listed
         /\ \/ Spares(h, r, x)
            \/ k.do = "promote" /\ k.of = x /\ r.listed = h.listed
               /\ (h.link[x] = "dialling" => x \in r.overtaken)

\* A command, whatever it is.
LEMMA DoSays ==
  ASSUME NEW g \in Hosts, NEW U \in SUBSET Clients, NEW h \in Mid(g, U), Steady(g, h), NEW k \in Orders(g, U),
         k.do = "spawn" => k.of \notin Seated(h), k.do = "syncTo" => k.of \in Seated(g)
  PROVE  Says(h, k, Do(h, k))
<1> DEFINE r == Do(h, k)
           c == k.of
<1>0. \A x \in Clients : x \in Seated(r) => x \in Seated(h) \/ (k.do = "promote" /\ c = x)
  <2>1. CASE k.do # "promote"
    BY <2>1, DoKeeps
  <2>2. CASE k.do = "promote"
    <3>1. h \in Hosts /\ c \in Clients
      BY DEF Mid, Orders
    <3>2. r \in {[h EXCEPT !.panicked = TRUE], PromoteSeat(h, c)}
      BY <2>2 DEF Do
    <3>3. Seated([h EXCEPT !.panicked = TRUE]) = Seated(h)
      BY <3>1 DEF Seated, Hosts
    <3>4. Seated(PromoteSeat(h, c)) \subseteq Seated(h) \cup {c}
      BY <3>1, PromoteSays
    <3> HIDE DEF r
    <3> QED BY <2>2, <3>2, <3>3, <3>4
  <2> QED BY <2>1, <2>2
<1> SUFFICES /\ Sound(h, r)
             /\ k.do = "sync" => \A x \in Watched \cap Seated(h) : Heard(h, r, x, k.who)
             /\ k.do = "syncTo" /\ c \in Watched \cap Seated(h) => Heard(h, r, c, k.who)
             /\ \A x \in Clients :
                  (c = x => k.do \notin {"departed", "drop"}) =>
                    /\ (c = x => k.do \notin {"linkLost", "despawn"}) /\ x \in h.listed => x \in r.listed
                    /\ \/ Spares(h, r, x)
                       \/ k.do = "promote" /\ c = x /\ r.listed = h.listed
                          /\ (h.link[x] = "dialling" => x \in r.overtaken)
  BY <1>0 DEF Says
<1>1. h \in Hosts /\ c \in Clients
  BY DEF Mid, Orders
<1>2. Sound(h, h) /\ \A x \in Clients : Spares(h, h, x)
  BY <1>1, GrewIsSound
<1>3. CASE k.do = "seat"
  <2>1. r = SeatParticipant(h, k)
    BY <1>3 DEF Do
  <2>2. Sound(h, r) /\ (\A x \in Clients : Spares(h, r, x)) /\ h.listed \subseteq r.listed
    BY <1>1, <2>1, SeatParticipantSays
  <2> QED BY <1>3, <2>2
<1>4. CASE k.do = "departed"
  <2>1. r = ParticipantDeparted(h, c)
    BY <1>4 DEF Do
  <2> QED BY <1>1, <1>4, <2>1, DepartedSays
<1>5. CASE k.do = "drop"
  <2>1. r = DropParticipant(h, c)
    BY <1>5 DEF Do
  <2> QED BY <1>1, <1>5, <2>1, DropSays
<1>6. CASE k.do = "sync"
  <2>1. k.who \in SUBSET Clients /\ r = SayToAll(Announce(h, k.who), Present(k.who))
    BY <1>6 DEF Orders, Do
  <2>2. /\ Sound(h, r) /\ (\A x \in Clients : Spares(h, r, x)) /\ r.listed = h.listed
        /\ \A x \in Watched \cap Seated(h) : Heard(h, r, x, k.who)
    BY <1>1, <2>1, SyncSays
  <2> QED BY <1>6, <2>2
<1>7. CASE k.do = "syncTo"
  <2>1. /\ k.who \in SUBSET Clients /\ k.nth = g.nth[c] /\ c \in Seated(g)
        /\ r = IF Gone(h, k) THEN h ELSE SayTo(Announce(h, k.who), c, Present(k.who))
    BY <1>7 DEF Orders, Do
  <2>2. CASE Gone(h, k)
    <3>1. c \notin Seated(h)
      BY <1>1, <2>1, <2>2 DEF Gone, Mid, Since, Seated
    <3> QED BY <1>2, <1>7, <2>1, <2>2, <3>1
  <2>3. CASE ~Gone(h, k)
    <3>1. c \in Seated(h)
      BY <1>1, <2>1, <2>3 DEF Gone, Steady, Seated
    <3>2. r = SayTo(Announce(h, k.who), c, Present(k.who))
      BY <2>1, <2>3
    <3>3. /\ Sound(h, r) /\ (\A x \in Clients : Spares(h, r, x)) /\ r.listed = h.listed
          /\ c \in Watched => Heard(h, r, c, k.who)
      BY <1>1, <2>1, <3>1, <3>2, SyncSays
    <3> QED BY <1>7, <3>3
  <2> QED BY <2>2, <2>3
<1>8. CASE k.do = "spawn"
  <2>1. r = SpawnSeat(h, c, k.kind) /\ k.kind \in {"pending", "redial"}
    BY <1>8 DEF Orders, Do
  <2>2. Sound(h, r) /\ (\A x \in Clients : Spares(h, r, x)) /\ r.listed = h.listed
    BY <1>1, <1>8, <2>1, SpawnSays
  <2> QED BY <1>8, <2>2
<1>9. CASE k.do = "promote"
  <2>1. CASE Gone(h, k)
    <3> DEFINE v == [h EXCEPT !.panicked = TRUE]
    <3>1. r = v
      BY <1>9, <2>1 DEF Do
    <3>2. /\ v \in Hosts /\ v.seat = h.seat /\ v.nth = h.nth /\ v.link = h.link /\ v.listed = h.listed
          /\ v.fresh = h.fresh /\ v.changed = h.changed /\ v.batch = h.batch
          /\ v.crossed = h.crossed /\ v.overtaken = h.overtaken
      BY <1>1 DEF Hosts
    <3> HIDE DEF v
    <3>3. Sound(h, v) /\ \A x \in Clients : Spares(h, v, x)
      BY <1>1, <3>2, GrewIsSound
    <3> QED BY <1>9, <3>1, <3>2, <3>3
  <2>2. CASE ~Gone(h, k)
    <3>1. r = PromoteSeat(h, c)
      BY <1>9, <2>2 DEF Do
    <3>2. /\ Sound(h, r) /\ (\A x \in Clients \ {c} : Spares(h, r, x)) /\ r.listed = h.listed
          /\ h.link[c] = "dialling" => c \in r.overtaken
      BY <1>1, <3>1, PromoteSays
    <3> QED BY <1>9, <3>2
  <2> QED BY <2>1, <2>2
<1>10. CASE k.do = "linkLost"
  <2>1. r \in {h, SeatLinkLost(h, c)}
    BY <1>10 DEF Do
  <2> QED BY <1>1, <1>2, <1>10, <2>1, LinkLostSays
<1>11. CASE k.do = "despawn"
  <2>1. r \in {h, Unseat(h, c)} \/ (c \in Seated(h) /\ r = OnSeatRemoved(h, c))
    BY <1>1, <1>11 DEF Do, DespawnSeat, Seated
  <2>2. CASE c \in Seated(h)
    <3>1. Spares(h, r, c)
      BY <2>2 DEF Spares
    <3> QED BY <1>1, <1>2, <1>11, <2>1, <3>1, OnSeatRemovedSays, UnseatSays
  <2>3. CASE c \notin Seated(h)
    <3>1. r \in {h, Unseat(h, c)}
      BY <2>1, <2>3
    <3> QED BY <1>1, <1>2, <1>11, <3>1, UnseatSays
  <2> QED BY <2>2, <2>3
<1>12. k.do \in {"seat", "departed", "drop", "sync", "syncTo", "spawn", "promote", "linkLost", "despawn"}
  BY DEF Orders
<1> HIDE DEF r, c
<1> QED
  BY <1>3, <1>4, <1>5, <1>6, <1>7, <1>8, <1>9, <1>10, <1>11, <1>12

------------------------------------------------------------------------------
\* A queue, and what K says is true after so many of its commands

\* Who is synced has a seat that sync_existing_participants_to_new_lobby_clients saw.
Addressed(g, q) == \A i \in 1..Len(q) : q[i].do = "syncTo" => q[i].of \in Seated(g)
LEMMA QueueAlong ==
  ASSUME NEW g \in Hosts, NEW U \in SUBSET Clients, NEW h \in Mid(g, U), Steady(g, h),
         NEW q, Ready(g, U, q), Addressed(g, q), NEW K, h \in K[0],
         \A i \in 1..Len(q) : \A v \in Mid(g, U) :
           v \in K[i - 1] /\ Do(v, q[i]) \in Hosts /\ Says(v, q[i], Do(v, q[i])) => Do(v, q[i]) \in K[i]
  PROVE  LET r == Apply(h, q) IN r \in Mid(g, U) /\ Steady(g, r) /\ r \in K[Len(q)]
<1> DEFINE n == Len(q)
           off(i, v) == \A j \in 1..i : q[j].do = "despawn" /\ q[j].nth = g.nth[q[j].of] => q[j].of \notin Seated(v)
           J == [i \in 0..n |-> {v \in Mid(g, U) : Steady(g, v) /\ (Promotes(q) \/ off(i, v)) /\ v \in K[i]}]
<1>1. n \in Nat /\ \A i \in 1..n : q[i] \in Orders(g, U)
  BY DEF Ready
<1>2. h \in J[0]
  BY <1>1
<1>3. ASSUME NEW i \in 1..n, NEW v \in J[i - 1] PROVE Do(v, q[i]) \in J[i]
  <2> DEFINE k == q[i]
             c == q[i].of
             r == Do(v, q[i])
  <2>1. i \in 0..n /\ i - 1 \in 0..n
    BY <1>1
  <2>2. v \in Mid(g, U) /\ Steady(g, v) /\ v \in K[i - 1] /\ (Promotes(q) \/ off(i - 1, v))
    BY <2>1
  <2> HIDE DEF J
  <2>3. k \in Orders(g, U) /\ c \in Clients
    BY <1>1 DEF Orders
  <2>4. k.do = "spawn" => c \notin Seated(v)
    <3>1. CASE g.seat[c] = "none"
      BY <2>2, <2>3, <3>1 DEF Mid, Since, Seated
    <3>2. CASE k.do = "spawn" /\ ~Promotes(q) /\ Retired(g, q, i, c)
      BY <2>2, <3>2 DEF Retired
    <3> QED BY <3>1, <3>2 DEF Ready
  <2>5. /\ r \in Mid(g, U)
        /\ k.do # "promote" => Seated(r) \subseteq Seated(v)
        /\ k.do = "despawn" /\ k.nth = g.nth[c] => c \notin Seated(r)
    BY <2>2, <2>3, <2>4, DoKeeps
  <2>6. Says(v, k, r)
    BY <2>2, <2>3, <2>4, DoSays DEF Addressed
  <2>7. r \in K[i]
    BY <2>2, <2>5, <2>6 DEF Mid
  <2>8. Steady(g, r)
    <3>1. v \in Hosts /\ r \in Hosts /\ Since(g, v) /\ Sound(v, r)
      BY <2>2, <2>5, <2>6 DEF Mid, Says
    <3> HIDE DEF r
    <3> QED BY <2>2, <3>1, SteadyStays
  <2> HIDE DEF r
  <2>9. \A j \in 1..i : j \in 1..(i - 1) \/ j = i
    BY <1>1
  <2>10. Promotes(q) \/ off(i, r)
    <3>1. CASE ~Promotes(q)
      <4>1. k.do # "promote"
        BY <3>1 DEF Promotes
      <4> QED BY <2>2, <2>5, <2>9, <3>1, <4>1
    <3> QED BY <3>1
  <2> QED BY <2>1, <2>5, <2>7, <2>8, <2>10 DEF J, r
<1> HIDE DEF J
<1>4. Apply(h, q) \in J[n]
  BY <1>1, <1>2, <1>3, ApplyAlong
<1> QED
  BY <1>1, <1>4 DEF J

LEMMA QueueSteady ==
  ASSUME NEW g \in Hosts, NEW U \in SUBSET Clients, NEW h \in Mid(g, U), Steady(g, h),
         NEW q, Ready(g, U, q), Addressed(g, q)
  PROVE  Apply(h, q) \in Mid(g, U) /\ Steady(g, Apply(h, q))
<1> DEFINE S == Mid(g, U) \cup {Do(v, q[i]) : v \in Mid(g, U), i \in 1..Len(q)}
           K == [i \in 0..Len(q) |-> S]
<1>1. Len(q) \in Nat
  BY DEF Ready
<1>2. h \in K[0]
  BY <1>1
<1>3. \A i \in 1..Len(q) : \A v \in Mid(g, U) : Do(v, q[i]) \in K[i]
  BY <1>1
<1> HIDE DEF K
<1> QED
  BY <1>2, <1>3, QueueAlong

------------------------------------------------------------------------------
\* What the systems mean by what they queue

Meant(s, stale) ==
  {k \in Orders(host, {}) :
     /\ k.do = "departed" => k.of \in Read("left")
     /\ k.do = "drop" => k.of \in host.held /\ Waited[k.of] >= Hold
     /\ k.do = "linkLost" => k.of \in Seated(host)
     /\ k.do = "promote" => k.of \in Read("handshake") \ Seated(host)
     /\ k.do = "despawn" => \/ k.of \in Read("left") \cup Read("broken") \cup Read("kick")
                            \/ s = "redial" /\ k.of \in Dropped(stale)
     /\ k.do = "sync" => s = "broadcast" /\ k.who = host.changed
     /\ k.do = "syncTo" => s = "syncs" /\ k.of \in host.fresh.syncs /\ k.who = host.listed}

\* A command for a seat that was read.
LEMMA OnSeatMeant ==
  ASSUME host \in Hosts, NEW s, NEW stale, NEW c \in Clients,
         NEW what \in {"seat", "promote", "linkLost", "despawn"},
         what = "promote" => host.seat[c] # "none" /\ c \in Read("handshake") \ Seated(host),
         what = "linkLost" => c \in Seated(host),
         what = "despawn" => \/ c \in Read("left") \cup Read("broken") \cup Read("kick")
                             \/ s = "redial" /\ c \in Dropped(stale)
  PROVE  OnSeat(what, c) \in Meant(s, stale)
<1> DEFINE k == OnSeat(what, c)
<1>1. k \in Orders(host, {}) /\ k.do = what /\ k.of = c
  BY OnSeatIs
<1> HIDE DEF k
<1>2. k \in Meant(s, stale)
  BY <1>1 DEF Meant
<1> QED
  BY <1>2 DEF k

LEMMA QueuedMeant ==
  ASSUME host \in Hosts, NEW s \in Systems, NEW stale
  PROVE  Queued(s, stale) \in Seq(Meant(s, stale))
<1> DEFINE M == Meant(s, stale)
<1>0. /\ host.fresh.syncs \in SUBSET Clients /\ host.fresh.seats \in SUBSET Clients /\ host.listed \in SUBSET Clients
      /\ host.held \in SUBSET Clients /\ host.changed \in SUBSET Clients /\ \A c \in Clients : host.nth[c] \in Nat
  BY HostFields DEF Stages
<1>1. CASE s = "sockets"
  <2> DEFINE who == {c \in Read("broken") : Has(c)}
             f == [c \in Clients |-> OnSeat(IF host.seat[c] = "seated" THEN "linkLost" ELSE "despawn", c)]
  <2>1. who \in SUBSET Clients
    BY DEF Read
  <2>2. ASSUME NEW c \in who PROVE f[c] \in M
    <3>1. c \in Clients /\ c \in Read("broken")
      BY <2>1
    <3>2. CASE c \in Seated(host)
      <4>1. f[c] = OnSeat("linkLost", c)
        BY <3>1, <3>2 DEF Seated
      <4>2. OnSeat("linkLost", c) \in M
        BY <3>1, <3>2, OnSeatMeant
      <4> QED BY <4>1, <4>2
    <3>3. CASE c \notin Seated(host)
      <4>1. f[c] = OnSeat("despawn", c)
        BY <3>1, <3>3 DEF Seated
      <4>2. OnSeat("despawn", c) \in M
        BY <3>1, <3>3, OnSeatMeant
      <4> QED BY <4>1, <4>2
    <3> QED BY <3>2, <3>3
  <2>3. Queued(s, stale) = Each(who, f)
    <3>1. Sockets = Each(who, f)
      BY <2>1 DEF Sockets, ForEach, Each
    <3> QED BY <1>1, <3>1 DEF Queued
  <2> HIDE DEF M, who, f
  <2>4. Queued(s, stale) \in Seq(M)
    BY <2>1, <2>2, <2>3, EachIn
  <2> QED BY <2>4 DEF M
<1>2. CASE s = "game"
  <2> DEFINE who == {c \in Read("kick") : Has(c)}
             f == [c \in Clients |-> OnSeat("despawn", c)]
  <2>1. who \in SUBSET Clients
    BY DEF Read
  <2>2. ASSUME NEW c \in who PROVE f[c] \in M
    <3>1. c \in Clients /\ c \in Read("kick") /\ f[c] = OnSeat("despawn", c)
      BY <2>1
    <3>2. OnSeat("despawn", c) \in M
      BY <3>1, OnSeatMeant
    <3> QED BY <3>1, <3>2
  <2>3. Queued(s, stale) = Each(who, f)
    <3>1. {f[c] : c \in who} = {OnSeat("despawn", c) : c \in who}
      BY <2>1
    <3> QED BY <1>2, <3>1 DEF Queued, Game, ForEach, Each
  <2> HIDE DEF M, who, f
  <2>4. Queued(s, stale) \in Seq(M)
    BY <2>1, <2>2, <2>3, EachIn
  <2> QED BY <2>4 DEF M
<1>3. CASE s = "promotion"
  <2> DEFINE who == {c \in Read("handshake") : host.seat[c] \in {"pending", "redial"}}
             f == [c \in Clients |-> OnSeat("promote", c)]
  <2>1. who \in SUBSET Clients
    BY DEF Read
  <2>2. ASSUME NEW c \in who PROVE f[c] \in M
    <3>1. /\ c \in Clients /\ c \in Read("handshake") /\ host.seat[c] # "none" /\ f[c] = OnSeat("promote", c)
          /\ c \notin Seated(host)
      BY <2>1 DEF Seated
    <3>2. OnSeat("promote", c) \in M
      BY <3>1, OnSeatMeant
    <3> QED BY <3>1, <3>2
  <2>3. Queued(s, stale) = Each(who, f)
    <3>1. {f[c] : c \in who} = {OnSeat("promote", c) : c \in who}
      BY <2>1
    <3> QED BY <1>3, <3>1 DEF Queued, Promotion, ForEach, Each
  <2> HIDE DEF M, who, f
  <2>4. Queued(s, stale) \in Seq(M)
    BY <2>1, <2>2, <2>3, EachIn
  <2> QED BY <2>4 DEF M
<1>4. CASE s = "clocks"
  <2> DEFINE who == {c \in host.held : Waited[c] >= Hold}
             f == [c \in Clients |-> [do |-> "drop", of |-> c]]
  <2>1. who \in SUBSET Clients
    BY <1>0
  <2>2. \A c \in who : f[c] \in M
    BY <2>1 DEF Meant, Orders
  <2>3. Queued(s, stale) = Each(who, f)
    <3>1. {f[c] : c \in who} = {[do |-> "drop", of |-> c] : c \in who}
      BY <2>1
    <3> QED BY <1>4, <3>1 DEF Queued, Clocks, ForEach, Each
  <2> HIDE DEF M, who, f
  <2>4. Queued(s, stale) \in Seq(M)
    BY <2>1, <2>2, <2>3, EachIn
  <2> QED BY <2>4 DEF M
<1>5. CASE s = "seats"
  <2> DEFINE who == host.fresh.seats
             f == [c \in Clients |-> OnSeat("seat", c)]
  <2>2. ASSUME NEW c \in who PROVE f[c] \in M
    <3>1. c \in Clients /\ f[c] = OnSeat("seat", c)
      BY <1>0
    <3>2. OnSeat("seat", c) \in M
      BY <3>1, OnSeatMeant
    <3> QED BY <3>1, <3>2
  <2>3. Queued(s, stale) = Each(who, f)
    <3>1. {f[c] : c \in who} = {OnSeat("seat", c) : c \in who}
      BY <1>0
    <3> QED BY <1>5, <3>1 DEF Queued, NewSeats, ForEach, Each
  <2> HIDE DEF M, f
  <2>4. Queued(s, stale) \in Seq(M)
    BY <1>0, <2>2, <2>3, EachIn
  <2> QED BY <2>4 DEF M
<1>6. CASE s = "syncs"
  <2> DEFINE who == host.fresh.syncs
             f == [c \in Clients |-> [do |-> "syncTo", of |-> c, nth |-> host.nth[c], who |-> host.listed]]
  <2>2. \A c \in who : f[c] \in M
    BY <1>0, <1>6 DEF Meant, Orders
  <2>3. Queued(s, stale) = Each(who, f)
    <3>1. {f[c] : c \in who} = {[do |-> "syncTo", of |-> c, nth |-> host.nth[c], who |-> host.listed] : c \in who}
      BY <1>0
    <3> QED BY <1>6, <3>1 DEF Queued, SyncNewSeats, ForEach, Each
  <2> HIDE DEF M, f
  <2>4. Queued(s, stale) \in Seq(M)
    BY <1>0, <2>2, <2>3, EachIn
  <2> QED BY <2>4 DEF M
<1>7. CASE s = "broadcast"
  <2> DEFINE whoever == CHOOSE c \in Clients : TRUE
             k == [do |-> "sync", of |-> whoever, who |-> host.changed]
  <2>1. CASE host.changed = {}
    BY <1>7, <2>1 DEF Queued, Broadcast
  <2>2. CASE host.changed # {}
    <3>1. whoever \in Clients
      BY <1>0, <2>2
    <3> HIDE DEF whoever
    <3>2. k \in M
      BY <1>0, <1>7, <3>1 DEF Meant, Orders
    <3>3. Queued(s, stale) = <<k>>
      BY <1>7, <2>2 DEF Queued, Broadcast, whoever
    <3> HIDE DEF k, M
    <3>4. Queued(s, stale) \in Seq(M)
      BY <3>2, <3>3
    <3> QED BY <3>4 DEF M
  <2> QED BY <2>1, <2>2
<1>8. CASE s = "events"
  <2> DEFINE in == Read("joined")
             out == {c \in Read("left") : Has(c) \/ c \in Read("joined")}
             away == {c \in Read("left") : host.seat[c] # "seated"}
             f == [c \in Clients |-> Spawn(c, "pending")]
             g == [c \in Clients |-> [OnSeat("despawn", c) EXCEPT !.nth = IF c \in Read("joined") THEN @ + 1 ELSE @]]
             d == [c \in Clients |-> [do |-> "departed", of |-> c]]
  <2>1. in \in SUBSET Clients /\ out \in SUBSET Clients /\ away \in SUBSET Clients
    BY DEF Read
  <2>2. \A c \in in : f[c] \in M
    BY <2>1 DEF Spawn, Meant, Orders
  <2>3. \A c \in out : g[c] \in M
    BY <1>0, <2>1 DEF OnSeat, Meant, Orders
  <2>4. \A c \in away : d[c] \in M
    BY <2>1 DEF Meant, Orders
  <2>5. Joined = Each(in, f)
    <3>1. {f[c] : c \in in} = {Spawn(c, "pending") : c \in in}
      BY <2>1
    <3> QED BY <3>1 DEF Joined, ForEach, Each
  <2>6. Left = Each(out, g) \o Each(away, d)
    <3>1. {d[c] : c \in away} = {[do |-> "departed", of |-> c] : c \in away}
      BY <2>1
    <3>2. {g[c] : c \in out} = {[OnSeat("despawn", c) EXCEPT !.nth = IF c \in Read("joined") THEN @ + 1 ELSE @] : c \in out}
      BY <2>1
    <3> QED BY <3>1, <3>2 DEF Left, ForEach, Each
  <2>7. Queued(s, stale) = Each(in, f) \o (Each(out, g) \o Each(away, d))
    BY <1>8, <2>5, <2>6 DEF Queued, Events
  <2> HIDE DEF M, in, out, away, f, g, d
  <2>8. Each(in, f) \in Seq(M) /\ Each(out, g) \in Seq(M) /\ Each(away, d) \in Seq(M)
    BY <2>1, <2>2, <2>3, <2>4, EachIn
  <2>9. Queued(s, stale) \in Seq(M)
    BY <2>7, <2>8
  <2> QED BY <2>9 DEF M
<1>9. CASE s = "redial"
  <2> DEFINE out == Dropped(stale)
             in == Dialled(stale)
             f == [c \in Clients |-> OnSeat("despawn", c)]
             g == [c \in Clients |-> Spawn(c, "redial")]
  <2>1. out \in SUBSET Clients /\ in \in SUBSET Clients
    BY <1>0 DEF Dropped, Dialled
  <2>2. ASSUME NEW c \in out PROVE f[c] \in M
    <3>1. c \in Clients /\ f[c] = OnSeat("despawn", c)
      BY <2>1
    <3>2. OnSeat("despawn", c) \in M
      BY <1>9, <3>1, OnSeatMeant
    <3> QED BY <3>1, <3>2
  <2>3. \A c \in in : g[c] \in M
    BY <2>1 DEF Spawn, Meant, Orders
  <2>4. Queued(s, stale) = Each(out, f) \o Each(in, g)
    <3>1. {f[c] : c \in out} = {OnSeat("despawn", c) : c \in out}
      BY <2>1
    <3>2. {g[c] : c \in in} = {Spawn(c, "redial") : c \in in}
      BY <2>1
    <3> QED BY <1>9, <3>1, <3>2 DEF Queued, Redials, ForEach, Each
  <2> HIDE DEF M, in, out, f, g
  <2>5. Each(out, f) \in Seq(M) /\ Each(in, g) \in Seq(M)
    BY <2>1, <2>2, <2>3, EachIn
  <2>6. Queued(s, stale) \in Seq(M)
    BY <2>4, <2>5
  <2> QED BY <2>6 DEF M
<1> QED
  BY <1>1, <1>2, <1>3, <1>4, <1>5, <1>6, <1>7, <1>8, <1>9 DEF Systems

------------------------------------------------------------------------------
\* A stretch, and what L says is true after so many of its systems

LEMMA SteadyAtFirst ==
  ASSUME InOrderOf(host), NEW systems, NEW stale
  PROVE  Steady(host, AtOnce(systems, stale))
<1> DEFINE b == AtOnce(systems, stale)
<1>1. b.seat = host.seat /\ b.nth = host.nth
  BY AtOnceIs DEF InOrderOf
<1> HIDE DEF b
<1>2. Steady(host, b)
  BY <1>1 DEF Steady, Seated
<1> QED
  BY <1>2 DEF b

LEMMA QueuedAddresses ==
  ASSUME InOrderOf(host), NEW s \in Systems, NEW stale
  PROVE  /\ Addressed(host, Queued(s, stale)) /\ Len(Queued(s, stale)) \in Nat
         /\ \A i \in 1..Len(Queued(s, stale)) : Queued(s, stale)[i] \in Meant(s, stale)
<1> DEFINE q == Queued(s, stale)
           M == Meant(s, stale)
<1>1. q \in Seq(M)
  BY QueuedMeant DEF InOrderOf
<1>2. \A k \in M : k.do = "syncTo" => k.of \in Seated(host)
  BY DEF InOrderOf, Backed, Stages, Meant
<1> HIDE DEF q, M
<1>3. Len(q) \in Nat /\ \A i \in 1..Len(q) : q[i] \in M
  BY <1>1
<1> QED
  BY <1>2, <1>3 DEF Addressed, q, M

LEMMA StretchAlong ==
  ASSUME InOrderOf(host), NEW U \in SUBSET Clients,
         NEW systems \in SUBSET Systems, NEW order \in SetToSeqs(systems), NEW stale,
         Unheard(host, U), \A s \in systems : Heeds(U, s), Stretch(order, stale),
         NEW L, AtOnce(systems, stale) \in L[0],
         \A i \in 1..Len(order) : \A v \in Mid(host, U) :
           order[i] \in systems /\ v \in L[i - 1] /\ Steady(host, v) => Apply(v, Queued(order[i], stale)) \in L[i]
  PROVE  host' \in L[Len(order)]
<1> DEFINE n == Len(order)
           b == AtOnce(systems, stale)
           r == Flushed(b, order, stale)
           J == [i \in 0..n |-> {v \in Mid(host, U) : Steady(host, v) /\ v \in L[i]}]
<1>1. /\ n \in Nat /\ \A i \in 1..n : order[i] \in Systems
      /\ ToSet(order) = systems /\ \A i \in 1..n : order[i] \in systems
  <2>1. \A i \in 1..n : order[i] \in ToSet(order)
    BY OrderIs DEF ToSet
  <2> QED BY <2>1, OrderIs
<1>2. host' = r
  BY <1>1 DEF Stretch, Flushed
<1>3. b \in Mid(host, U) /\ Steady(host, b) /\ b \in L[0]
  BY StartIs, SteadyAtFirst
<1> HIDE DEF b
<1>4. b \in J[0]
  BY <1>1, <1>3
<1>5. ASSUME NEW i \in 1..n, NEW v \in J[i - 1] PROVE Apply(v, Queued(order[i], stale)) \in J[i]
  <2> DEFINE s == order[i]
             q == Queued(s, stale)
  <2>1. i \in 0..n /\ i - 1 \in 0..n
    BY <1>1
  <2>2. v \in Mid(host, U) /\ Steady(host, v) /\ v \in L[i - 1]
    BY <2>1
  <2> HIDE DEF J
  <2>3. host \in Hosts /\ s \in Systems /\ s \in systems /\ Heeds(U, s)
    BY <1>1 DEF InOrderOf
  <2>4. Apply(v, q) \in L[i]
    BY <2>2, <2>3
  <2> HIDE DEF s
  <2>5. Ready(host, U, q) /\ Addressed(host, q)
    BY <2>3, QueuedReady, QueuedAddresses
  <2> HIDE DEF q
  <2>6. Apply(v, q) \in Mid(host, U) /\ Steady(host, Apply(v, q))
    BY <2>2, <2>3, <2>5, QueueSteady
  <2> QED BY <2>1, <2>4, <2>6 DEF J, q, s
<1>6. n \in 0..n
  BY <1>1
<1> HIDE DEF J, r
<1>7. Flushed(b, order, stale) \in J[n]
  BY <1>1, <1>4, <1>5, FlushedAlong
<1> QED
  BY <1>2, <1>6, <1>7 DEF J, r

\* The same of what every command keeps.
LEMMA StretchHolds ==
  ASSUME RosterInv, NEW systems \in SUBSET Systems, NEW order \in SetToSeqs(systems), NEW stale,
         Stretch(order, stale), NEW J, AtOnce(systems, stale) \in J,
         \A s \in systems : \A k \in Meant(s, stale) : \A v \in Hosts :
           v \in J /\ Do(v, k) \in Hosts /\ Says(v, k, Do(v, k)) => Do(v, k) \in J
  PROVE  host' \in J
<1> DEFINE L == [i \in 0..Len(order) |-> J]
<1>1. InOrderOf(host) /\ host \in Hosts /\ Unheard(host, {})
  BY DEF RosterInv, InOrderOf, Unheard
<1>2. \A s \in systems : Heeds({}, s)
  BY <1>1 DEF Heeds, RosterInv, InOrderOf, Backed, Newcomers, Unheard, Unknown, Read
<1>3. Len(order) \in Nat
  BY OrderIs
<1>4. AtOnce(systems, stale) \in L[0]
  BY <1>3
<1>5. ASSUME NEW i \in 1..Len(order), NEW v \in Mid(host, {}), order[i] \in systems, v \in L[i - 1], Steady(host, v)
      PROVE  Apply(v, Queued(order[i], stale)) \in L[i]
  <2> DEFINE s == order[i]
             q == Queued(s, stale)
             K == [j \in 0..Len(q) |-> J]
  <2>1. i - 1 \in 0..Len(order) /\ i \in 0..Len(order) /\ v \in J
    BY <1>3, <1>5
  <2>2. s \in systems /\ s \in Systems
    BY <1>5
  <2> HIDE DEF s
  <2>3. /\ Ready(host, {}, q) /\ Addressed(host, q) /\ Len(q) \in Nat
        /\ \A j \in 1..Len(q) : q[j] \in Meant(s, stale)
    BY <1>1, <1>2, <2>2, QueuedReady, QueuedAddresses
  <2> HIDE DEF q
  <2>4. v \in K[0]
    BY <2>1, <2>3
  <2>5. ASSUME NEW j \in 1..Len(q), NEW x \in Mid(host, {}),
               x \in K[j - 1], Do(x, q[j]) \in Hosts, Says(x, q[j], Do(x, q[j]))
        PROVE  Do(x, q[j]) \in K[j]
    <3>1. x \in J /\ x \in Hosts /\ j \in 0..Len(q)
      BY <2>3, <2>5 DEF Mid
    <3>2. Do(x, q[j]) \in J
      BY <2>2, <2>3, <2>5, <3>1
    <3> QED BY <3>1, <3>2
  <2>6. Len(q) \in 0..Len(q)
    BY <2>3
  <2> HIDE DEF K
  <2>7. Apply(v, q) \in K[Len(q)]
    BY <1>1, <1>5, <2>3, <2>4, <2>5, QueueAlong
  <2> QED BY <2>1, <2>6, <2>7 DEF K, q, s
<1>6. Len(order) \in 0..Len(order)
  BY <1>3
<1> HIDE DEF L
<1>7. host' \in L[Len(order)]
  BY <1>1, <1>2, <1>4, <1>5, StretchAlong
<1> QED
  BY <1>6, <1>7 DEF L

\* A link is dialled for a seat that is, or none was there, and else goes or stays.
LEMMA LinksAtOnce ==
  ASSUME host \in Hosts, NEW systems, NEW stale, NEW c \in Clients
  PROVE  LET b == AtOnce(systems, stale)
             dialled == (IF "redial" \in systems THEN Dialled(stale) ELSE {})
                          \cup (IF "events" \in systems THEN Read("joined") ELSE {})
         IN /\ c \in dialled => b.link[c] = "dialling"
            /\ c \notin dialled => b.link[c] \in {"none", host.link[c]}
<1> DEFINE redialled == IF "redial" \in systems THEN Dialled(stale) ELSE {}
           hungUp == IF "redial" \in systems THEN Dropped(stale) ELSE {}
           offered == IF "events" \in systems THEN Read("joined") ELSE {}
           closed == IF "sockets" \in systems THEN Read("broken") ELSE {}
           l == [x \in Clients |->
                    IF x \in redialled \cup offered THEN "dialling"
                    ELSE IF x \in hungUp \/ (x \in closed /\ host.link[x] = "broken") THEN "none" ELSE host.link[x]]
           w == IF "clocks" \in systems THEN Waited ELSE host.waited
           f == [s \in DOMAIN host.fresh |-> IF s \in systems THEN {} ELSE host.fresh[s]]
           n == IF "broadcast" \in systems THEN {} ELSE host.changed
           b == AtOnce(systems, stale)
<1>1. b = [host EXCEPT !.link = l, !.waited = w, !.fresh = f, !.changed = n]
  BY DEF AtOnce
<1> HIDE DEF l, w, f, n
<1>2. b.link = l
  BY <1>1 DEF Hosts
<1> HIDE DEF b, redialled, hungUp, offered, closed
<1>3. /\ c \in redialled \cup offered => b.link[c] = "dialling"
      /\ c \notin redialled \cup offered => b.link[c] \in {"none", host.link[c]}
  BY <1>2 DEF l
<1> QED
  BY <1>3 DEF b, redialled, offered

------------------------------------------------------------------------------
\* The end of a frame

Arrives == {c \in Clients : host.link[c] = "up"}
Ended == {c \in Arrives : client[c] \in {"in", "waiting"} /\ Removed(c) \in ToSet(host.batch[c])}
Reached == {c \in Arrives \cap Seated(host) : client[c] = "waiting"}
LEMMA EndFrameIs ==
  ASSUME host \in Hosts, EndFrame
  PROVE  /\ host' \in Hosts /\ host'.seat = host.seat /\ host'.listed = host.listed /\ host'.held = host.held
         /\ host'.fresh = host.fresh /\ host'.changed = host.changed /\ host'.panicked = host.panicked
         /\ host'.crossed = host.crossed /\ host'.overtaken = host.overtaken
         /\ host'.batch = [c \in Clients |-> <<>>]
         /\ \A c \in Clients : host'.link[c] = IF c \in Ended THEN "broken" ELSE host.link[c]
         /\ client' = [c \in Clients |-> IF c \in Ended THEN "gone" ELSE IF c \in Reached THEN "in" ELSE client[c]]
         /\ view' = [c \in Watched |->
                      IF c \in Ended THEN {}
                      ELSE IF c \in Arrives THEN InTurn(ApplyLobbyState, view[c], host.batch[c]) ELSE view[c]]
         /\ unheard' = [c \in Watched |-> IF c \in Arrives THEN unheard[c] ELSE unheard[c] \cup RemovesFor(host, c)]
         /\ inFrame' = FALSE
<1> DEFINE b == [c \in Clients |-> <<>>]
           n == [c \in Clients |-> 0]
           l == [c \in Clients |-> IF c \in Ended THEN "broken" ELSE host.link[c]]
           r == [host EXCEPT !.batch = b, !.nth = n, !.link = l]
<1>1. /\ client' = [c \in Clients |-> IF c \in Ended THEN "gone" ELSE IF c \in Reached THEN "in" ELSE client[c]]
      /\ view' = [c \in Watched |->
                   IF c \in Ended THEN {}
                   ELSE IF c \in Arrives THEN InTurn(ApplyLobbyState, view[c], host.batch[c]) ELSE view[c]]
      /\ unheard' = [c \in Watched |-> IF c \in Arrives THEN unheard[c] ELSE unheard[c] \cup RemovesFor(host, c)]
      /\ inFrame' = FALSE
  BY DEF EndFrame, Ended, Reached, Arrives
<1>2. host' = r
  BY DEF EndFrame, Ended, Arrives
<1>3. /\ l \in [Clients -> LinkStates] /\ b \in [Clients -> Seq(Messages)] /\ n \in [Clients -> Nat]
      /\ \A c \in Clients : l[c] = IF c \in Ended THEN "broken" ELSE host.link[c]
  BY HostFields DEF LinkStates
<1>4. b = [c \in Clients |-> <<>>]
  OBVIOUS
<1> HIDE DEF l, b, n
<1>5. /\ r \in Hosts /\ r.seat = host.seat /\ r.listed = host.listed /\ r.held = host.held
      /\ r.fresh = host.fresh /\ r.changed = host.changed /\ r.panicked = host.panicked
      /\ r.crossed = host.crossed /\ r.overtaken = host.overtaken
      /\ r.batch = b /\ r.link = l
  BY <1>3 DEF Hosts
<1> HIDE DEF r
<1> QED
  BY <1>1, <1>2, <1>3, <1>4, <1>5

------------------------------------------------------------------------------
\* Whoever is held for

\* A player the server says has left is gone, and a link that brought a handshake was
\* neither broken nor that of a seat there was already.
LastWords ==
  \A c \in Clients :
    /\ "left" \in ToSet(news[c]) \/ Input("left", c) \in inbox => client[c] = "gone"
    /\ Input("handshake", c) \in inbox => Input("broken", c) \notin inbox /\ Input("kick", c) \notin inbox

LEMMA LastWordsKeep ==
  ASSUME LastWords, inbox' \subseteq inbox,
         \A c \in Clients : /\ client[c] = "gone" => client'[c] = "gone"
                            /\ "left" \in ToSet(news'[c]) => "left" \in ToSet(news[c]) \/ client'[c] = "gone"
  PROVE  LastWords'
  BY DEF LastWords, Input

LEMMA LastWordsBegin == RosterInv /\ LastWords /\ BeginFrame => LastWords'
<1> SUFFICES ASSUME RosterInv, LastWords, BeginFrame PROVE LastWords'
  OBVIOUS
<1>1. PICK chosen \in SUBSET Possible :
        /\ inbox' = chosen
        /\ news' = [c \in Clients |->
                      Retain(news[c], {word \in {"joined", "left"} : Input(word, c) \notin chosen})]
  BY DEF BeginFrame
<1>2. client' = client
  BY DEF BeginFrame, clientVars
<1>3. ASSUME NEW c \in Clients PROVE ToSet(news'[c]) \subseteq ToSet(news[c])
  <2>1. news[c] \in Seq({"joined", "left"})
    BY DEF RosterInv, RestOK
  <2> DEFINE K == {word \in {"joined", "left"} : Input(word, c) \notin chosen}
             t == Retain(news[c], K)
  <2>2. t \in Seq({"joined", "left"}) /\ Range(t) = Range(news[c]) \cap K
    BY <2>1, RetainKeepsExactly
  <2>3. news'[c] = t
    BY <1>1
  <2>4. ToSet(t) = Range(t) /\ ToSet(news[c]) = Range(news[c])
    BY DEF ToSet, Range
  <2> HIDE DEF t
  <2> QED BY <2>2, <2>3, <2>4
<1>4. ASSUME NEW c \in Clients
      PROVE  /\ Input("left", c) \in chosen => "left" \in ToSet(news[c])
             /\ Input("handshake", c) \in chosen => host.link[c] = "up" /\ host.seat[c] \in {"pending", "redial"}
             /\ Input("broken", c) \in chosen => host.link[c] = "broken"
             /\ Input("kick", c) \in chosen => host.seat[c] = "seated"
  BY DEF Possible, Input
<1>5. ASSUME NEW c \in Clients
      PROVE  /\ "left" \in ToSet(news'[c]) \/ Input("left", c) \in inbox' => client'[c] = "gone"
             /\ Input("handshake", c) \in inbox' => Input("broken", c) \notin inbox' /\ Input("kick", c) \notin inbox'
  BY <1>1, <1>2, <1>3, <1>4 DEF LastWords
<1> QED
  BY <1>5 DEF LastWords, Input

LEMMA LastWordsStay == RosterInv /\ LastWords /\ BoundsOK /\ [Next]_vars => LastWords'
<1> SUFFICES ASSUME RosterInv, LastWords, BoundsOK, [Next]_vars PROVE LastWords'
  OBVIOUS
<1>0. /\ client \in [Clients -> ClientStates] /\ \A c \in Clients : news[c] \in Seq({"joined", "left"})
      /\ news \in [Clients -> Seq({"joined", "left"})]
  BY DEF RosterInv, RestOK
<1>1. CASE UNCHANGED vars
  BY <1>1, LastWordsKeep DEF vars, frameVars, clientVars
<1>2. CASE BeginFrame
  BY <1>2, LastWordsBegin
<1>3. CASE Update
  <2>1. PICK systems : \E order \in SetToSeqs(systems) : \E stale : Stretch(order, stale)
    BY <1>3 DEF Update
  <2>2. inbox' \subseteq inbox
    BY <2>1 DEF Stretch
  <2> QED BY <1>3, <2>2, LastWordsKeep DEF Update, clientVars
<1>4. CASE EndFrame
  <2>1. PICK ended, reached :
          /\ inbox' = {}
          /\ ended \subseteq Clients /\ reached \subseteq {c \in Clients : client[c] = "waiting"}
          /\ client' = [c \in Clients |-> IF c \in ended THEN "gone" ELSE IF c \in reached THEN "in" ELSE client[c]]
          /\ news' = [c \in Clients |-> IF c \in ended THEN Append(news[c], "left") ELSE news[c]]
    BY <1>4 DEF EndFrame
  <2> QED BY <2>1, LastWordsKeep
<1>5. ASSUME NEW c \in Clients, Leaves(c), inbox' = inbox PROVE LastWords'
  <2>1. /\ client' = [client EXCEPT ![c] = "gone"]
        /\ \A x \in Clients : x # c => news'[x] = news[x]
    BY <1>0, <1>5 DEF Leaves
  <2> QED BY <1>0, <1>5, <2>1, LastWordsKeep
<1>6. ASSUME NEW c \in Clients, JoinLobby(c) PROVE LastWords'
  <2> DEFINE t == Append(news[c], "joined")
  <2>1. /\ client[c] = "out" /\ client' = [client EXCEPT ![c] = "joining"] /\ news' = [news EXCEPT ![c] = t] /\ inbox' = inbox
    BY <1>6 DEF JoinLobby, Between, frameVars
  <2>2. ToSet(t) = ToSet(news[c]) \cup {"joined"}
    BY <1>0, SaidIs
  <2> HIDE DEF t
  <2>3. \A x \in Clients : "left" \in ToSet(news'[x]) => "left" \in ToSet(news[x])
    BY <1>0, <2>1, <2>2
  <2>4. \A x \in Clients : client[x] = "gone" => client'[x] = "gone"
    BY <1>0, <2>1
  <2> QED BY <2>1, <2>3, <2>4, LastWordsKeep
<1>7. ASSUME NEW c \in Clients,
             \/ Connect(c) \/ LinkBreaks(c) \/ LinkCloses(c) \/ LeaveLobby(c) \/ NoticesTheBreak(c)
      PROVE  LastWords'
  <2>1. inbox' = inbox
    BY <1>7 DEF Connect, LinkBreaks, LinkCloses, LeaveLobby, NoticesTheBreak, Between, frameVars
  <2>2. CASE Connect(c)
    <3>1. /\ client[c] \in {"joining", "waiting"} /\ news' = news
          /\ client' = [client EXCEPT ![c] = IF @ = "joining" THEN "in" ELSE @]
      BY <2>2 DEF Connect
    <3>2. \A x \in Clients : client[x] = "gone" => client'[x] = "gone"
      BY <1>0, <3>1
    <3> QED BY <2>1, <3>1, <3>2, LastWordsKeep
  <2>3. CASE LinkBreaks(c)
    BY <2>1, <2>3, LastWordsKeep DEF LinkBreaks, clientVars
  <2>4. CASE LinkCloses(c)
    BY <1>5, <2>1, <2>4, LastWordsKeep DEF LinkCloses, clientVars
  <2>5. CASE LeaveLobby(c)
    BY <1>5, <2>1, <2>5 DEF LeaveLobby
  <2>6. CASE NoticesTheBreak(c)
    <3>1. CASE client[c] = "in" /\ client' = [client EXCEPT ![c] = "waiting"] /\ news' = news
      <4>1. \A x \in Clients : client[x] = "gone" => client'[x] = "gone"
        BY <1>0, <3>1
      <4> QED BY <2>1, <3>1, <4>1, LastWordsKeep
    <3> QED BY <1>5, <2>1, <2>6, <3>1 DEF NoticesTheBreak
  <2> QED BY <1>7, <2>2, <2>3, <2>4, <2>5, <2>6
<1>8. ASSUME NEW c \in Watched, HearsADeparture(c) PROVE LastWords'
  BY <1>8, LastWordsKeep DEF HearsADeparture, Between, frameVars
<1> QED
  BY <1>1, <1>2, <1>3, <1>4, <1>6, <1>7, <1>8, BoundAssumption DEF Next, BoundsOK

\* A command that is not for c, or neither removes c nor has c wait too long, leaves
\* of c what it found.
LEMMA SpareOne ==
  ASSUME NEW h, NEW k, NEW r, Says(h, k, r), NEW c \in Clients, k.of = c => k.do \notin {"departed", "drop"}
  PROVE  /\ (k.of = c => k.do \notin {"linkLost", "despawn"}) /\ c \in h.listed => c \in r.listed
         /\ (k.of = c => k.do # "promote") /\ c \in h.listed \ Seated(h) => c \in r.listed \ Seated(r)
         /\ c \in h.overtaken => c \in r.overtaken
         /\ c \in h.listed \ Seated(h) /\ h.link[c] = "dialling" =>
              c \in r.overtaken \/ (c \in r.listed \ Seated(r) /\ r.link[c] = "dialling")
<1>1. \/ Spares(h, r, c)
      \/ k.do = "promote" /\ k.of = c /\ (h.link[c] = "dialling" => c \in r.overtaken)
  BY DEF Says
<1>2. (k.of = c => k.do \notin {"linkLost", "despawn"}) /\ c \in h.listed => c \in r.listed
  BY DEF Says
<1>3. h.overtaken \subseteq r.overtaken
  BY DEF Says, Sound
<1> QED
  BY <1>1, <1>2, <1>3 DEF Spares

\* Three ways to be held for, each kept by every command there may be.
LEMMA HeldOn ==
  ASSUME RosterInv, LastWords,
         NEW systems \in SUBSET Systems, NEW order \in SetToSeqs(systems), NEW stale, Stretch(order, stale),
         NEW c \in host.held \ Seated(host), client[c] # "gone", host.waited[c] + 1 < Hold
  PROVE  c \in host'.listed \/ c \in host'.overtaken
<1> DEFINE b == AtOnce(systems, stale)
           sent == "redial" \in systems /\ c \in Dropped(stale)
           out == c \in Read("broken") \cup Read("kick")
<1>1. host \in Hosts /\ c \in Clients /\ c \in host.listed /\ (\A x \in Clients : Timely(host, x))
  BY HostFields DEF RosterInv, InOrderOf, Backed
<1>2. Waited[c] < Hold /\ ~(Waited[c] >= Hold)
  BY <1>1, HostFields, HoldAssumption DEF Waited
<1>3. c \notin Read("left") /\ (out => c \notin Read("handshake"))
  BY <1>1 DEF LastWords, Read
<1>4. ASSUME NEW s, NEW k \in Meant(s, stale), k.of = c
      PROVE  /\ k.do \notin {"departed", "drop", "linkLost"}
             /\ out => k.do # "promote"
             /\ k.do = "despawn" => out \/ (s = "redial" /\ c \in Dropped(stale))
  BY <1>2, <1>3, <1>4 DEF Meant
<1>5. b \in Hosts /\ b.listed = host.listed /\ Seated(b) = Seated(host)
  BY <1>1, AtOnceIs DEF Seated
<1>6. CASE ~out /\ ~sent
  <2> DEFINE J == {v \in Hosts : c \in v.listed}
  <2>1. b \in J
    BY <1>1, <1>5
  <2>2. ASSUME NEW s \in systems, NEW k \in Meant(s, stale), NEW v \in Hosts,
               v \in J, Do(v, k) \in Hosts, Says(v, k, Do(v, k))
        PROVE  Do(v, k) \in J
    <3>1. k.of = c => k.do \notin {"departed", "drop", "linkLost", "despawn"}
      BY <1>4, <1>6
    <3> QED BY <1>1, <2>2, <3>1, SpareOne
  <2> HIDE DEF J, b
  <2>3. host' \in J
    BY <2>1, <2>2, StretchHolds DEF b
  <2> QED BY <2>3 DEF J
<1>7. CASE out
  <2> DEFINE J == {v \in Hosts : c \in v.listed \ Seated(v)}
  <2>1. b \in J
    BY <1>1, <1>5
  <2>2. ASSUME NEW s \in systems, NEW k \in Meant(s, stale), NEW v \in Hosts,
               v \in J, Do(v, k) \in Hosts, Says(v, k, Do(v, k))
        PROVE  Do(v, k) \in J
    <3>1. k.of = c => k.do \notin {"departed", "drop", "linkLost", "promote"}
      BY <1>4, <1>7
    <3> QED BY <1>1, <2>2, <3>1, SpareOne
  <2> HIDE DEF J, b
  <2>3. host' \in J
    BY <2>1, <2>2, StretchHolds DEF b
  <2> QED BY <2>3 DEF J
<1>8. CASE sent
  <2> DEFINE J == {v \in Hosts : c \in v.overtaken \/ (c \in v.listed \ Seated(v) /\ v.link[c] = "dialling")}
  <2>1. b \in J
    <3>1. c \in Dialled(stale)
      BY <1>1, <1>8 DEF Dialled
    <3>2. b.link[c] = "dialling"
      BY <1>1, <1>8, <3>1, LinksAtOnce
    <3> QED BY <1>1, <1>5, <3>2
  <2>2. ASSUME NEW s \in systems, NEW k \in Meant(s, stale), NEW v \in Hosts,
               v \in J, Do(v, k) \in Hosts, Says(v, k, Do(v, k))
        PROVE  Do(v, k) \in J
    <3>1. k.of = c => k.do \notin {"departed", "drop"}
      BY <1>4
    <3> QED BY <1>1, <2>2, <3>1, SpareOne
  <2> HIDE DEF J, b
  <2>3. host' \in J
    BY <2>1, <2>2, StretchHolds DEF b
  <2> QED BY <2>3 DEF J
<1> QED
  BY <1>6, <1>7, <1>8

\* Nobody held for, and without a seat, is given up on before the time that was
\* promised, unless they leave, or the wait of an earlier time runs out on their return.
THEOREM NobodyIsGivenUpEarly == Spec => HeldUntilDue
<1> DEFINE Waits ==
      \A c \in host.held \ Seated(host) :
        c \notin host'.listed => host.waited[c] + 1 >= Hold \/ client[c] = "gone" \/ c \in host'.overtaken
<1>1. Init => LastWords
  <2> SUFFICES ASSUME Init PROVE LastWords
    OBVIOUS
  <2>1. inbox = {} /\ \A c \in Clients : news[c] = <<>>
    BY DEF Init
  <2>2. \A c \in Clients : ToSet(news[c]) = {}
    BY <2>1 DEF ToSet
  <2> QED BY <2>1, <2>2 DEF LastWords
<1>2. RosterInv /\ LastWords /\ [Next]_vars => [Waits]_vars
  <2> SUFFICES ASSUME RosterInv, LastWords, Next, NEW c \in host.held \ Seated(host), c \notin host'.listed
               PROVE  host.waited[c] + 1 >= Hold \/ client[c] = "gone" \/ c \in host'.overtaken
    BY DEF Waits
  <2>1. c \in Clients /\ c \in host.listed /\ host.waited[c] \in Nat /\ host \in Hosts
    BY HostFields DEF RosterInv, InOrderOf, Backed
  <2>2. Update
    <3>1. ASSUME host'.listed = host.listed PROVE FALSE
      BY <2>1, <3>1
    <3>2. ~BeginFrame
      BY <3>1 DEF BeginFrame
    <3>3. ~EndFrame
      BY <2>1, <3>1, EndFrameIs
    <3>4. ASSUME NEW d, host' = host \/ \E to : host' = [host EXCEPT !.link[d] = to] PROVE FALSE
      <4>1. ASSUME NEW to PROVE [host EXCEPT !.link[d] = to].listed = host.listed
        BY <2>1 DEF Hosts
      <4> QED BY <3>1, <3>4, <4>1
    <3>5. \A d : ~JoinLobby(d) /\ ~NoticesTheBreak(d) /\ ~HearsADeparture(d)
      BY <3>1 DEF JoinLobby, NoticesTheBreak, HearsADeparture
    <3>6. \A d : ~Connect(d) /\ ~LinkBreaks(d) /\ ~LinkCloses(d) /\ ~LeaveLobby(d)
      BY <3>4 DEF Connect, LinkBreaks, LinkCloses, LeaveLobby
    <3> QED BY <3>2, <3>3, <3>5, <3>6 DEF Next
  <2>3. PICK systems \in SUBSET Systems : \E order \in SetToSeqs(systems) : \E stale : Stretch(order, stale)
    BY <2>2 DEF Update
  <2>4. PICK order \in SetToSeqs(systems) : \E stale : Stretch(order, stale)
    BY <2>3
  <2>5. PICK stale : Stretch(order, stale)
    BY <2>4
  <2>6. CASE client[c] # "gone" /\ host.waited[c] + 1 < Hold
    BY <2>5, <2>6, HeldOn
  <2> QED BY <2>1, <2>6, HoldAssumption
<1>3. RosterInv /\ LastWords /\ BoundsOK /\ [Next]_vars => LastWords'
  BY LastWordsStay
<1> QED
  BY <1>1, <1>2, <1>3, RosterStaysRight, PTL DEF Spec, HeldUntilDue

------------------------------------------------------------------------------
\* What a client makes of a batch

\* The loop of apply_lobby_state, message by message.
LEMMA CopyRuns ==
  ASSUME NEW known \in SUBSET Clients, NEW q \in Seq(Messages)
  PROVE  \E so : /\ InTurn(ApplyLobbyState, known, q) = so[Len(q)] /\ so[0] = known
                 /\ \A i \in 1..Len(q) : so[i] = ApplyLobbyState(so[i - 1], q[i])
<1> DEFINE n == Len(q)
           S == SUBSET Clients
           step == [i \in 1..n |-> [v \in S |-> ApplyLobbyState(v, q[i])]]
           so[i \in 0..Len(q)] == IF i = 0 THEN known ELSE ApplyLobbyState(so[i - 1], q[i])
<1>1. InTurn(ApplyLobbyState, known, q) = so[n] /\ n \in Nat
  BY DEF InTurn
<1>2. \A i \in 1..n : q[i] \in Messages
  OBVIOUS
<1>3. \A i \in 1..n : \A v \in S : ApplyLobbyState(v, q[i]) \in S
  <2> SUFFICES ASSUME NEW i \in 1..n, NEW v \in S PROVE ApplyLobbyState(v, q[i]) \in S
    OBVIOUS
  <2>1. q[i].who \in SUBSET Clients
    BY <1>2 DEF Messages
  <2> QED BY <2>1 DEF ApplyLobbyState
<1>4. step \in [1..n -> [S -> S]]
  BY <1>3
<1>5. \A i \in 1..n : \A v \in S : step[i][v] = ApplyLobbyState(v, q[i])
  OBVIOUS
<1> HIDE DEF step
<1>6. PICK f \in [0..n -> S] : Follows(f, known, n, step)
  BY <1>1, <1>4, Folds
<1>7. \A i \in 1..n : f[i] = ApplyLobbyState(f[i - 1], q[i])
  <2> SUFFICES ASSUME NEW i \in 1..n PROVE f[i] = ApplyLobbyState(f[i - 1], q[i])
    OBVIOUS
  <2>1. i - 1 \in 0..n /\ f[i - 1] \in S
    BY <1>1
  <2> QED BY <1>5, <1>6, <2>1 DEF Follows
<1>8. f = [i \in 0..n |-> IF i = 0 THEN known ELSE ApplyLobbyState(f[i - 1], q[i])]
  BY <1>1, <1>6, <1>7 DEF Follows
<1>9. so = [i \in 0..n |-> IF i = 0 THEN known ELSE ApplyLobbyState(so[i - 1], q[i])]
  BY <1>8
<1> HIDE DEF so
<1>10. so[0] = known /\ \A i \in 1..n : so[i] = ApplyLobbyState(so[i - 1], q[i])
  BY <1>1, <1>9
<1> QED
  BY <1>1, <1>10

\* One word more is one step more.
LEMMA CopyAppended ==
  ASSUME NEW known \in SUBSET Clients, NEW q \in Seq(Messages), NEW m \in Messages
  PROVE  InTurn(ApplyLobbyState, known, Append(q, m)) = ApplyLobbyState(InTurn(ApplyLobbyState, known, q), m)
<1> DEFINE n == Len(q)
           t == Append(q, m)
<1>1. PICK so : /\ InTurn(ApplyLobbyState, known, q) = so[n] /\ so[0] = known
                /\ \A i \in 1..n : so[i] = ApplyLobbyState(so[i - 1], q[i])
  BY CopyRuns
<1> DEFINE last == ApplyLobbyState(so[n], m)
           J == [i \in 0..(n + 1) |-> IF i = n + 1 THEN {last} ELSE {so[i]}]
<1>2. /\ n \in Nat /\ Len(t) = n + 1 /\ t[n + 1] = m /\ \A i \in 1..n : t[i] = q[i]
  OBVIOUS
<1>3. known \in J[0]
  BY <1>1, <1>2
<1>4. ASSUME NEW i \in 1..(n + 1), NEW v \in J[i - 1] PROVE ApplyLobbyState(v, t[i]) \in J[i]
  <2>1. v = so[i - 1] /\ i \in 0..(n + 1)
    BY <1>2
  <2>2. CASE i = n + 1
    <3>1. so[i - 1] = so[n] /\ t[i] = m
      BY <1>2, <2>2
    <3> QED BY <2>1, <2>2, <3>1
  <2>3. CASE i \in 1..n
    <3>1. ApplyLobbyState(v, t[i]) = so[i] /\ i # n + 1
      BY <1>1, <1>2, <2>1, <2>3
    <3> QED BY <2>1, <3>1
  <2> QED BY <1>2, <2>2, <2>3
<1>5. n + 1 \in Nat /\ J[n + 1] = {last}
  BY <1>2
<1> HIDE DEF J, t, last
<1>6. InTurn(ApplyLobbyState, known, t) \in J[n + 1]
  BY <1>2, <1>3, <1>4, <1>5, CopyAlong
<1> QED
  BY <1>1, <1>5, <1>6 DEF t, last

LEMMA CopyOfNothing ==
  ASSUME NEW known
  PROVE  InTurn(ApplyLobbyState, known, <<>>) = known
<1> DEFINE J == [i \in 0..0 |-> {known}]
           q == <<>>
<1>1. known \in J[0] /\ J[0] = {known} /\ Len(q) = 0 /\ 0 \in Nat
  OBVIOUS
<1> HIDE DEF J, q
<1>2. \A i \in 1..0 : \A v \in J[i - 1] : ApplyLobbyState(v, q[i]) \in J[i]
  OBVIOUS
<1>3. InTurn(ApplyLobbyState, known, q) \in J[0]
  BY <1>1, <1>2, CopyAlong
<1> QED
  BY <1>1, <1>3 DEF q

\* Who a batch removes.
RemovedBy(q) == UNION {m.who : m \in {n \in ToSet(q) : n.say = "remove"}}
LEMMA RemovedAppended ==
  ASSUME NEW q \in Seq(Messages), NEW m \in Messages
  PROVE  RemovedBy(Append(q, m)) = RemovedBy(q) \cup (IF m.say = "remove" THEN m.who ELSE {})
<1> DEFINE t == Append(q, m)
           n == Len(q)
<1>1. /\ t \in Seq(Messages) /\ n \in Nat /\ Len(t) = n + 1
      /\ DOMAIN t = 1..(n + 1) /\ DOMAIN q = 1..n
      /\ t[n + 1] = m /\ \A i \in 1..n : t[i] = q[i]
  OBVIOUS
<1>2. 1..(n + 1) = (1..n) \cup {n + 1}
  BY <1>1
<1> HIDE DEF t, n
<1>3. ToSet(t) = ToSet(q) \cup {m}
  BY <1>1, <1>2 DEF ToSet
<1>4. RemovedBy(t) = RemovedBy(q) \cup (IF m.say = "remove" THEN m.who ELSE {})
  BY <1>3 DEF RemovedBy
<1> QED
  BY <1>4 DEF t

LEMMA NothingRemoved == RemovedBy(<<>>) = {}
  BY DEF RemovedBy, ToSet

\* What client c will know when it has what the host h has batched for it.
Copy(h, c) == InTurn(ApplyLobbyState, view[c], h.batch[c])

LEMMA LostIs ==
  ASSUME NEW h \in Hosts, NEW r, NEW c \in Watched, view[c] \in SUBSET Clients, NEW x \in Clients, Lost(h, r, c, x)
  PROVE  Copy(r, c) = Copy(h, c) \ {x} /\ RemovesFor(r, c) = RemovesFor(h, c) \cup {x}
<1> DEFINE m == Removed(x)
<1>1. h.batch[c] \in Seq(Messages) /\ m \in Messages /\ r.batch[c] = Append(h.batch[c], m)
  BY ClientsAssumption, HostFields, RemovedIsSaid DEF Lost
<1>2. m.say = "remove" /\ m.who = {x}
  BY DEF Removed
<1> HIDE DEF m
<1>3. RemovedBy(r.batch[c]) = RemovedBy(h.batch[c]) \cup {x}
  BY <1>1, <1>2, RemovedAppended
<1>4. Copy(r, c) = ApplyLobbyState(Copy(h, c), m)
  BY <1>1, CopyAppended DEF Copy
<1> QED
  BY <1>2, <1>3, <1>4 DEF ApplyLobbyState, RemovesFor, RemovedBy

LEMMA HeardIs ==
  ASSUME NEW h \in Hosts, NEW r, NEW c \in Watched, view[c] \in SUBSET Clients, NEW who \in SUBSET Clients, Heard(h, r, c, who)
  PROVE  Copy(r, c) = Copy(h, c) \cup who /\ RemovesFor(r, c) = RemovesFor(h, c)
<1> DEFINE m == Present(who)
<1>1. h.batch[c] \in Seq(Messages) /\ r.batch[c] = Append(h.batch[c], m)
  BY ClientsAssumption, HostFields DEF Heard
<1>2. m.say = "sync" /\ m.who = who /\ m \in Messages
  BY DEF Present, Messages
<1> HIDE DEF m
<1>3. RemovedBy(r.batch[c]) = RemovedBy(h.batch[c])
  BY <1>1, <1>2, RemovedAppended
<1>4. Copy(r, c) = ApplyLobbyState(Copy(h, c), m)
  BY <1>1, <1>2, CopyAppended DEF Copy
<1> QED
  BY <1>2, <1>3, <1>4 DEF ApplyLobbyState, RemovesFor, RemovedBy

\* Nothing is batched.
LEMMA UnsaidIs ==
  ASSUME NEW h, NEW c, h.batch[c] = <<>>
  PROVE  Copy(h, c) = view[c] /\ RemovesFor(h, c) = {}
<1>1. RemovesFor(h, c) = {}
  BY NothingRemoved DEF RemovesFor, RemovedBy
<1> QED
  BY <1>1, CopyOfNothing DEF Copy

\* The same is batched.
LEMMA SameSaid ==
  ASSUME NEW h, NEW r, NEW c, r.batch[c] = h.batch[c]
  PROVE  Copy(r, c) = Copy(h, c) /\ RemovesFor(r, c) = RemovesFor(h, c)
  BY DEF Copy, RemovesFor

------------------------------------------------------------------------------
\* No client is left without a participant the host has

\* c knows, or will, of all who are listed, but for rest, those it is still to be told
\* of as changed, and whoever is gone anyway.
Owed(h, c, rest) ==
  c \in Seated(h) \ (h.overtaken \cup h.fresh.syncs) /\ h.link[c] = "up" =>
    \A d \in h.listed : client[d] = "gone" \/ d \in h.changed \/ d \in Copy(h, c) \/ d \in rest

LEMMA OwedBefore ==
  ASSUME NEW h, NEW r, NEW c \in Clients, Sound(h, r),
         c \in Seated(r) \ (r.overtaken \cup r.fresh.syncs), r.link[c] = "up"
  PROVE  c \in Seated(h) \ (h.overtaken \cup h.fresh.syncs) /\ h.link[c] = "up"
  BY DEF Sound

LEMMA OwedKeeps ==
  ASSUME NEW h \in Hosts, NEW r, NEW c \in Watched, view[c] \in SUBSET Clients, NEW rest,
         Sound(h, r), Owed(h, c, rest)
  PROVE  Owed(r, c, rest)
<1> SUFFICES ASSUME c \in Seated(r) \ (r.overtaken \cup r.fresh.syncs), r.link[c] = "up"
             PROVE  \A d \in r.listed : client[d] = "gone" \/ d \in r.changed \/ d \in Copy(r, c) \/ d \in rest
  BY DEF Owed
<1>1. c \in Clients
  BY ClientsAssumption
<1>2. \A d \in h.listed : client[d] = "gone" \/ d \in h.changed \/ d \in Copy(h, c) \/ d \in rest
  BY <1>1, OwedBefore DEF Owed
<1>3. Told(h, r, c)
  BY <1>1 DEF Sound
<1>4. CASE Grew(h, r, c)
  <2>1. Copy(r, c) = Copy(h, c)
    BY <1>4, SameSaid DEF Grew
  <2> QED BY <1>2, <1>4, <2>1 DEF Grew
<1>5. CASE \E x \in Clients : Lost(h, r, c, x)
  <2>1. PICK x \in Clients : Lost(h, r, c, x)
    BY <1>5
  <2>2. Copy(r, c) = Copy(h, c) \ {x}
    BY <2>1, LostIs
  <2> QED BY <1>2, <2>1, <2>2 DEF Lost
<1>6. CASE \E who \in SUBSET Clients : Heard(h, r, c, who)
  <2>1. PICK who \in SUBSET Clients : Heard(h, r, c, who)
    BY <1>6
  <2>2. Copy(r, c) = Copy(h, c) \cup who
    BY <2>1, HeardIs
  <2> QED BY <1>2, <2>1, <2>2 DEF Heard
<1> QED
  BY <1>3, <1>4, <1>5, <1>6 DEF Told

LEMMA OwedPaid ==
  ASSUME NEW h \in Hosts, NEW r, NEW c \in Watched, view[c] \in SUBSET Clients, NEW rest, NEW who \in SUBSET Clients,
         Sound(h, r), Owed(h, c, rest \cup who), c \in Seated(h) => Heard(h, r, c, who)
  PROVE  Owed(r, c, rest)
<1> SUFFICES ASSUME c \in Seated(r) \ (r.overtaken \cup r.fresh.syncs), r.link[c] = "up"
             PROVE  \A d \in r.listed : client[d] = "gone" \/ d \in r.changed \/ d \in Copy(r, c) \/ d \in rest
  BY DEF Owed
<1>1. c \in Seated(h) \ (h.overtaken \cup h.fresh.syncs) /\ h.link[c] = "up"
  BY ClientsAssumption, OwedBefore
<1>2. \A d \in h.listed : client[d] = "gone" \/ d \in h.changed \/ d \in Copy(h, c) \/ d \in rest \cup who
  BY <1>1 DEF Owed
<1>3. Heard(h, r, c, who) /\ Copy(r, c) = Copy(h, c) \cup who
  BY <1>1, HeardIs
<1> QED
  BY <1>2, <1>3 DEF Heard

\* What c is told of by system s, and the commands that tell it.
Paid(s, c) ==
  IF s = "syncs" /\ c \in host.fresh.syncs THEN host.listed ELSE IF s = "broadcast" THEN host.changed ELSE {}
Pays(k, c) == k.do = "sync" \/ (k.do = "syncTo" /\ k.of = c)

LEMMA PaymentIs ==
  ASSUME host \in Hosts, NEW s, NEW stale, NEW k \in Meant(s, stale), NEW c, Pays(k, c)
  PROVE  k.who = Paid(s, c) /\ k.who \in SUBSET Clients
<1>1. k.who = Paid(s, c)
  BY DEF Pays, Paid, Meant
<1>2. Paid(s, c) \in SUBSET Clients
  BY HostFields DEF Paid
<1> QED
  BY <1>1, <1>2

LEMMA PaymentIsQueued ==
  ASSUME host \in Hosts, NEW s \in Systems, NEW stale, NEW c \in Clients, Paid(s, c) # {}
  PROVE  \E i \in 1..Len(Queued(s, stale)) : Pays(Queued(s, stale)[i], c)
<1>1. CASE s = "syncs"
  <2> DEFINE who == host.fresh.syncs
             f == [x \in Clients |-> [do |-> "syncTo", of |-> x, nth |-> host.nth[x], who |-> host.listed]]
  <2>1. who \in SUBSET Clients
    BY HostFields DEF Stages
  <2>2. Queued(s, stale) = Each(who, f)
    <3>1. {f[x] : x \in who} = {[do |-> "syncTo", of |-> x, nth |-> host.nth[x], who |-> host.listed] : x \in who}
      BY <2>1
    <3> QED BY <1>1, <3>1 DEF Queued, SyncNewSeats, ForEach, Each
  <2>3. c \in who /\ Pays(f[c], c)
    BY <1>1 DEF Paid, Pays
  <2> HIDE DEF who, f
  <2>4. \E i \in 1..Len(Each(who, f)) : Each(who, f)[i] = f[c]
    BY <2>1, <2>3, EachHas
  <2> QED BY <2>2, <2>3, <2>4
<1>2. CASE s = "broadcast"
  <2> DEFINE k == [do |-> "sync", of |-> CHOOSE x \in Clients : TRUE, who |-> host.changed]
  <2>1. Queued(s, stale) = <<k>>
    BY <1>2 DEF Paid, Queued, Broadcast
  <2>2. Pays(k, c)
    BY DEF Pays
  <2> HIDE DEF k
  <2>3. Len(<<k>>) = 1 /\ <<k>>[1] = k
    OBVIOUS
  <2> QED BY <2>1, <2>2, <2>3
<1> QED
  BY <1>1, <1>2 DEF Paid

LEMMA QueueSettles ==
  ASSUME RosterInv, NEW s \in Systems, NEW stale, NEW c \in Watched, NEW rest,
         NEW v \in Mid(host, {}), Steady(host, v), Owed(v, c, rest \cup Paid(s, c))
  PROVE  LET r == Apply(v, Queued(s, stale)) IN r \in Hosts /\ Owed(r, c, rest)
<1> DEFINE q == Queued(s, stale)
           left(i) == IF \E m \in 1..i : Pays(q[m], c) THEN rest ELSE rest \cup Paid(s, c)
           K == [i \in 0..Len(q) |-> {x \in Hosts : Owed(x, c, left(i))}]
<1>1. InOrderOf(host) /\ host \in Hosts /\ Unheard(host, {}) /\ c \in Clients /\ view[c] \in SUBSET Clients
  BY ClientsAssumption DEF RosterInv, InOrderOf, Unheard, RestOK
<1>2. Heeds({}, s)
  BY <1>1 DEF Heeds, RosterInv, InOrderOf, Backed, Newcomers, Unheard, Unknown, Read
<1>3. /\ Ready(host, {}, q) /\ Addressed(host, q) /\ Len(q) \in Nat
      /\ \A j \in 1..Len(q) : q[j] \in Meant(s, stale)
  BY <1>1, <1>2, QueuedReady, QueuedAddresses
<1>4. Paid(s, c) # {} => \E i \in 1..Len(q) : Pays(q[i], c)
  BY <1>1, PaymentIsQueued
<1> HIDE DEF q
<1>5. v \in K[0]
  BY <1>3 DEF Mid
<1>6. ASSUME NEW j \in 1..Len(q), NEW x \in Mid(host, {}),
             x \in K[j - 1], Do(x, q[j]) \in Hosts, Says(x, q[j], Do(x, q[j]))
      PROVE  Do(x, q[j]) \in K[j]
  <2> DEFINE r == Do(x, q[j])
             k == q[j]
  <2>1. j \in 0..Len(q) /\ j - 1 \in 0..Len(q)
    BY <1>3
  <2>2. x \in Hosts /\ Owed(x, c, left(j - 1))
    BY <1>6, <2>1
  <2>3. Sound(x, r) /\ k \in Meant(s, stale)
    BY <1>3, <1>6 DEF Says
  <2>4. \A m \in 1..j : m \in 1..(j - 1) \/ m = j
    BY <1>3
  <2>5. 1..(j - 1) \subseteq 1..j /\ j \in 1..j
    BY <1>3
  <2>6. CASE ~Pays(k, c) \/ \E m \in 1..(j - 1) : Pays(q[m], c)
    <3>1. left(j) = left(j - 1)
      BY <2>4, <2>5, <2>6
    <3> HIDE DEF left, r
    <3>2. Owed(r, c, left(j))
      BY <1>1, <2>2, <2>3, <3>1, OwedKeeps
    <3> QED BY <1>6, <2>1, <3>2 DEF r
  <2>7. CASE Pays(k, c) /\ ~\E m \in 1..(j - 1) : Pays(q[m], c)
    <3>1. left(j) = rest /\ left(j - 1) = rest \cup Paid(s, c)
      BY <2>5, <2>7
    <3>2. k.who = Paid(s, c) /\ k.who \in SUBSET Clients
      BY <1>1, <2>3, <2>7, PaymentIs
    <3>3. c \in Seated(x) => Heard(x, r, c, k.who)
      BY <1>6, <2>7 DEF Says, Pays
    <3> HIDE DEF left, r, k
    <3>4. Owed(r, c, rest)
      BY <1>1, <2>2, <2>3, <3>1, <3>2, <3>3, OwedPaid
    <3> QED BY <1>6, <2>1, <3>1, <3>4 DEF r
  <2> QED BY <2>6, <2>7
<1>7. left(Len(q)) = rest
  BY <1>4
<1> HIDE DEF left
<1>8. Len(q) \in 0..Len(q)
  BY <1>3
<1> HIDE DEF K
<1>9. Apply(v, q) \in K[Len(q)]
  BY <1>1, <1>3, <1>5, <1>6, QueueAlong
<1> QED
  BY <1>7, <1>8, <1>9 DEF K, q

\* Over a stretch, whatever the order of its systems, c is told.
LEMMA StretchSettles ==
  ASSUME RosterInv, NEW systems \in SUBSET Systems, NEW order \in SetToSeqs(systems), NEW stale,
         Stretch(order, stale), NEW c \in Watched, Owed(host, c, {})
  PROVE  Owed(host', c, {})
<1> DEFINE n == Len(order)
           b == AtOnce(systems, stale)
           rest(i) == UNION {Paid(order[m], c) : m \in (i + 1)..n}
           L == [i \in 0..n |-> {x \in Hosts : Owed(x, c, rest(i))}]
<1>1. InOrderOf(host) /\ host \in Hosts /\ Unheard(host, {}) /\ c \in Clients
  BY ClientsAssumption DEF RosterInv, InOrderOf, Unheard
<1>2. \A s \in systems : Heeds({}, s)
  BY <1>1 DEF Heeds, RosterInv, InOrderOf, Backed, Newcomers, Unheard, Unknown, Read
<1>3. /\ n \in Nat /\ \A i \in 1..n : order[i] \in Systems
      /\ \A s \in systems : \E i \in 1..n : order[i] = s
  BY OrderIs
<1>4. \A s \in systems : Paid(s, c) \subseteq rest(0)
  <2> SUFFICES ASSUME NEW s \in systems PROVE Paid(s, c) \subseteq rest(0)
    OBVIOUS
  <2>1. PICK i \in 1..n : order[i] = s
    BY <1>3
  <2>2. i \in (0 + 1)..n
    OBVIOUS
  <2> QED BY <2>1, <2>2
<1>5. b \in Hosts /\ Owed(b, c, rest(0))
  <2>1. /\ b \in Hosts /\ b.seat = host.seat /\ b.listed = host.listed /\ b.batch = host.batch
        /\ b.overtaken = host.overtaken
        /\ \A s \in Stages : b.fresh[s] = IF s \in systems THEN {} ELSE host.fresh[s]
        /\ b.changed = IF "broadcast" \in systems THEN {} ELSE host.changed
    BY <1>1, AtOnceIs DEF RosterInv, InOrderOf
  <2>2. b.fresh.syncs = IF "syncs" \in systems THEN {} ELSE host.fresh.syncs
    BY <2>1 DEF Stages
  <2>3. b.link[c] = "up" => host.link[c] = "up"
    BY <1>1, LinksAtOnce
  <2>4. Seated(b) = Seated(host) /\ Copy(b, c) = Copy(host, c)
    BY <2>1 DEF Seated, Copy
  <2> HIDE DEF b, rest
  <2> SUFFICES ASSUME c \in Seated(b) \ (b.overtaken \cup b.fresh.syncs), b.link[c] = "up", NEW d \in b.listed
               PROVE  client[d] = "gone" \/ d \in b.changed \/ d \in Copy(b, c) \/ d \in rest(0)
    BY <2>1 DEF Owed
  <2>5. CASE c \in host.fresh.syncs
    <3>1. "syncs" \in systems /\ Paid("syncs", c) = host.listed
      BY <2>2, <2>5 DEF Paid
    <3> QED BY <1>4, <2>1, <3>1
  <2>6. CASE c \notin host.fresh.syncs
    <3>1. client[d] = "gone" \/ d \in host.changed \/ d \in Copy(host, c)
      BY <2>1, <2>3, <2>4, <2>6 DEF Owed
    <3>2. "broadcast" \in systems => host.changed \subseteq rest(0)
      <4>1. Paid("broadcast", c) = host.changed
        BY DEF Paid
      <4> QED BY <1>4, <4>1
    <3> QED BY <2>1, <2>4, <3>1, <3>2
  <2> QED BY <2>5, <2>6
<1> HIDE DEF b
<1>6. b \in L[0]
  BY <1>3, <1>5
<1>7. ASSUME NEW i \in 1..n, NEW v \in Mid(host, {}), v \in L[i - 1], Steady(host, v)
      PROVE  Apply(v, Queued(order[i], stale)) \in L[i]
  <2> DEFINE s == order[i]
             r == Apply(v, Queued(s, stale))
  <2>1. i \in 0..n /\ i - 1 \in 0..n /\ s \in Systems
    BY <1>3
  <2>2. Owed(v, c, rest(i - 1))
    BY <1>7, <2>1
  <2>3. rest(i - 1) = rest(i) \cup Paid(s, c)
    <3>1. ((i - 1) + 1)..n = {i} \cup ((i + 1)..n)
      BY <1>3
    <3> QED BY <3>1
  <2> HIDE DEF rest, s
  <2>4. r \in Hosts /\ Owed(r, c, rest(i))
    BY <1>7, <2>1, <2>2, <2>3, QueueSettles
  <2> QED BY <2>1, <2>4 DEF s
<1>8. rest(n) = {}
  <2>1. (n + 1)..n = {}
    BY <1>3
  <2> QED BY <2>1
<1>9. n \in 0..n
  BY <1>3
<1> HIDE DEF rest, L
<1>10. host' \in L[n]
  BY <1>1, <1>2, <1>6, <1>7, StretchAlong DEF b
<1> QED
  BY <1>8, <1>9, <1>10 DEF L

------------------------------------------------------------------------------
\* Whoever a client shows that is gone went when it had no seat

\* Whom c knows, or will, is listed by h, or was by g and went unsaid, or is in known.
Accounts(g, h, c, known) ==
  Copy(h, c) \subseteq h.listed \cup known \cup h.crossed \cup h.overtaken \cup ((g.listed \ h.listed) \ RemovesFor(h, c))
\* All that went since g, c will be told of.
Tells(g, h, c) == g.listed \ h.listed \subseteq RemovesFor(h, c) /\ RemovesFor(g, c) \subseteq RemovesFor(h, c)
\* What every command keeps of c, which has a seat all along or gets one.
Accounted(g, h, c, known) ==
  /\ c \notin Seated(h) => h.batch[c] = <<>>
  /\ c \in Seated(h) => Accounts(g, h, c, known) /\ (c \in Seated(g) => Tells(g, h, c))
  /\ g.crossed \subseteq h.crossed /\ g.overtaken \subseteq h.overtaken

LEMMA AccountedKeeps ==
  ASSUME NEW g \in Hosts, NEW h \in Hosts, NEW r \in Hosts, NEW c \in Watched, view[c] \in SUBSET Clients, NEW known,
         Accounted(g, h, c, known), Sound(h, r), c \in Seated(r) => c \in Seated(h) \/ c \notin Seated(g),
         c \notin Seated(g) => view[c] \subseteq g.listed \cup known \cup g.crossed \cup g.overtaken
  PROVE  Accounted(g, r, c, known)
<1>1. /\ c \in Clients /\ h.crossed \subseteq r.crossed /\ h.overtaken \subseteq r.overtaken
      /\ g.crossed \subseteq h.crossed /\ g.overtaken \subseteq h.overtaken
  BY ClientsAssumption DEF Sound, Accounted
<1>2. c \notin Seated(r) => r.batch[c] = <<>>
  BY <1>1 DEF Sound, Accounted
<1>3. ASSUME c \in Seated(r), c \notin Seated(h)
      PROVE  Accounts(g, r, c, known) /\ c \notin Seated(g)
  <2>1. Told(h, r, c) /\ c \notin Seated(g)
    BY <1>1, <1>3 DEF Sound
  <2>2. Grew(h, r, c) /\ h.batch[c] = <<>>
    BY <1>3, <2>1 DEF Told, Accounted
  <2>3. Copy(r, c) = view[c] /\ RemovesFor(r, c) = {}
    BY <2>2, UnsaidIs DEF Grew
  <2> QED BY <1>1, <2>1, <2>3 DEF Accounts
<1>4. ASSUME c \in Seated(r), c \in Seated(h)
      PROVE  Accounts(g, r, c, known) /\ (c \in Seated(g) => Tells(g, r, c))
  <2>1. Told(h, r, c)
    BY <1>1, <1>4 DEF Sound
  <2>2. Accounts(g, h, c, known) /\ (c \in Seated(g) => Tells(g, h, c))
    BY <1>4 DEF Accounted
  <2>3. CASE Grew(h, r, c)
    <3>1. Copy(r, c) = Copy(h, c) /\ RemovesFor(r, c) = RemovesFor(h, c) /\ h.listed \subseteq r.listed
      BY <2>3, SameSaid DEF Grew
    <3> QED BY <1>1, <2>2, <3>1 DEF Accounts, Tells
  <2>4. CASE \E x \in Clients : Lost(h, r, c, x)
    <3>1. PICK x \in Clients : Lost(h, r, c, x)
      BY <2>4
    <3>2. Copy(r, c) = Copy(h, c) \ {x} /\ RemovesFor(r, c) = RemovesFor(h, c) \cup {x} /\ r.listed = h.listed \ {x}
      BY <3>1, LostIs DEF Lost
    <3> QED BY <1>1, <2>2, <3>2 DEF Accounts, Tells
  <2>5. CASE \E who \in SUBSET Clients : Heard(h, r, c, who)
    <3>1. PICK who \in SUBSET Clients : Heard(h, r, c, who)
      BY <2>5
    <3>2. /\ Copy(r, c) = Copy(h, c) \cup who /\ RemovesFor(r, c) = RemovesFor(h, c) /\ r.listed = h.listed
          /\ who \subseteq h.listed \cup r.crossed
      BY <3>1, HeardIs DEF Heard
    <3> QED BY <1>1, <2>2, <3>2 DEF Accounts, Tells
  <2> QED BY <2>1, <2>3, <2>4, <2>5 DEF Told
<1> QED
  BY <1>1, <1>2, <1>3, <1>4 DEF Accounted

\* Whom c shows, or will, is listed or explained.
Explained(h, c, known) ==
  /\ view[c] \subseteq h.listed \cup known \cup h.crossed \cup h.overtaken \cup RemovesFor(h, c)
  /\ Copy(h, c) \subseteq h.listed \cup known \cup h.crossed \cup h.overtaken

LEMMA StretchExplains ==
  ASSUME RosterInv, NEW systems \in SUBSET Systems, NEW order \in SetToSeqs(systems), NEW stale,
         Stretch(order, stale), NEW c \in Watched, client[c] \notin {"out", "gone"},
         c \notin Seated(host) => host.batch[c] = <<>>, Explained(host, c, unheard[c]), host' \in Hosts
  PROVE  Explained(host', c, unheard'[c])
<1> DEFINE b == AtOnce(systems, stale)
           known == unheard[c]
           J == {v \in Hosts : Accounted(host, v, c, known)}
<1>1. /\ InOrderOf(host) /\ host \in Hosts /\ c \in Clients /\ view[c] \in SUBSET Clients
      /\ \A x \in Clients : Timely(host, x)
  BY ClientsAssumption DEF RosterInv, InOrderOf, RestOK
<1>2. c \notin Seated(host) => view[c] \subseteq host.listed \cup known \cup host.crossed \cup host.overtaken
  <2>1. c \notin Seated(host) => RemovesFor(host, c) = {}
    BY UnsaidIs
  <2> QED BY <2>1 DEF Explained
<1>3. b \in J
  <2>1. /\ b \in Hosts /\ b.seat = host.seat /\ b.listed = host.listed /\ b.batch = host.batch
        /\ b.crossed = host.crossed /\ b.overtaken = host.overtaken
    BY <1>1, AtOnceIs
  <2> HIDE DEF b
  <2>2. /\ Seated(b) = Seated(host) /\ Copy(b, c) = Copy(host, c) /\ RemovesFor(b, c) = RemovesFor(host, c)
    BY <2>1 DEF Seated, Copy, RemovesFor
  <2> QED BY <2>1, <2>2 DEF Accounted, Accounts, Tells, Explained
<1>4. ASSUME NEW s \in systems, NEW k \in Meant(s, stale), NEW v \in Hosts,
             v \in J, Do(v, k) \in Hosts, Says(v, k, Do(v, k))
      PROVE  Do(v, k) \in J
  <2> DEFINE r == Do(v, k)
  <2>1. Accounted(host, v, c, known) /\ Sound(v, r)
    BY <1>4 DEF Says
  <2>2. c \in Seated(r) => c \in Seated(v) \/ c \notin Seated(host)
    BY <1>1, <1>4 DEF Says, Meant
  <2> HIDE DEF r, known
  <2>3. Accounted(host, r, c, known)
    BY <1>1, <1>2, <1>4, <2>1, <2>2, AccountedKeeps DEF r
  <2> QED BY <1>4, <2>3 DEF r, known
<1> HIDE DEF b, J
<1>5. host' \in J
  BY <1>3, <1>4, StretchHolds DEF b
<1>6. Accounted(host, host', c, known)
  BY <1>5 DEF J
<1> DEFINE r == host'
           new == unheard'[c]
           lost == ((host.listed \ r.listed) \cup RemovesFor(host, c)) \ RemovesFor(r, c)
<1>7. new = IF c \in Seated(host) \cap Seated(r) THEN known ELSE known \cup lost
  <2>1. unheard' = Missed(host, host')
    BY DEF Stretch
  <2> QED BY <2>1 DEF Missed
<1> HIDE DEF known, new, lost, r
<1>8. /\ host.crossed \subseteq r.crossed /\ host.overtaken \subseteq r.overtaken
      /\ c \notin Seated(r) => r.batch[c] = <<>>
      /\ c \in Seated(r) => Accounts(host, r, c, known) /\ (c \in Seated(host) => Tells(host, r, c))
  BY <1>6 DEF Accounted, r
<1>9. /\ view[c] \subseteq host.listed \cup known \cup host.crossed \cup host.overtaken \cup RemovesFor(host, c)
  BY DEF Explained, known
<1>10. CASE c \in Seated(host) \cap Seated(r)
  <2>1. new = known
    BY <1>7, <1>10
  <2>2. host.listed \ r.listed \subseteq RemovesFor(r, c) /\ RemovesFor(host, c) \subseteq RemovesFor(r, c)
    BY <1>8, <1>10 DEF Tells
  <2>3. Copy(r, c) \subseteq r.listed \cup known \cup r.crossed \cup r.overtaken
    BY <1>8, <1>10, <2>2 DEF Accounts
  <2>4. view[c] \subseteq r.listed \cup known \cup r.crossed \cup r.overtaken \cup RemovesFor(r, c)
    BY <1>8, <1>9, <2>2
  <2>5. Explained(r, c, new)
    BY <2>1, <2>3, <2>4 DEF Explained
  <2> QED BY <2>5 DEF r, new
<1>11. CASE c \notin Seated(host) \cap Seated(r)
  <2>1. new = known \cup lost
    BY <1>7, <1>11
  <2>2. view[c] \subseteq r.listed \cup new \cup r.crossed \cup r.overtaken \cup RemovesFor(r, c)
    BY <1>8, <1>9, <2>1 DEF lost
  <2>3. Copy(r, c) \subseteq r.listed \cup new \cup r.crossed \cup r.overtaken
    <3>1. CASE c \in Seated(r)
      BY <1>8, <2>1, <3>1 DEF Accounts, lost
    <3>2. CASE c \notin Seated(r)
      <4>1. Copy(r, c) = view[c] /\ RemovesFor(r, c) = {}
        BY <1>8, <3>2, UnsaidIs
      <4> QED BY <2>2, <4>1
    <3> QED BY <3>1, <3>2
  <2>4. Explained(r, c, new)
    BY <2>2, <2>3 DEF Explained
  <2> QED BY <2>4 DEF r, new
<1> QED
  BY <1>10, <1>11 DEF r

------------------------------------------------------------------------------
\* Every copy, always

\* Nothing is batched for whom has no seat, nor between frames, and a seat whose
\* promotion was not overtaken has no link that is still dialled.  Every copy is, or
\* will be, complete, and what it shows is explained.
Copies ==
  /\ \A c \in Clients : /\ c \notin Seated(host) \/ ~inFrame => host.batch[c] = <<>>
                        /\ c \in Seated(host) \ host.overtaken => host.link[c] # "dialling"
  /\ \A c \in Watched : /\ Owed(host, c, {})
                        /\ client[c] = "out" => view[c] = {}
                        /\ client[c] \notin {"out", "gone"} => Explained(host, c, unheard[c])

\* What the next state owes, spelt out.
LEMMA CopiesNext ==
  ASSUME \A c \in Clients :
           /\ c \notin Seated(host') \/ ~inFrame' => host'.batch[c] = <<>>
           /\ c \in Seated(host') \ host'.overtaken => host'.link[c] # "dialling",
         \A c \in Watched :
           /\ c \in Seated(host') \ (host'.overtaken \cup host'.fresh.syncs) /\ host'.link[c] = "up" =>
                \A d \in host'.listed : \/ client'[d] = "gone" \/ d \in host'.changed
                                        \/ d \in InTurn(ApplyLobbyState, view'[c], host'.batch[c])
           /\ client'[c] = "out" => view'[c] = {}
           /\ client'[c] \notin {"out", "gone"} =>
                /\ view'[c] \subseteq host'.listed \cup unheard'[c] \cup host'.crossed \cup host'.overtaken \cup RemovesFor(host', c)
                /\ InTurn(ApplyLobbyState, view'[c], host'.batch[c])
                     \subseteq host'.listed \cup unheard'[c] \cup host'.crossed \cup host'.overtaken
  PROVE  Copies'
<1>1. \A c \in Watched : Owed(host, c, {})'
  BY DEF Owed, Copy
<1>2. \A c \in Watched : (client[c] \notin {"out", "gone"} => Explained(host, c, unheard[c]))'
  BY DEF Explained, Copy
<1> QED
  BY <1>1, <1>2 DEF Copies

LEMMA CopiesStart == Init => Copies
<1> SUFFICES ASSUME Init PROVE Copies
  OBVIOUS
<1>1. PICK bound \in Instances :
        /\ \A c \in Clients : host.seat[c] # "seated" /\ host.batch[c] = <<>>
        /\ host.listed = bound.members
        /\ client = [c \in Clients |-> IF c \in bound.members THEN "waiting" ELSE "out"]
        /\ view = [c \in Watched |-> IF c \in bound.members THEN bound.members ELSE {}]
  BY DEF Init
<1>2. Seated(host) = {}
  BY <1>1 DEF Seated
<1>3. ASSUME NEW c \in Watched PROVE Explained(host, c, unheard[c])
  <2>1. Copy(host, c) = view[c] /\ view[c] \subseteq host.listed
    BY <1>1, UnsaidIs, ClientsAssumption
  <2> QED BY <2>1 DEF Explained
<1>4. \A c \in Watched : client[c] = "out" => view[c] = {}
  BY <1>1, ClientsAssumption
<1> QED
  BY <1>1, <1>2, <1>3, <1>4 DEF Copies, Owed

\* What it says, one by one.
LEMMA CopiesGive ==
  ASSUME Copies
  PROVE  /\ \A c \in Clients : /\ c \notin Seated(host) => host.batch[c] = <<>>
                               /\ ~inFrame => host.batch[c] = <<>>
                               /\ c \in Seated(host) \ host.overtaken => host.link[c] # "dialling"
         /\ \A c \in Watched : /\ Owed(host, c, {})
                               /\ client[c] = "out" => view[c] = {}
                               /\ client[c] \notin {"out", "gone"} => Explained(host, c, unheard[c])
  BY DEF Copies

\* A step between frames.
LEMMA CopiesBetween ==
  ASSUME Copies, ~inFrame, ~inFrame', unheard' = unheard,
         host'.seat = host.seat, host'.listed = host.listed, host'.fresh = host.fresh, host'.changed = host.changed,
         host'.crossed = host.crossed, host'.overtaken = host.overtaken, host'.batch = host.batch,
         host.listed \subseteq Clients,
         \A x \in Clients :
           /\ client[x] = "gone" => client'[x] = "gone"
           /\ host'.link[x] = "up" => host.link[x] \in {"up", "dialling"}
           /\ host'.link[x] = "dialling" => host.link[x] = "dialling",
         \A c \in Watched :
           /\ view'[c] \subseteq view[c]
           /\ host'.link[c] = "up" => \A d \in view[c] \ view'[c] : client[d] = "gone"
           /\ client'[c] = "out" => client[c] = "out"
  PROVE  Copies'
<1>1. Seated(host') = Seated(host)
  BY DEF Seated
<1>5. \A c \in Clients : /\ host.batch[c] = <<>>
                         /\ c \in Seated(host) \ host.overtaken => host.link[c] # "dialling"
  BY CopiesGive
<1>6. \A c \in Watched : /\ Owed(host, c, {})
                         /\ client[c] = "out" => view[c] = {}
                         /\ client[c] \notin {"out", "gone"} => Explained(host, c, unheard[c])
  BY CopiesGive
<1>2. \A c \in Clients : host.batch[c] = <<>>
  BY <1>5
<1>3. ASSUME NEW c \in Clients
      PROVE  /\ host'.batch[c] = <<>>
             /\ c \in Seated(host') \ host'.overtaken => host'.link[c] # "dialling"
  BY <1>1, <1>2, <1>5
<1>4. ASSUME NEW c \in Watched
      PROVE  /\ c \in Seated(host') \ (host'.overtaken \cup host'.fresh.syncs) /\ host'.link[c] = "up" =>
                  \A d \in host'.listed : \/ client'[d] = "gone" \/ d \in host'.changed
                                          \/ d \in InTurn(ApplyLobbyState, view'[c], host'.batch[c])
             /\ client'[c] = "out" => view'[c] = {}
             /\ client'[c] \notin {"out", "gone"} =>
                  /\ view'[c] \subseteq host'.listed \cup unheard'[c] \cup host'.crossed \cup host'.overtaken \cup RemovesFor(host', c)
                  /\ InTurn(ApplyLobbyState, view'[c], host'.batch[c])
                       \subseteq host'.listed \cup unheard'[c] \cup host'.crossed \cup host'.overtaken
  <2>1. c \in Clients /\ host.batch[c] = <<>> /\ host'.batch[c] = <<>>
    BY <1>2, ClientsAssumption
  <2>2. InTurn(ApplyLobbyState, view'[c], host'.batch[c]) = view'[c]
    BY <2>1, CopyOfNothing
  <2>3. Copy(host, c) = view[c]
    BY <2>1, UnsaidIs
  <2>4. c \in Seated(host') \ (host'.overtaken \cup host'.fresh.syncs) /\ host'.link[c] = "up" =>
          \A d \in host'.listed : client'[d] = "gone" \/ d \in host'.changed \/ d \in view'[c]
    <3> SUFFICES ASSUME c \in Seated(host') \ (host'.overtaken \cup host'.fresh.syncs), host'.link[c] = "up",
                        NEW d \in host'.listed
                 PROVE  client'[d] = "gone" \/ d \in host'.changed \/ d \in view'[c]
      OBVIOUS
    <3>1. host.link[c] = "up"
      BY <1>1, <1>5, <2>1
    <3>2. client[d] = "gone" \/ d \in host.changed \/ d \in view[c]
      BY <1>1, <1>6, <2>3, <3>1 DEF Owed
    <3> QED BY <3>2
  <2>5. client'[c] \notin {"out", "gone"} =>
          view'[c] \subseteq host'.listed \cup unheard'[c] \cup host'.crossed \cup host'.overtaken
    <3>1. CASE client[c] \in {"out", "gone"}
      BY <1>6, <2>1, <3>1
    <3>2. CASE client[c] \notin {"out", "gone"}
      <4>1. view[c] \subseteq host.listed \cup unheard[c] \cup host.crossed \cup host.overtaken
        BY <1>6, <2>3, <3>2 DEF Explained
      <4> QED BY <4>1
    <3> QED BY <3>1, <3>2
  <2>6. client'[c] = "out" => view'[c] = {}
    BY <1>6
  <2> QED BY <2>2, <2>4, <2>5, <2>6
<1> QED
  BY <1>3, <1>4, CopiesNext

\* A step that changes none of it, or begins a frame.
LEMMA CopiesSame ==
  ASSUME Copies, host' = host, client' = client, view' = view, unheard' = unheard, ~inFrame' => ~inFrame
  PROVE  Copies'
<1>1. \A c \in Clients : /\ c \notin Seated(host) => host.batch[c] = <<>>
                         /\ ~inFrame => host.batch[c] = <<>>
                         /\ c \in Seated(host) \ host.overtaken => host.link[c] # "dialling"
  BY CopiesGive
<1>2. \A c \in Watched : /\ Owed(host, c, {})
                         /\ client[c] = "out" => view[c] = {}
                         /\ client[c] \notin {"out", "gone"} => Explained(host, c, unheard[c])
  BY CopiesGive
<1>3. \A c \in Clients : /\ c \notin Seated(host') \/ ~inFrame' => host'.batch[c] = <<>>
                         /\ c \in Seated(host') \ host'.overtaken => host'.link[c] # "dialling"
  BY <1>1
<1>4. ASSUME NEW c \in Watched
      PROVE  /\ c \in Seated(host') \ (host'.overtaken \cup host'.fresh.syncs) /\ host'.link[c] = "up" =>
                  \A d \in host'.listed : \/ client'[d] = "gone" \/ d \in host'.changed
                                          \/ d \in InTurn(ApplyLobbyState, view'[c], host'.batch[c])
             /\ client'[c] = "out" => view'[c] = {}
             /\ client'[c] \notin {"out", "gone"} =>
                  /\ view'[c] \subseteq host'.listed \cup unheard'[c] \cup host'.crossed \cup host'.overtaken \cup RemovesFor(host', c)
                  /\ InTurn(ApplyLobbyState, view'[c], host'.batch[c])
                       \subseteq host'.listed \cup unheard'[c] \cup host'.crossed \cup host'.overtaken
  <2>1. /\ Owed(host, c, {})
        /\ client[c] = "out" => view[c] = {}
        /\ client[c] \notin {"out", "gone"} => Explained(host, c, unheard[c])
    BY <1>2
  <2>2. c \in Seated(host) \ (host.overtaken \cup host.fresh.syncs) /\ host.link[c] = "up" =>
          \A d \in host.listed : client[d] = "gone" \/ d \in host.changed \/ d \in InTurn(ApplyLobbyState, view[c], host.batch[c])
    BY <2>1 DEF Owed, Copy
  <2>3. client[c] \notin {"out", "gone"} =>
          /\ view[c] \subseteq host.listed \cup unheard[c] \cup host.crossed \cup host.overtaken \cup RemovesFor(host, c)
          /\ InTurn(ApplyLobbyState, view[c], host.batch[c]) \subseteq host.listed \cup unheard[c] \cup host.crossed \cup host.overtaken
    BY <2>1 DEF Explained, Copy
  <2> QED BY <1>2, <2>2, <2>3
<1> QED
  BY <1>3, <1>4, CopiesNext

LEMMA CopiesFlushed ==
  ASSUME RosterInv, Copies, EndFrame
  PROVE  Copies'
<1>1. host \in Hosts /\ InOrderOf(host) /\ client \in [Clients -> ClientStates]
  BY DEF RosterInv, InOrderOf, RestOK
<1>2. /\ host'.seat = host.seat /\ host'.listed = host.listed /\ host'.fresh = host.fresh /\ host'.changed = host.changed
      /\ host'.crossed = host.crossed /\ host'.overtaken = host.overtaken
      /\ host'.batch = [c \in Clients |-> <<>>]
      /\ \A c \in Clients : host'.link[c] = IF c \in Ended THEN "broken" ELSE host.link[c]
  BY <1>1, EndFrameIs
<1>3. /\ client' = [c \in Clients |-> IF c \in Ended THEN "gone" ELSE IF c \in Reached THEN "in" ELSE client[c]]
      /\ view' = [c \in Watched |->
                   IF c \in Ended THEN {}
                   ELSE IF c \in Arrives THEN InTurn(ApplyLobbyState, view[c], host.batch[c]) ELSE view[c]]
      /\ unheard' = [c \in Watched |-> IF c \in Arrives THEN unheard[c] ELSE unheard[c] \cup RemovesFor(host, c)]
  BY <1>1, EndFrameIs
<1>4. /\ \A c \in Reached : c \in Arrives /\ client[c] = "waiting"
      /\ \A c \in Clients : c \in Arrives <=> host.link[c] = "up"
  BY DEF Reached, Arrives
<1>5. Seated(host') = Seated(host)
  BY <1>2 DEF Seated
<1>6. \A c \in Clients : c \in Seated(host) \ host.overtaken => host.link[c] # "dialling"
  BY CopiesGive
<1>7. \A c \in Clients : /\ c \notin Seated(host') \/ ~inFrame' => host'.batch[c] = <<>>
                         /\ c \in Seated(host') \ host'.overtaken => host'.link[c] # "dialling"
  BY <1>2, <1>5, <1>6
<1>8. ASSUME NEW c \in Watched
      PROVE  /\ c \in Seated(host') \ (host'.overtaken \cup host'.fresh.syncs) /\ host'.link[c] = "up" =>
                  \A d \in host'.listed : \/ client'[d] = "gone" \/ d \in host'.changed
                                          \/ d \in InTurn(ApplyLobbyState, view'[c], host'.batch[c])
             /\ client'[c] = "out" => view'[c] = {}
             /\ client'[c] \notin {"out", "gone"} =>
                  /\ view'[c] \subseteq host'.listed \cup unheard'[c] \cup host'.crossed \cup host'.overtaken \cup RemovesFor(host', c)
                  /\ InTurn(ApplyLobbyState, view'[c], host'.batch[c])
                       \subseteq host'.listed \cup unheard'[c] \cup host'.crossed \cup host'.overtaken
  <2>1. /\ c \in Clients /\ host'.batch[c] = <<>>
        /\ host'.link[c] = IF c \in Ended THEN "broken" ELSE host.link[c]
    BY <1>2, ClientsAssumption
  <2>2. InTurn(ApplyLobbyState, view'[c], host'.batch[c]) = view'[c]
    BY <2>1, CopyOfNothing
  <2>3. /\ view'[c] = IF c \in Ended THEN {} ELSE IF c \in Arrives THEN Copy(host, c) ELSE view[c]
        /\ client'[c] = IF c \in Ended THEN "gone" ELSE IF c \in Reached THEN "in" ELSE client[c]
        /\ unheard'[c] = IF c \in Arrives THEN unheard[c] ELSE unheard[c] \cup RemovesFor(host, c)
    BY <1>3, <2>1 DEF Copy
  <2>4. /\ Owed(host, c, {})
        /\ client[c] = "out" => view[c] = {}
        /\ client[c] \notin {"out", "gone"} => Explained(host, c, unheard[c])
        /\ c \notin Seated(host) => host.batch[c] = <<>>
    BY <2>1, CopiesGive
  <2>5. c \in Seated(host') \ (host'.overtaken \cup host'.fresh.syncs) /\ host'.link[c] = "up" =>
          \A d \in host'.listed : client'[d] = "gone" \/ d \in host'.changed \/ d \in view'[c]
    <3> SUFFICES ASSUME c \in Seated(host') \ (host'.overtaken \cup host'.fresh.syncs), host'.link[c] = "up",
                        NEW d \in host'.listed
                 PROVE  client'[d] = "gone" \/ d \in host'.changed \/ d \in view'[c]
      OBVIOUS
    <3>1. c \notin Ended /\ host.link[c] = "up" /\ c \in Arrives
      BY <1>4, <2>1
    <3>2. client[d] = "gone" \/ d \in host.changed \/ d \in Copy(host, c)
      BY <1>2, <1>5, <2>4, <3>1 DEF Owed
    <3>3. d \in Clients
      BY <1>1, <1>2, HostFields
    <3>4. client[d] = "gone" => client'[d] = "gone"
      BY <1>3, <1>4, <3>3
    <3> QED BY <1>2, <2>3, <3>1, <3>2, <3>4
  <2>6. client'[c] = "out" => view'[c] = {}
    <3> SUFFICES ASSUME client'[c] = "out" PROVE view'[c] = {}
      OBVIOUS
    <3>1. client[c] = "out" /\ c \notin Ended
      BY <2>3
    <3>2. c \notin Seated(host)
      BY <2>1, <3>1 DEF RosterInv, Newcomers, Unheard, Unknown, Seated
    <3>3. Copy(host, c) = view[c] /\ view[c] = {}
      BY <2>4, <3>1, <3>2, UnsaidIs
    <3> QED BY <2>3, <3>1, <3>3
  <2>7. client'[c] \notin {"out", "gone"} =>
          view'[c] \subseteq host'.listed \cup unheard'[c] \cup host'.crossed \cup host'.overtaken
    <3> SUFFICES ASSUME client'[c] \notin {"out", "gone"}
                 PROVE  view'[c] \subseteq host.listed \cup unheard'[c] \cup host.crossed \cup host.overtaken
      BY <1>2
    <3>1. c \notin Ended /\ client[c] \notin {"out", "gone"}
      BY <1>4, <2>3
    <3>2. /\ view[c] \subseteq host.listed \cup unheard[c] \cup host.crossed \cup host.overtaken \cup RemovesFor(host, c)
          /\ Copy(host, c) \subseteq host.listed \cup unheard[c] \cup host.crossed \cup host.overtaken
      BY <2>4, <3>1 DEF Explained
    <3>3. CASE c \in Arrives
      BY <2>3, <3>1, <3>2, <3>3
    <3>4. CASE c \notin Arrives
      BY <2>3, <3>1, <3>2, <3>4
    <3> QED BY <3>3, <3>4
  <2> QED BY <2>2, <2>5, <2>6, <2>7
<1> QED
  BY <1>7, <1>8, CopiesNext

LEMMA CopiesUpdated ==
  ASSUME RosterInv, Copies, RosterInv', Update
  PROVE  Copies'
<1>1. PICK systems \in SUBSET Systems : \E order \in SetToSeqs(systems) : \E stale : Stretch(order, stale)
  BY DEF Update
<1>2. PICK order \in SetToSeqs(systems) : \E stale : Stretch(order, stale)
  BY <1>1
<1>3. PICK stale : Stretch(order, stale)
  BY <1>2
<1>4. inFrame /\ inFrame' /\ client' = client /\ view' = view
  BY DEF Update, clientVars
<1>5. /\ host \in Hosts /\ host' \in Hosts /\ \A x \in Clients : Timely(host, x)
  BY DEF RosterInv, InOrderOf
<1> DEFINE Calm(v) == \A c \in Clients : /\ c \notin Seated(v) => v.batch[c] = <<>>
                                         /\ c \in Seated(v) \ v.overtaken => v.link[c] # "dialling"
           J == {v \in Hosts : Calm(v)}
           b == AtOnce(systems, stale)
<1>6. b \in J
  <2>1. b \in Hosts /\ b.seat = host.seat /\ b.batch = host.batch /\ b.overtaken = host.overtaken
    BY <1>5, AtOnceIs
  <2>2. ASSUME NEW c \in Clients, c \in Seated(host) \ host.overtaken PROVE b.link[c] # "dialling"
    <3>1. host.seat[c] = "seated" /\ host.link[c] # "dialling"
      BY <2>2, CopiesGive DEF Seated
    <3>2. c \notin Dialled(stale) /\ c \notin Read("joined")
      BY <3>1 DEF Dialled, Dropped, Has, Read, RosterInv, Newcomers, Unheard, Unknown
    <3> DEFINE dialled == (IF "redial" \in systems THEN Dialled(stale) ELSE {})
                            \cup (IF "events" \in systems THEN Read("joined") ELSE {})
    <3>3. c \notin dialled
      BY <3>2
    <3>4. b.link[c] \in {"none", host.link[c]}
      BY <1>5, <3>3, LinksAtOnce
    <3> QED BY <3>1, <3>4
  <2> HIDE DEF b
  <2>3. Seated(b) = Seated(host)
    BY <2>1 DEF Seated
  <2>4. \A c \in Clients : c \notin Seated(host) => host.batch[c] = <<>>
    BY CopiesGive
  <2> QED BY <2>1, <2>2, <2>3, <2>4
<1>7. ASSUME NEW s \in systems, NEW k \in Meant(s, stale), NEW v \in Hosts,
             v \in J, Do(v, k) \in Hosts, Says(v, k, Do(v, k))
      PROVE  Do(v, k) \in J
  <2> DEFINE r == Do(v, k)
  <2>1. Sound(v, r) /\ Calm(v) /\ r \in Hosts
    BY <1>7 DEF Says
  <2> HIDE DEF r
  <2>2. Calm(r)
    BY <2>1 DEF Sound
  <2> QED BY <2>1, <2>2 DEF r
<1> HIDE DEF b, J
<1>8. host' \in J
  BY <1>3, <1>6, <1>7, StretchHolds DEF b
<1>9. Calm(host')
  BY <1>8 DEF J
<1>12. \A c \in Clients : /\ c \notin Seated(host') => host'.batch[c] = <<>>
                          /\ c \in Seated(host') \ host'.overtaken => host'.link[c] # "dialling"
  BY <1>9
<1> HIDE DEF Calm
<1>10. \A c \in Clients : /\ c \notin Seated(host') \/ ~inFrame' => host'.batch[c] = <<>>
                          /\ c \in Seated(host') \ host'.overtaken => host'.link[c] # "dialling"
  BY <1>4, <1>12, Zenon
<1>11. ASSUME NEW c \in Watched
       PROVE  /\ c \in Seated(host') \ (host'.overtaken \cup host'.fresh.syncs) /\ host'.link[c] = "up" =>
                   \A d \in host'.listed : \/ client'[d] = "gone" \/ d \in host'.changed
                                           \/ d \in InTurn(ApplyLobbyState, view'[c], host'.batch[c])
              /\ client'[c] = "out" => view'[c] = {}
              /\ client'[c] \notin {"out", "gone"} =>
                   /\ view'[c] \subseteq host'.listed \cup unheard'[c] \cup host'.crossed \cup host'.overtaken \cup RemovesFor(host', c)
                   /\ InTurn(ApplyLobbyState, view'[c], host'.batch[c])
                        \subseteq host'.listed \cup unheard'[c] \cup host'.crossed \cup host'.overtaken
  <2>1. /\ Owed(host, c, {})
        /\ client[c] = "out" => view[c] = {}
        /\ client[c] \notin {"out", "gone"} => Explained(host, c, unheard[c])
        /\ c \notin Seated(host) => host.batch[c] = <<>>
    BY CopiesGive, ClientsAssumption
  <2>2. Owed(host', c, {})
    BY <1>3, <2>1, StretchSettles
  <2>3. client[c] \notin {"out", "gone"} => Explained(host', c, unheard'[c])
    BY <1>3, <1>5, <2>1, StretchExplains
  <2>4. c \in Seated(host') \ (host'.overtaken \cup host'.fresh.syncs) /\ host'.link[c] = "up" =>
          \A d \in host'.listed : \/ client[d] = "gone" \/ d \in host'.changed
                                  \/ d \in InTurn(ApplyLobbyState, view[c], host'.batch[c])
    BY <2>2 DEF Owed, Copy
  <2>5. client[c] \notin {"out", "gone"} =>
          /\ view[c] \subseteq host'.listed \cup unheard'[c] \cup host'.crossed \cup host'.overtaken \cup RemovesFor(host', c)
          /\ InTurn(ApplyLobbyState, view[c], host'.batch[c]) \subseteq host'.listed \cup unheard'[c] \cup host'.crossed \cup host'.overtaken
    BY <2>3 DEF Explained, Copy
  <2> QED BY <1>4, <2>1, <2>4, <2>5
<1> QED
  BY <1>10, <1>11, CopiesNext

LEMMA RelinkedIs ==
  ASSUME host \in Hosts, NEW c \in Clients, NEW to, host' = [host EXCEPT !.link[c] = to]
  PROVE  /\ host'.seat = host.seat /\ host'.listed = host.listed /\ host'.fresh = host.fresh /\ host'.changed = host.changed
         /\ host'.crossed = host.crossed /\ host'.overtaken = host.overtaken /\ host'.batch = host.batch
         /\ host'.link[c] = to /\ \A x \in Clients : x # c => host'.link[x] = host.link[x]
<1> DEFINE l == [host.link EXCEPT ![c] = to]
           r == [host EXCEPT !.link = l]
<1>1. host' = r
  BY DEF Hosts
<1>2. l[c] = to /\ \A x \in Clients : x # c => l[x] = host.link[x]
  BY HostFields
<1> HIDE DEF l
<1>3. /\ r.seat = host.seat /\ r.listed = host.listed /\ r.fresh = host.fresh /\ r.changed = host.changed
      /\ r.crossed = host.crossed /\ r.overtaken = host.overtaken /\ r.batch = host.batch /\ r.link = l
  BY DEF Hosts
<1> HIDE DEF r
<1> QED
  BY <1>1, <1>2, <1>3

\* What a client does, or its link, between two frames.
LEMMA CopiesClient ==
  ASSUME RosterInv, Copies, NEW c \in Clients,
         \/ JoinLobby(c) \/ Connect(c) \/ LinkBreaks(c) \/ LinkCloses(c) \/ LeaveLobby(c) \/ NoticesTheBreak(c)
  PROVE  Copies'
<1>1. /\ host \in Hosts /\ host.listed \subseteq Clients
      /\ client \in [Clients -> ClientStates] /\ view \in [Watched -> SUBSET Clients]
  BY HostFields DEF RosterInv, InOrderOf, RestOK
<1>2. ~inFrame /\ ~inFrame'
  BY DEF JoinLobby, Connect, LinkBreaks, LinkCloses, LeaveLobby, NoticesTheBreak, Between, AtRest, frameVars
<1>3. ASSUME NEW to, host' = [host EXCEPT !.link[c] = to],
             to = "up" => host.link[c] = "dialling", to # "dialling",
             client' = client \/ (client[c] # "gone" /\ \E s \in {"in", "waiting"} : client' = [client EXCEPT ![c] = s]),
             view' = view, unheard' = unheard
      PROVE  Copies'
  <2>1. /\ host'.seat = host.seat /\ host'.listed = host.listed /\ host'.fresh = host.fresh /\ host'.changed = host.changed
        /\ host'.crossed = host.crossed /\ host'.overtaken = host.overtaken /\ host'.batch = host.batch
        /\ host'.link[c] = to /\ \A x \in Clients : x # c => host'.link[x] = host.link[x]
    BY <1>1, <1>3, RelinkedIs
  <2>2. \A x \in Clients : /\ client[x] = "gone" => client'[x] = "gone"
                           /\ client'[x] = "out" => client[x] = "out"
    BY <1>1, <1>3
  <2>3. \A x \in Clients : /\ host'.link[x] = "up" => host.link[x] \in {"up", "dialling"}
                           /\ host'.link[x] = "dialling" => host.link[x] = "dialling"
    BY <1>3, <2>1
  <2> QED BY <1>1, <1>2, <1>3, <2>1, <2>2, <2>3, CopiesBetween, ClientsAssumption
<1>4. ASSUME Leaves(c), \/ host' = host /\ host.link[c] \notin {"up", "closing"}
                        \/ \E to : host' = [host EXCEPT !.link[c] = to] /\ to \notin {"up", "dialling"}
      PROVE  Copies'
  <2>1. /\ host'.seat = host.seat /\ host'.listed = host.listed /\ host'.fresh = host.fresh /\ host'.changed = host.changed
        /\ host'.crossed = host.crossed /\ host'.overtaken = host.overtaken /\ host'.batch = host.batch
        /\ host'.link[c] # "up" /\ (host'.link[c] = "dialling" => host.link[c] = "dialling")
        /\ \A x \in Clients : x # c => host'.link[x] = host.link[x]
    BY <1>1, <1>4, RelinkedIs
  <2>2. /\ client' = [client EXCEPT ![c] = "gone"] /\ view' = [d \in Watched |-> IF d = c THEN {} ELSE view[d]]
        /\ unheard' = unheard
    BY <1>4 DEF Leaves
  <2>3. \A x \in Clients : /\ client[x] = "gone" => client'[x] = "gone"
                           /\ client'[x] = "out" => client[x] = "out"
    BY <1>1, <2>2
  <2>4. \A x \in Clients : /\ host'.link[x] = "up" => host.link[x] \in {"up", "dialling"}
                           /\ host'.link[x] = "dialling" => host.link[x] = "dialling"
    BY <2>1
  <2>5. \A x \in Watched : /\ view'[x] \subseteq view[x]
                           /\ host'.link[x] = "up" => \A d \in view[x] \ view'[x] : client[d] = "gone"
    BY <2>1, <2>2
  <2> QED BY <1>1, <1>2, <2>1, <2>2, <2>3, <2>4, <2>5, CopiesBetween, ClientsAssumption
<1>5. CASE JoinLobby(c)
  <2>1. /\ client[c] = "out" /\ client' = [client EXCEPT ![c] = "joining"] /\ host' = host
        /\ view' = view /\ unheard' = unheard
    BY <1>5 DEF JoinLobby
  <2>2. \A x \in Clients : /\ client[x] = "gone" => client'[x] = "gone"
                           /\ client'[x] = "out" => client[x] = "out"
    BY <1>1, <2>1
  <2> QED BY <1>1, <1>2, <2>1, <2>2, CopiesBetween, ClientsAssumption
<1>6. CASE Connect(c)
  <2>1. /\ host.link[c] = "dialling" /\ host' = [host EXCEPT !.link[c] = "up"] /\ client[c] \in {"joining", "waiting"}
        /\ client' = [client EXCEPT ![c] = IF @ = "joining" THEN "in" ELSE @]
        /\ view' = view /\ unheard' = unheard
    BY <1>6 DEF Connect
  <2>2. \E s \in {"in", "waiting"} : client' = [client EXCEPT ![c] = s]
    BY <2>1
  <2>3. client[c] # "gone"
    BY <2>1
  <2> QED BY <1>3, <2>1, <2>2, <2>3
<1>7. CASE LinkBreaks(c)
  BY <1>3, <1>7 DEF LinkBreaks, clientVars
<1>8. CASE LinkCloses(c)
  <2>1. host' = [host EXCEPT !.link[c] = "none"]
    BY <1>8 DEF LinkCloses
  <2>2. CASE client' = client /\ view' = view /\ unheard' = unheard
    BY <1>3, <2>1, <2>2
  <2>3. CASE Leaves(c)
    <3>1. \E to : host' = [host EXCEPT !.link[c] = to] /\ to \notin {"up", "dialling"}
      <4> DEFINE to == "none"
      <4>1. host' = [host EXCEPT !.link[c] = to] /\ to \notin {"up", "dialling"}
        BY <2>1
      <4> HIDE DEF to
      <4> QED BY <4>1
    <3> QED BY <1>4, <2>3, <3>1
  <2> QED BY <1>8, <2>2, <2>3 DEF LinkCloses, clientVars
<1>9. CASE LeaveLobby(c)
  <2> DEFINE to == IF host.link[c] \in {"dialling", "up"} THEN "broken" ELSE "none"
  <2>1. host' = [host EXCEPT !.link[c] = to] /\ Leaves(c)
    BY <1>9 DEF LeaveLobby
  <2>2. to \notin {"up", "dialling"}
    OBVIOUS
  <2> HIDE DEF to
  <2> QED BY <1>4, <2>1, <2>2
<1>10. CASE NoticesTheBreak(c)
  <2>1. host' = host /\ host.link[c] \notin {"up", "closing"} /\ client[c] = "in"
    BY <1>10 DEF NoticesTheBreak
  <2>2. CASE client' = [client EXCEPT ![c] = "waiting"] /\ view' = view /\ unheard' = unheard
    <3>1. \A x \in Clients : /\ client[x] = "gone" => client'[x] = "gone"
                             /\ client'[x] = "out" => client[x] = "out"
      BY <1>1, <2>1, <2>2
    <3> QED BY <1>1, <1>2, <2>1, <2>2, <3>1, CopiesBetween, ClientsAssumption
  <2>3. CASE Leaves(c)
    BY <1>4, <2>1, <2>3
  <2> QED BY <1>10, <2>2, <2>3 DEF NoticesTheBreak
<1> QED
  BY <1>5, <1>6, <1>7, <1>8, <1>9, <1>10

LEMMA CopiesHear ==
  ASSUME RosterInv, Copies, NEW c \in Watched, HearsADeparture(c)
  PROVE  Copies'
<1>1. /\ host \in Hosts /\ host.listed \subseteq Clients /\ view \in [Watched -> SUBSET Clients]
  BY HostFields DEF RosterInv, InOrderOf, RestOK
<1>2. ~inFrame /\ ~inFrame' /\ host' = host /\ client' = client /\ unheard' = unheard
  BY DEF HearsADeparture, Between, AtRest, frameVars
<1>3. PICK gone \in view[c] : client[gone] = "gone" /\ view' = [view EXCEPT ![c] = @ \ {gone}]
  BY DEF HearsADeparture
<1>4. \A x \in Watched : /\ view'[x] \subseteq view[x]
                         /\ \A d \in view[x] \ view'[x] : client[d] = "gone"
  BY <1>1, <1>3
<1> QED
  BY <1>1, <1>2, <1>4, CopiesBetween

LEMMA CopiesStay == RosterInv /\ RosterInv' /\ BoundsOK /\ Copies /\ [Next]_vars => Copies'
<1> SUFFICES ASSUME RosterInv, RosterInv', BoundsOK, Copies, [Next]_vars PROVE Copies'
  OBVIOUS
<1>1. bounds.players \subseteq Clients
  BY BoundAssumption DEF BoundsOK
<1>2. CASE UNCHANGED vars
  BY <1>2, CopiesSame DEF vars, frameVars, clientVars
<1>3. CASE BeginFrame
  <2>1. ~inFrame /\ host' = host /\ client' = client /\ view' = view /\ unheard' = unheard
    BY <1>3 DEF BeginFrame, AtRest, clientVars
  <2> QED BY <2>1, CopiesSame
<1>4. CASE Update
  BY <1>4, CopiesUpdated
<1>5. CASE EndFrame
  BY <1>5, CopiesFlushed
<1>6. ASSUME NEW c \in Clients,
             \/ JoinLobby(c) \/ Connect(c) \/ LinkBreaks(c) \/ LinkCloses(c) \/ LeaveLobby(c) \/ NoticesTheBreak(c)
      PROVE  Copies'
  BY <1>6, CopiesClient
<1>7. ASSUME NEW c \in Watched, HearsADeparture(c) PROVE Copies'
  BY <1>7, CopiesHear
<1> QED
  BY <1>1, <1>2, <1>3, <1>4, <1>5, <1>6, <1>7 DEF Next

\* Every copy is, or will be by the batch that is on its way, complete but for what has
\* changed, and what it shows beyond the roster is explained.
THEOREM CopiesAreOwed == Spec => []Copies
<1>1. BoundsOK /\ RosterInv /\ (BoundsOK /\ RosterInv)' /\ Copies /\ [Next]_vars => Copies'
  BY CopiesStay
<1> QED
  BY <1>1, CopiesStart, RosterStaysRight, PTL DEF Spec

\* No client that has heard all there is to hear is without a participant the host has:
\* whatever sync_existing_participants_to_new_lobby_clients and
\* broadcast_changed_lobby_participants raced with, one of them told it.
THEOREM NobodyIsLeftOut == Spec => []NobodyIsMissing
<1>1. Copies => NobodyIsMissing
  <2> SUFFICES ASSUME Copies, NEW c \in Watched \ host.overtaken, Settled(c),
                      NEW d \in host.listed, client[d] # "gone"
               PROVE  d \in view[c]
    BY DEF NobodyIsMissing
  <2>1. /\ ~inFrame /\ host.link[c] = "up" /\ c \in Seated(host) \ (host.overtaken \cup host.fresh.syncs)
        /\ host.changed = {} /\ c \in Clients
    BY ClientsAssumption DEF Settled, AtRest, Seated
  <2>2. Copy(host, c) = view[c]
    BY <2>1, CopiesGive, UnsaidIs
  <2>3. Owed(host, c, {})
    BY CopiesGive
  <2> QED BY <2>1, <2>2, <2>3 DEF Owed
<1> QED
  BY <1>1, CopiesAreOwed, PTL

\* Whoever a client shows that the host does not went while that client had no seat or
\* no link, or was announced to it behind their removal.
THEOREM GhostsAreExplained == Spec => []GhostsWereMissed
<1>1. Copies => GhostsWereMissed
  <2> SUFFICES ASSUME Copies, NEW c \in Watched, Settled(c)
               PROVE  view[c] \subseteq host.listed \cup unheard[c] \cup host.crossed \cup host.overtaken
    BY DEF GhostsWereMissed
  <2>1. ~inFrame /\ client[c] = "in" /\ c \in Clients
    BY ClientsAssumption DEF Settled, AtRest
  <2>2. Copy(host, c) = view[c]
    BY <2>1, CopiesGive, UnsaidIs
  <2>3. Explained(host, c, unheard[c])
    BY <2>1, CopiesGive
  <2> QED BY <2>2, <2>3 DEF Explained
<1> QED
  BY <1>1, CopiesAreOwed, PTL
==============================================================================
