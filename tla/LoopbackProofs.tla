---------------------------- MODULE LoopbackProofs -----------------------------
(***************************************************************************)
(* The loopback network, for every number of peers, calls, packets and     *)
(* links.                                                                  *)
(*                                                                         *)
(* First the seats: whoever the arbiter names has one seat for each client *)
(* attached to it, through every legal sequence of calls.  Seats are given *)
(* and taken by the call that changes what they follow, so that each call  *)
(* is a lemma, most of them instances of a few: one peer is put off        *)
(* (OffKeeps), given the seat it has not (GivenKeeps), comes (OneComes),   *)
(* or changes with no seat at stake (OneChanges).                          *)
(*                                                                         *)
(* Then the wire: what the trace says of a packet is what became of it.    *)
(* A call drops some of what is under way and cuts the ways it closes      *)
(* (CallKeeps, OneCut); a packet is given its fate (FateKeeps, for each    *)
(* fate by LoseKeeps, ReliableKeeps and UnreliableKeeps); and what is due  *)
(* can be listed in the order it arrives (InOrder, HandedIs), which is     *)
(* what an advance hands over (AdvanceOnWire).                             *)
(***************************************************************************)
EXTENDS Loopback, SequenceProofs

------------------------------------------------------------------------------
\* The inductive invariant

\* Attached both ways, or that the host still hears of.
Both == {"connected", "halfOpen"}

\* The types of what the seats depend on.
Typed ==
  /\ bounds \in Instances
  /\ peers \in Seq(Peer) /\ Len(peers) <= bounds.peers
  /\ past \in Pasts /\ lost \in {None} \cup Here /\ spawned \in Nat

\* One peer at most is the host, and it hosts in its world, unless it does not know
\* who it is or its lobby is over; where a host was lost there is none.
OneHost == \A p, q \in Here : peers[p].isHost /\ peers[q].isHost => p = q
HostHosts ==
  \A p \in Here : peers[p].isHost =>
    /\ peers[p].at # "left"
    /\ peers[p].hosts \/ ~peers[p].knows \/ peers[p].lobby = "over"
LostIsNoHost == lost # None => \A p \in Here : ~peers[p].isHost
\* Only who is or was host has seats: whoever is named begins with none.
NoSeatsYet ==
  \A p \in Here : ~peers[p].isHost /\ p \notin past.replaced /\ p # lost => peers[p].seats = {}
\* A seat is of a peer that was added.
SeatsOfPeers == \A p \in Here : \A s \in peers[p].seats : s.of \in Here
\* In the world of h: one seat of x at most, one only if x is attached, and one if x
\* is and neither was left out when h was named nor hosted before it.
WellSeated(h, x) ==
  /\ \A s, t \in peers[h].seats : s.of = x /\ t.of = x => s = t
  /\ (\E s \in peers[h].seats : s.of = x) =>
       IF h = x THEN peers[x].at # "pending" ELSE peers[x].at \in Both
  /\ h # x /\ peers[x].at \in Both /\ x \notin past.unseated \cup past.replaced =>
       \E s \in peers[h].seats : s.of = x
\* A host that hosts in its world, and for the first time.
Settled(h) == peers[h].isHost /\ peers[h].hosts /\ h \notin past.replaced
\* A settled host has the seats it should have.
SettledSeats == \A h, x \in Here : Settled(h) => WellSeated(h, x)
\* All there is to keep about seats.
SeatInv ==
  /\ OneHost /\ HostHosts /\ LostIsNoHost /\ NoSeatsYet /\ SeatsOfPeers /\ SettledSeats
\* The inductive invariant.
IInv == Typed /\ SeatInv

\* The fields of a peer.
LEMMA PeerFields ==
  ASSUME NEW q \in Peer
  PROVE  /\ q.at \in Attachments /\ q.isHost \in BOOLEAN /\ q.crashed \in BOOLEAN /\ q.lobby \in Lobbies
         /\ q.hosts \in BOOLEAN /\ q.waits \in Waits /\ q.knows \in BOOLEAN
         /\ q.believes \in {None} \cup Ids /\ q.seats \in SUBSET [nth : Nat, of : Ids]
BY DEF Peer

\* The peers there are have the first numbers, and none is None.
LEMMA HereIs ==
  ASSUME Typed
  PROVE  /\ Here = 1..Len(peers) /\ Len(peers) \in Nat /\ Here \subseteq Ids /\ None \notin Here
         /\ bounds.peers \in Nat
         /\ \A p \in Here : peers[p] \in Peer
<1>1. bounds.peers \in Nat
  BY BoundAssumption DEF Typed
<1> QED
  BY <1>1 DEF Typed, Here, Ids, None

\* With one host at most, the arbiter's host is the peer that is marked so.
LEMMA HostIs ==
  ASSUME Typed, OneHost
  PROVE  /\ \A p \in Here : peers[p].isHost => HasHost /\ host = p
         /\ HasHost => host \in Here /\ peers[host].isHost
<1>1. \A p \in Here : peers[p].isHost => try_host = {p}
  BY HereIs, PeerFields DEF try_host, OneHost
<1>2. \A p \in Here : p <= p
  BY HereIs
<1>3. \A p \in Here : try_host = {p} => host = p
  <2> SUFFICES ASSUME NEW p \in Here, try_host = {p} PROVE host = p
    OBVIOUS
  <2>1. p \in try_host /\ \A q \in try_host : p <= q
    BY <1>2
  <2> QED
    BY <2>1 DEF host
<1>4. HasHost => \E p \in Here : peers[p].isHost
  BY DEF HasHost, try_host
<1> QED
  BY <1>1, <1>3, <1>4 DEF HasHost

------------------------------------------------------------------------------
\* What the core does, and seats

\* What the core does of itself: seats go only with the lobby, and nobody becomes host.
Keeps(q, r) ==
  /\ r \in Peer /\ r.at = q.at /\ r.isHost = q.isHost
  /\ r.seats \subseteq q.seats /\ (q.hosts => r.hosts /\ r.seats = q.seats)
  /\ (r.hosts => q.hosts) /\ (r.knows => q.knows)

\* A session that ends has no lobby, no seats and no player.
LEMMA EndSessionIs ==
  ASSUME NEW q \in Peer
  PROVE  LET r == EndSession(q)
         IN /\ r \in Peer /\ r.at = q.at /\ r.isHost = q.isHost /\ r.lobby = "over" /\ r.hosts = FALSE
            /\ r.seats = {} /\ r.knows = FALSE
BY DEF Peer, EndSession, WithoutLobby, Lobbies, Waits

\* To wait, or to wait no more, changes nothing else.
LEMMA WaitingIs ==
  ASSUME NEW q \in Peer, NEW w \in Waits
  PROVE  Keeps(q, [q EXCEPT !.waits = w])
BY DEF Peer, Keeps

\* A peer that is told its host is lost gets no seat, and is host no more than before.
LEMMA OnHostLostKeeps ==
  ASSUME NEW q \in Peer
  PROVE  Keeps(q, OnHostLost(q))
<1>1. CASE OnHostLost(q) = q
  BY <1>1, PeerFields DEF Keeps
<1>2. CASE \E w \in Waits : OnHostLost(q) = [q EXCEPT !.waits = w]
  BY <1>2, WaitingIs
<1>3. CASE ~q.hosts /\ OnHostLost(q) = EndSession(q)
  BY <1>3, EndSessionIs, PeerFields DEF Keeps
<1> QED
  BY <1>1, <1>2, <1>3 DEF OnHostLost, Waits

\* A peer that is told of a named host keeps its seats; the one named hosts, unless it
\* has no player or its lobby is over.
LEMMA NamedIs ==
  ASSUME NEW q \in Peer, NEW me \in Ids, NEW named \in Ids
  PROVE  LET r == OnNewHostNamed(q, me, named)
         IN /\ r \in Peer /\ r.at = q.at /\ r.isHost = q.isHost /\ r.seats = q.seats
            /\ r.knows = q.knows
            /\ named # me => r.hosts = q.hosts
            /\ named = me /\ q.lobby # "none" => r.hosts \/ ~r.knows \/ r.lobby = "over"
BY DEF Peer, OnNewHostNamed, HasLobby, Lobbies, Waits

\* A peer that is added has no seats and is not host.
LEMMA NewPeerIs ==
  ASSUME NEW at \in Attachments, NEW lobby \in Lobbies, NEW h \in {None} \cup Ids
  PROVE  LET r == NewPeer(at, lobby, h)
         IN /\ r \in Peer /\ r.at = at /\ r.lobby = lobby /\ ~r.isHost /\ ~r.hosts /\ r.knows /\ r.seats = {}
BY DEF NewPeer, Peer, Waits

\* To change one peer leaves the others as they are.
LEMMA ChangedIs ==
  ASSUME NEW ps \in Seq(Peer), NEW p \in DOMAIN ps, NEW new \in Peer
  PROVE  LET r == [ps EXCEPT ![p] = new]
         IN /\ r \in Seq(Peer) /\ Len(r) = Len(ps) /\ DOMAIN r = DOMAIN ps
            /\ r[p] = new /\ \A q \in DOMAIN ps : q # p => r[q] = ps[q]
OBVIOUS

\* The seat that a call spawns for a player.
New(p) == [nth |-> spawned + 1, of |-> p]
\* The peers r are ps, but for the seats h was given.
SeatsGiven(r, ps, h, who) ==
  /\ r \in Seq(Peer) /\ Len(r) = Len(ps) /\ DOMAIN r = DOMAIN ps
  /\ \A q \in DOMAIN ps :
       /\ r[q].at = ps[q].at /\ r[q].isHost = ps[q].isHost /\ r[q].hosts = ps[q].hosts
       /\ r[q].knows = ps[q].knows /\ r[q].lobby = ps[q].lobby
       /\ r[q].seats = IF q = h THEN ps[h].seats \cup {New(p) : p \in who} ELSE ps[q].seats

\* Seat gives seats, and does nothing else.
LEMMA SeatIs ==
  ASSUME Typed, NEW ps \in Seq(Peer), Len(ps) <= bounds.peers, NEW h \in DOMAIN ps, NEW who \in SUBSET Ids
  PROVE  SeatsGiven(Seat(ps, h, who), ps, h, who)
<1> DEFINE new == ps[h].seats \cup {New(p) : p \in who}
           one == [ps[h] EXCEPT !.seats = new]
<1>1. ps[h] \in Peer /\ new \in SUBSET [nth : Nat, of : Ids]
  BY PeerFields DEF Typed, New
<1>2. /\ one \in Peer /\ one.at = ps[h].at /\ one.isHost = ps[h].isHost /\ one.hosts = ps[h].hosts
      /\ one.knows = ps[h].knows /\ one.lobby = ps[h].lobby /\ one.seats = new
  <2> HIDE DEF new
  <2> QED
    BY <1>1 DEF Peer
<1>3. Seat(ps, h, who) = [ps EXCEPT ![h] = one]
  BY DEF Seat, New
<1> HIDE DEF one, new
<1> DEFINE r == [ps EXCEPT ![h] = one]
<1>4. /\ r \in Seq(Peer) /\ Len(r) = Len(ps) /\ DOMAIN r = DOMAIN ps
      /\ r[h] = one /\ \A q \in DOMAIN ps : q # h => r[q] = ps[q]
  BY <1>2, ChangedIs
<1>5. Seat(ps, h, who) = r
  BY <1>3
<1> HIDE DEF r
<1> QED
  BY <1>2, <1>4, <1>5 DEF SeatsGiven, new

\* One seat of x less than ps has, in the world of the host.
SeatTaken(r, ps, x) ==
  /\ r \in Seq(Peer) /\ Len(r) = Len(peers)
  /\ \A q \in Here :
       /\ r[q].at = ps[q].at /\ r[q].isHost = ps[q].isHost /\ r[q].hosts = ps[q].hosts
       /\ r[q].knows = ps[q].knows /\ r[q].lobby = ps[q].lobby
       /\ r[q].seats \subseteq ps[q].seats
       /\ \A s \in ps[q].seats : s.of # x => s \in r[q].seats
       /\ peers[q].isHost /\ WellSeated(q, x) => \A s \in r[q].seats : s.of # x

\* Unseat takes the one seat there is.
LEMMA UnseatIs ==
  ASSUME Typed, SeatInv, NEW ps \in Seq(Peer), Len(ps) = Len(peers), NEW x \in Here,
         HasHost => ps[host].seats = peers[host].seats
  PROVE  SeatTaken(Unseat(ps, x), ps, x)
<1> DEFINE one == CHOOSE s \in Seats(host, x) : TRUE
           new == ps[host].seats \ {one}
           seated == [ps[host] EXCEPT !.seats = new]
<1>a. SeatInv /\ DOMAIN ps = Here /\ ps \in Seq(Peer) /\ Len(ps) = Len(peers)
  BY HereIs
<1>b. /\ HasHost => host \in Here /\ ps[host].seats = peers[host].seats
      /\ \A q \in Here : peers[q].isHost => HasHost /\ host = q
  BY HostIs DEF SeatInv
<1>1. CASE ~HasHost
  BY <1>1, <1>a, <1>b DEF Unseat, SeatTaken
<1>2. CASE HasHost /\ Seats(host, x) = {}
  BY <1>2, <1>a, <1>b DEF Unseat, Seats, SeatTaken
<1>3. CASE HasHost /\ Seats(host, x) # {}
  <2>1. one \in Seats(host, x)
    BY <1>3
  <2>2. one \in peers[host].seats /\ one.of = x
    BY <2>1 DEF Seats
  <2>3. Unseat(ps, x) = [ps EXCEPT ![host] = seated]
    BY <1>3 DEF Unseat
  <2>4. ps[host] \in Peer /\ new \subseteq ps[host].seats /\ new \in SUBSET [nth : Nat, of : Ids]
    BY <1>3, <1>a, <1>b, PeerFields
  <2>5. /\ seated \in Peer /\ seated.at = ps[host].at /\ seated.isHost = ps[host].isHost
        /\ seated.hosts = ps[host].hosts /\ seated.knows = ps[host].knows /\ seated.lobby = ps[host].lobby
        /\ seated.seats = new
    <3> HIDE DEF new
    <3> QED
      BY <2>4 DEF Peer
  <2>6. \A s \in ps[host].seats : s.of # x => s \in new
    BY <2>2
  <2>7. WellSeated(host, x) => \A s \in new : s.of # x
    BY <1>3, <1>b, <2>2 DEF WellSeated
  <2> HIDE DEF one, new, seated
  <2>8. /\ [ps EXCEPT ![host] = seated] \in Seq(Peer) /\ Len([ps EXCEPT ![host] = seated]) = Len(peers)
        /\ \A q \in Here : [ps EXCEPT ![host] = seated][q] = IF q = host THEN seated ELSE ps[q]
    BY <1>3, <1>a, <1>b, <2>5
  <2> QED
    BY <1>3, <1>a, <1>b, <2>3, <2>4, <2>5, <2>6, <2>7, <2>8 DEF SeatTaken
<1> QED
  BY <1>1, <1>2, <1>3

------------------------------------------------------------------------------
\* The calls

\* Nobody comes, and one player is affected.
LEMMA OneStep ==
  ASSUME Typed, SeatInv, NEW x \in Here,
         Here' = Here, lost' = lost, past'.replaced = past.replaced,
         \A q \in Here :
           /\ peers'[q].isHost = peers[q].isHost
           /\ IF peers[q].isHost
              THEN /\ peers'[q].at # "left" /\ (peers'[q].hosts => peers[q].hosts)
                   /\ peers'[q].hosts \/ ~peers'[q].knows \/ peers'[q].lobby = "over"
                   /\ peers'[q].hosts => \A s \in peers[q].seats : s.of # x => s \in peers'[q].seats
              ELSE peers'[q].seats \subseteq peers[q].seats
           /\ \A s \in peers'[q].seats : s \in peers[q].seats \/ s.of = x
           /\ q # x => peers'[q].at = peers[q].at /\ (q \in past.unseated => q \in past'.unseated),
         \A h \in Here : Settled(h) /\ peers'[h].hosts => WellSeated(h, x)'
  PROVE  SeatInv'
<1>1. OneHost'
  BY DEF SeatInv, OneHost
<1>2. HostHosts'
  BY DEF HostHosts
<1>3. LostIsNoHost'
  BY DEF SeatInv, LostIsNoHost
<1>4. NoSeatsYet'
  BY DEF SeatInv, NoSeatsYet
<1>5. SeatsOfPeers'
  BY DEF SeatInv, SeatsOfPeers
<1>6. SettledSeats'
  <2> SUFFICES ASSUME NEW h \in Here, NEW y \in Here, Settled(h)' PROVE WellSeated(h, y)'
    BY DEF SettledSeats
  <2>1. Settled(h) /\ peers[h].isHost /\ peers'[h].hosts
    BY DEF Settled
  <2>2. CASE y = x
    BY <2>1, <2>2
  <2>3. CASE y # x
    <3>1. WellSeated(h, y)
      BY <2>1 DEF SeatInv, SettledSeats
    <3>2. \A s : s.of = y => (s \in peers'[h].seats <=> s \in peers[h].seats)
      BY <2>1, <2>3
    <3> QED
      BY <2>3, <3>1, <3>2 DEF WellSeated
  <2> QED
    BY <2>2, <2>3
<1> QED
  BY <1>1, <1>2, <1>3, <1>4, <1>5, <1>6 DEF SeatInv

\* Types survive a call that adds nobody.
LEMMA TypedStep ==
  ASSUME Typed, bounds' = bounds, peers' \in Seq(Peer), Len(peers') = Len(peers), past' \in Pasts,
         lost' = lost, spawned' \in Nat
  PROVE  Typed' /\ Here' = Here
<1>1. Here' = Here
  BY DEF Here, Typed
<1>2. Peer' = Peer /\ Pasts' = Pasts
  BY DEF Peer, Pasts, Ids
<1> QED
  BY <1>1, <1>2 DEF Typed

\* Who may be added to, or taken from, those that could not be seated.
LEMMA DetachedIs ==
  ASSUME Typed, NEW p \in Ids
  PROVE  /\ Detached(p) \in Pasts /\ Detached(p).replaced = past.replaced
         /\ Detached(p).unseated = past.unseated \ {p}
         /\ LET r == [past EXCEPT !.unseated = @ \cup {p}]
            IN r \in Pasts /\ r.replaced = past.replaced /\ r.unseated = past.unseated \cup {p}
BY DEF Typed, Pasts, Detached

\* One that was put off the network is unseated.
LEMMA OffKeeps ==
  ASSUME IInv, NEW p \in Here, NEW ps \in Seq(Peer), Len(ps) = Len(peers),
         \A q \in Here : q # p => ps[q] = peers[q],
         ps[p].isHost = peers[p].isHost, ps[p].at \in {"disconnected", "left"},
         IF peers[p].isHost
         THEN /\ ps[p].at = "disconnected" /\ ps[p].lobby = peers[p].lobby /\ ps[p].hosts = peers[p].hosts
              /\ ps[p].knows = peers[p].knows /\ ps[p].seats = peers[p].seats
         ELSE ps[p].seats \subseteq peers[p].seats,
         peers' = Unseat(ps, p),
         bounds' = bounds, lost' = lost, spawned' = spawned, past' = Detached(p)
  PROVE  IInv'
<1>a. Typed /\ SeatInv /\ p \in Ids /\ spawned \in Nat
  BY HereIs DEF IInv, Typed
<1>b. /\ HasHost => host \in Here /\ peers[host].isHost /\ ps[host].seats = peers[host].seats
      /\ \A q \in Here : peers[q].isHost => HasHost /\ host = q
  BY <1>a, HostIs DEF SeatInv
<1>0. SeatTaken(peers', ps, p)
  BY <1>a, <1>b, UnseatIs
<1>1. /\ peers' \in Seq(Peer) /\ Len(peers') = Len(peers)
      /\ \A q \in Here :
           /\ peers'[q].at = ps[q].at /\ peers'[q].isHost = ps[q].isHost /\ peers'[q].hosts = ps[q].hosts
           /\ peers'[q].knows = ps[q].knows /\ peers'[q].lobby = ps[q].lobby
           /\ peers'[q].seats \subseteq ps[q].seats
           /\ \A s \in ps[q].seats : s.of # p => s \in peers'[q].seats
           /\ peers[q].isHost /\ WellSeated(q, p) => \A s \in peers'[q].seats : s.of # p
  BY <1>0 DEF SeatTaken
<1>2. Typed' /\ Here' = Here
  BY <1>1, <1>a, DetachedIs, TypedStep
<1>3. SeatInv'
  <2>1. \A q \in Here :
           /\ peers'[q].isHost = peers[q].isHost
           /\ IF peers[q].isHost
              THEN /\ peers'[q].at # "left" /\ peers'[q].hosts = peers[q].hosts
                   /\ peers'[q].hosts \/ ~peers'[q].knows \/ peers'[q].lobby = "over"
                   /\ \A s \in peers[q].seats : s.of # p => s \in peers'[q].seats
              ELSE peers'[q].seats \subseteq peers[q].seats
           /\ peers'[q].seats \subseteq peers[q].seats
           /\ q # p => peers'[q].at = peers[q].at /\ (q \in past.unseated => q \in past'.unseated)
    <3>1. \A q \in Here : peers[q].isHost =>
            peers[q].at # "left" /\ (peers[q].hosts \/ ~peers[q].knows \/ peers[q].lobby = "over")
      BY <1>a DEF SeatInv, HostHosts
    <3>2. \A q \in Here : q # p /\ q \in past.unseated => q \in past'.unseated
      BY <1>a, DetachedIs
    <3> SUFFICES ASSUME NEW q \in Here
                 PROVE  /\ peers'[q].isHost = peers[q].isHost
                        /\ IF peers[q].isHost
                           THEN /\ peers'[q].at # "left" /\ peers'[q].hosts = peers[q].hosts
                                /\ peers'[q].hosts \/ ~peers'[q].knows \/ peers'[q].lobby = "over"
                                /\ \A s \in peers[q].seats : s.of # p => s \in peers'[q].seats
                           ELSE peers'[q].seats \subseteq peers[q].seats
                        /\ peers'[q].seats \subseteq peers[q].seats
                        /\ q # p => peers'[q].at = peers[q].at
                                    /\ (q \in past.unseated => q \in past'.unseated)
      OBVIOUS
    <3> QED
      BY <1>1, <3>1, <3>2
  <2>2. \A h \in Here : Settled(h) => WellSeated(h, p)'
    <3> SUFFICES ASSUME NEW h \in Here, Settled(h) PROVE WellSeated(h, p)'
      OBVIOUS
    <3>1. peers[h].isHost /\ WellSeated(h, p)
      BY <1>a DEF Settled, SeatInv, SettledSeats
    <3>2. (\A s \in peers'[h].seats : s.of # p) /\ peers'[p].at \in {"disconnected", "left"}
      BY <1>1, <3>1
    <3> QED
      BY <3>2 DEF WellSeated, Both
  <2> QED
    BY <1>2, <1>a, <2>1, <2>2, DetachedIs, OneStep
<1> QED
  BY <1>2, <1>3 DEF IInv

\* One that flows both ways again is given the seat it has not.
LEMMA GivenKeeps ==
  ASSUME IInv, NEW p \in Here, NEW ps \in Seq(Peer), Len(ps) = Len(peers), HasHost,
         IF p = host THEN peers[p].at = "pending" ELSE peers[p].at \notin Both,
         \A q \in Here : q # p => ps[q] = peers[q],
         ps[p].at = "connected", ps[p].isHost = peers[p].isHost, ps[p].hosts = peers[p].hosts,
         ps[p].knows = peers[p].knows, ps[p].seats = peers[p].seats,
         peers[p].isHost => peers[p].lobby # "over",
         peers' = Seat(ps, host, {p}),
         bounds' = bounds, lost' = lost, spawned' = spawned + 1,
         past' \in Pasts, past'.replaced = past.replaced,
         \A q \in Here : q # p /\ q \in past.unseated => q \in past'.unseated
  PROVE  IInv'
<1>a. Typed /\ SeatInv /\ p \in Ids /\ spawned \in Nat
  BY HereIs DEF IInv, Typed
<1>b. host \in Here /\ peers[host].isHost /\ \A q \in Here : peers[q].isHost => host = q
  BY <1>a, HostIs DEF SeatInv
<1>c. DOMAIN ps = Here
  BY <1>a, HereIs
<1>0. SeatsGiven(peers', ps, host, {p})
  BY <1>a, <1>b, <1>c, SeatIs DEF Typed
<1>4. /\ peers' \in Seq(Peer) /\ Len(peers') = Len(peers)
      /\ \A q \in Here :
           /\ peers'[q].at = ps[q].at /\ peers'[q].isHost = ps[q].isHost /\ peers'[q].hosts = ps[q].hosts
           /\ peers'[q].knows = ps[q].knows /\ peers'[q].lobby = ps[q].lobby
           /\ peers'[q].seats = IF q = host THEN ps[host].seats \cup {New(p)} ELSE ps[q].seats
  <2>1. {New(x) : x \in {p}} = {New(p)}
    OBVIOUS
  <2> QED
    BY <1>0, <1>c, <2>1 DEF SeatsGiven
<1>5. Typed' /\ Here' = Here
  <2>1. spawned' \in Nat
    BY <1>a
  <2> QED
    BY <1>4, <1>a, <2>1, TypedStep
<1>6. SeatInv'
  <2>1. \A q \in Here :
          /\ peers'[q].isHost = peers[q].isHost /\ peers'[q].hosts = peers[q].hosts
          /\ peers'[q].knows = peers[q].knows
          /\ peers[q].isHost /\ peers[q].lobby = "over" => peers'[q].lobby = "over"
          /\ peers'[q].at = IF q = p THEN "connected" ELSE peers[q].at
          /\ peers'[q].seats = IF q = host THEN peers[host].seats \cup {New(p)} ELSE peers[q].seats
    <3>1. ps[host].seats = peers[host].seats
      BY <1>b
    <3> SUFFICES ASSUME NEW q \in Here
                 PROVE  /\ peers'[q].isHost = peers[q].isHost /\ peers'[q].hosts = peers[q].hosts
                        /\ peers'[q].knows = peers[q].knows
                        /\ peers[q].isHost /\ peers[q].lobby = "over" => peers'[q].lobby = "over"
                        /\ peers'[q].at = IF q = p THEN "connected" ELSE peers[q].at
                        /\ peers'[q].seats = IF q = host THEN peers[host].seats \cup {New(p)}
                                             ELSE peers[q].seats
      OBVIOUS
    <3>2. CASE q = p
      BY <1>4, <3>1, <3>2
    <3>3. CASE q # p
      <4>1. ps[q] = peers[q]
        BY <3>3
      <4> QED
        <5>1. /\ peers'[q].isHost = peers[q].isHost /\ peers'[q].hosts = peers[q].hosts
              /\ peers'[q].knows = peers[q].knows /\ peers'[q].lobby = peers[q].lobby
              /\ peers'[q].at = peers[q].at
          BY <1>4, <4>1
        <5>2. peers'[q].seats = IF q = host THEN peers[host].seats \cup {New(p)} ELSE peers[q].seats
          BY <1>4, <3>1, <4>1
        <5> QED
          BY <3>3, <5>1, <5>2
    <3> QED
      BY <3>2, <3>3
  <2>2. \A h \in Here : Settled(h) => WellSeated(h, p)'
    <3> SUFFICES ASSUME NEW h \in Here, Settled(h) PROVE WellSeated(h, p)'
      OBVIOUS
    <3>1. h = host /\ WellSeated(h, p)
      BY <1>a, <1>b DEF Settled, SeatInv, SettledSeats
    <3>2. \A s \in peers[h].seats : s.of # p
      BY <1>a, <3>1 DEF WellSeated, Both
    <3>3. peers'[h].seats = peers[h].seats \cup {New(p)} /\ peers'[p].at = "connected"
      BY <2>1, <3>1
    <3>4. New(p).of = p
      BY DEF New
    <3> QED
      BY <3>2, <3>3, <3>4 DEF WellSeated, Both
  <2>3. \A q \in Here : peers[q].isHost =>
          /\ peers'[q].at # "left"
          /\ peers'[q].hosts \/ ~peers'[q].knows \/ peers'[q].lobby = "over"
    <3>1. \A q \in Here : peers[q].isHost =>
            peers[q].at # "left" /\ (peers[q].hosts \/ ~peers[q].knows \/ peers[q].lobby = "over")
      BY <1>a DEF SeatInv, HostHosts
    <3> QED
      BY <2>1, <3>1
  <2>4. New(p).of = p
    BY DEF New
  <2>5. \A q \in Here :
           /\ peers'[q].isHost = peers[q].isHost
           /\ IF peers[q].isHost
              THEN /\ peers'[q].at # "left" /\ (peers'[q].hosts => peers[q].hosts)
                   /\ peers'[q].hosts \/ ~peers'[q].knows \/ peers'[q].lobby = "over"
                   /\ peers'[q].hosts => \A s \in peers[q].seats : s.of # p => s \in peers'[q].seats
              ELSE peers'[q].seats \subseteq peers[q].seats
           /\ \A s \in peers'[q].seats : s \in peers[q].seats \/ s.of = p
           /\ q # p => peers'[q].at = peers[q].at /\ (q \in past.unseated => q \in past'.unseated)
    <3> SUFFICES ASSUME NEW q \in Here
                 PROVE  /\ peers'[q].isHost = peers[q].isHost
                        /\ IF peers[q].isHost
                           THEN /\ peers'[q].at # "left" /\ (peers'[q].hosts => peers[q].hosts)
                                /\ peers'[q].hosts \/ ~peers'[q].knows \/ peers'[q].lobby = "over"
                                /\ peers'[q].hosts => \A s \in peers[q].seats : s.of # p => s \in peers'[q].seats
                           ELSE peers'[q].seats \subseteq peers[q].seats
                        /\ \A s \in peers'[q].seats : s \in peers[q].seats \/ s.of = p
                        /\ q # p => peers'[q].at = peers[q].at /\ (q \in past.unseated => q \in past'.unseated)
      OBVIOUS
    <3>1. peers[q].seats \subseteq peers'[q].seats /\ \A s \in peers'[q].seats : s \in peers[q].seats \/ s.of = p
      <4>1. peers'[q].seats = IF q = host THEN peers[host].seats \cup {New(p)} ELSE peers[q].seats
        BY <2>1
      <4> QED
        BY <2>4, <4>1
    <3>2. ~peers[q].isHost => peers'[q].seats = peers[q].seats
      BY <1>b, <2>1
    <3> QED
      BY <2>1, <2>3, <3>1, <3>2
  <2> QED
    BY <1>5, <1>a, <2>2, <2>5, OneStep
<1> QED
  BY <1>5, <1>6 DEF IInv

\* A pending client that is promoted is given its seat.
LEMMA PromoteKeeps ==
  ASSUME IInv, NEW p \in Here, Promote(p)
  PROVE  IInv'
<1> DEFINE back == [peers[p] EXCEPT !.at = "connected", !.lobby = "lobby"]
           ps == [peers EXCEPT ![p] = back]
<1>a. /\ Typed /\ p \in Ids /\ peers[p] \in Peer /\ peers[p].at = "pending"
      /\ bounds' = bounds /\ lost' = lost /\ spawned' = spawned + 1
      /\ past' = Detached(p) /\ HasHost /\ peers[p].lobby # "over"
  BY HereIs DEF IInv, Promote, Call, Spawned, Seating, HasLobby
<1>1. /\ back \in Peer /\ back.at = "connected" /\ back.lobby = "lobby" /\ back.isHost = peers[p].isHost
      /\ back.hosts = peers[p].hosts /\ back.knows = peers[p].knows /\ back.seats = peers[p].seats
  BY <1>a DEF Peer, Attachments, Lobbies
<1>2. peers' = Seat(ps, host, {p})
  BY <1>a DEF Promote, Typed
<1> HIDE DEF back
<1>3. ps \in Seq(Peer) /\ Len(ps) = Len(peers) /\ ps[p] = back
      /\ \A q \in Here : q # p => ps[q] = peers[q]
  BY <1>1, <1>a, ChangedIs DEF Typed, Here
<1>4. /\ past' \in Pasts /\ past'.replaced = past.replaced
      /\ \A q \in Here : q # p /\ q \in past.unseated => q \in past'.unseated
  BY <1>a, DetachedIs
<1>5. "pending" \notin Both
  BY DEF Both
<1> HIDE DEF ps
<1> QED
  BY <1>1, <1>2, <1>3, <1>4, <1>5, <1>a, GivenKeeps

\* A peer that is disconnected loses its seat.
LEMMA DisconnectKeeps ==
  ASSUME IInv, NEW p \in Here, Disconnect(p)
  PROVE  IInv'
<1> DEFINE off == [peers[p] EXCEPT !.at = "disconnected"]
           ps == [peers EXCEPT ![p] = off]
<1>a. /\ Typed /\ SeatInv /\ p \in Ids /\ peers[p] \in Peer
      /\ bounds' = bounds /\ lost' = lost /\ spawned' = spawned /\ spawned \in Nat
      /\ past' = Detached(p)
  BY HereIs DEF IInv, Disconnect, Call, Unchanged, Typed
<1>1. /\ off \in Peer /\ off.at = "disconnected" /\ off.lobby = peers[p].lobby /\ off.isHost = peers[p].isHost
      /\ off.hosts = peers[p].hosts /\ off.knows = peers[p].knows /\ off.seats = peers[p].seats
  BY <1>a DEF Peer, Attachments, Lobbies
<1>2. peers' = Unseat(ps, p)
  BY <1>a DEF Disconnect, Typed
<1> HIDE DEF off
<1>3. ps \in Seq(Peer) /\ Len(ps) = Len(peers) /\ ps[p] = off
      /\ \A q \in Here : q # p => ps[q] = peers[q]
  BY <1>1, <1>a, ChangedIs DEF Typed, Here
<1> HIDE DEF ps
<1> QED
  BY <1>1, <1>2, <1>3, <1>a, OffKeeps

\* So does one whose link breaks, whether it waits or its session ends.
LEMMA BreakLinkKeeps ==
  ASSUME IInv, NEW p \in Here, BreakLink(p)
  PROVE  IInv'
<1> DEFINE told == OnHostLost(peers[p])
           ended == HasLobby(peers[p]) /\ ~HasLobby(told)
           off == [told EXCEPT !.at = IF ended THEN "left" ELSE "disconnected",
                               !.lobby = IF ended THEN "none" ELSE @]
           ps == [peers EXCEPT ![p] = off]
<1>a. /\ Typed /\ p \in Ids /\ peers[p] \in Peer /\ ~peers[p].isHost
      /\ bounds' = bounds /\ lost' = lost /\ spawned' = spawned
      /\ past' = Detached(p)
  BY HereIs DEF IInv, BreakLink, Call, Unchanged
<1>1. Keeps(peers[p], told)
  BY <1>a, OnHostLostKeeps
<1>2. peers' = Unseat(ps, p)
  BY <1>a DEF BreakLink
<1>3. /\ off \in Peer /\ off.at \in {"disconnected", "left"} /\ off.isHost = peers[p].isHost
      /\ off.seats \subseteq peers[p].seats
  <2> HIDE DEF told, ended
  <2> QED
    BY <1>1, <1>a DEF Peer, Attachments, Lobbies, Keeps
<1> HIDE DEF off
<1>4. ps \in Seq(Peer) /\ Len(ps) = Len(peers) /\ ps[p] = off
      /\ \A q \in Here : q # p => ps[q] = peers[q]
  BY <1>3, <1>a, ChangedIs DEF Typed, Here
<1> HIDE DEF ps
<1> QED
  BY <1>2, <1>3, <1>4, <1>a, OffKeeps

\* So does one that leaves.
LEMMA LeaveKeeps ==
  ASSUME IInv, NEW p \in Here, Leave(p)
  PROVE  IInv'
<1> DEFINE off == [WithoutLobby(peers[p], "none") EXCEPT !.at = "left", !.believes = None]
           ps == [peers EXCEPT ![p] = off]
<1>a. /\ Typed /\ p \in Ids /\ peers[p] \in Peer /\ ~peers[p].isHost
      /\ bounds' = bounds /\ lost' = lost /\ spawned' = spawned
      /\ past' = Detached(p)
  BY HereIs DEF IInv, Leave, Call, Unchanged
<1>2. peers' = Unseat(ps, p)
  BY <1>a DEF Leave
<1>3. /\ off \in Peer /\ off.at = "left" /\ off.isHost = peers[p].isHost /\ off.seats = {}
  BY <1>a DEF Peer, Attachments, Lobbies, Waits, WithoutLobby
<1> HIDE DEF off
<1>4. ps \in Seq(Peer) /\ Len(ps) = Len(peers) /\ ps[p] = off
      /\ \A q \in Here : q # p => ps[q] = peers[q]
  BY <1>3, <1>a, ChangedIs DEF Typed, Here
<1> HIDE DEF ps
<1> QED
  BY <1>2, <1>3, <1>4, <1>a, OffKeeps

\* One that rejoins is given a seat.
LEMMA RejoinKeeps ==
  ASSUME IInv, NEW p \in Here, Rejoin(p)
  PROVE  IInv'
<1> DEFINE back == [peers[p] EXCEPT !.at = "connected", !.lobby = "lobby", !.believes = host]
           ps == [peers EXCEPT ![p] = back]
<1>a. /\ Typed /\ SeatInv /\ p \in Ids /\ peers[p] \in Peer /\ peers[p].at = "left"
      /\ bounds' = bounds /\ lost' = lost /\ spawned' = spawned + 1
      /\ past' = Detached(p) /\ HasHost
  BY HereIs DEF IInv, Rejoin, Call, Spawned, Seating
<1>b. host \in Ids /\ peers[host].isHost /\ ~peers[p].isHost /\ p # host
  BY <1>a, HostIs, HereIs DEF SeatInv, HostHosts
<1>1. /\ back \in Peer /\ back.at = "connected" /\ back.isHost = peers[p].isHost
      /\ back.hosts = peers[p].hosts /\ back.knows = peers[p].knows /\ back.seats = peers[p].seats
  BY <1>a, <1>b DEF Peer, Attachments, Lobbies
<1>2. peers' = Seat(ps, host, {p})
  BY <1>a DEF Rejoin, Typed
<1> HIDE DEF back
<1>3. ps \in Seq(Peer) /\ Len(ps) = Len(peers) /\ ps[p] = back
      /\ \A q \in Here : q # p => ps[q] = peers[q]
  BY <1>1, <1>a, ChangedIs DEF Typed, Here
<1>4. /\ past' \in Pasts /\ past'.replaced = past.replaced
      /\ \A q \in Here : q # p /\ q \in past.unseated => q \in past'.unseated
  BY <1>a, DetachedIs
<1>5. "left" \notin Both
  BY DEF Both
<1> HIDE DEF ps
<1> QED
  BY <1>1, <1>2, <1>3, <1>4, <1>5, <1>a, <1>b, GivenKeeps

\* A call that changes one peer only, and gives it no seat.
LEMMA OneChanges ==
  ASSUME IInv, NEW p \in Here, NEW new \in Peer,
         peers' = [peers EXCEPT ![p] = new],
         new.isHost = peers[p].isHost,
         IF peers[p].isHost
         THEN /\ new.at # "left" /\ (new.at = "pending" => peers[p].at = "pending")
              /\ (new.hosts => peers[p].hosts /\ new.seats = peers[p].seats)
              /\ new.hosts \/ ~new.knows \/ new.lobby = "over"
         ELSE new.at = peers[p].at \/ /\ new.at \in Both
                                      /\ peers[p].at \in Both \/ p \in past'.unseated,
         new.seats \subseteq peers[p].seats,
         bounds' = bounds, lost' = lost, spawned' = spawned,
         past' \in Pasts, past'.replaced = past.replaced, past.unseated \subseteq past'.unseated
  PROVE  IInv'
<1>a. Typed /\ SeatInv /\ spawned \in Nat
  BY DEF IInv, Typed
<1>1. /\ peers' \in Seq(Peer) /\ Len(peers') = Len(peers) /\ peers'[p] = new
      /\ \A q \in Here : q # p => peers'[q] = peers[q]
  BY <1>a, ChangedIs DEF Typed, Here
<1>2. Typed' /\ Here' = Here
  BY <1>a, <1>1, TypedStep
<1>3. \A q \in Here :
        /\ peers'[q].isHost = peers[q].isHost
        /\ IF peers[q].isHost
           THEN /\ peers'[q].at # "left" /\ (peers'[q].hosts => peers[q].hosts)
                /\ peers'[q].hosts \/ ~peers'[q].knows \/ peers'[q].lobby = "over"
                /\ peers'[q].hosts => peers'[q].seats = peers[q].seats
           ELSE peers'[q].seats \subseteq peers[q].seats
        /\ peers'[q].seats \subseteq peers[q].seats
        /\ q # p => peers'[q].at = peers[q].at
  <2>1. \A q \in Here : peers[q].isHost =>
          peers[q].at # "left" /\ (peers[q].hosts \/ ~peers[q].knows \/ peers[q].lobby = "over")
    BY <1>a DEF SeatInv, HostHosts
  <2> QED
    BY <1>1, <2>1
<1>4. \A h \in Here : Settled(h) /\ peers'[h].hosts => WellSeated(h, p)'
  <2> SUFFICES ASSUME NEW h \in Here, Settled(h), peers'[h].hosts PROVE WellSeated(h, p)'
    OBVIOUS
  <2>1. WellSeated(h, p) /\ peers[h].isHost
    BY <1>a DEF SeatInv, SettledSeats, Settled
  <2>2. peers'[h].seats = peers[h].seats
    BY <1>3, <2>1
  <2>3. peers'[p] = new
    BY <1>1
  <2>4. CASE peers[p].isHost
    <3>1. h = p
      BY <1>a, <2>1, <2>4 DEF SeatInv, OneHost
    <3> QED
      BY <2>1, <2>2, <2>3, <2>4, <3>1 DEF WellSeated
  <2>5. CASE ~peers[p].isHost
    <3>1. h # p
      BY <2>1, <2>5
    <3> QED
      BY <2>1, <2>2, <2>3, <2>5, <3>1 DEF WellSeated
  <2> QED
    BY <2>4, <2>5
<1>5. SeatInv'
  <2>1. \A q \in Here : q \in past.unseated => q \in past'.unseated
    OBVIOUS
  <2> QED
    BY <1>2, <1>3, <1>4, <1>a, <2>1, OneStep
<1> QED
  BY <1>2, <1>5 DEF IInv

\* A half-open peer keeps its seat; one that had none gets none.
LEMMA HalfOpenKeeps ==
  ASSUME IInv, NEW p \in Here, HalfOpen(p)
  PROVE  IInv'
<1> DEFINE new == [peers[p] EXCEPT !.at = "halfOpen"]
<1>a. /\ Typed /\ SeatInv /\ p \in Ids /\ peers[p] \in Peer
      /\ bounds' = bounds /\ lost' = lost /\ spawned' = spawned
  BY HereIs DEF IInv, HalfOpen, Call, Unchanged
<1>1. /\ new \in Peer /\ new.at = "halfOpen" /\ new.isHost = peers[p].isHost /\ new.lobby = peers[p].lobby
      /\ new.hosts = peers[p].hosts /\ new.knows = peers[p].knows /\ new.seats = peers[p].seats
  BY <1>a DEF Peer, Attachments
<1>2. peers' = [peers EXCEPT ![p] = new]
  BY DEF HalfOpen
<1>3. /\ past' \in Pasts /\ past'.replaced = past.replaced /\ past.unseated \subseteq past'.unseated
      /\ peers[p].at \in Both \/ p \in past'.unseated
  <2>1. CASE peers[p].at \in {"connected", "halfOpen"}
    BY <2>1, <1>a DEF HalfOpen, Typed, Both
  <2>2. CASE peers[p].at \notin {"connected", "halfOpen"}
    <3>1. past' = [past EXCEPT !.unseated = @ \cup {p}]
      BY <2>2 DEF HalfOpen
    <3> QED
      BY <3>1, <1>a, DetachedIs
  <2> QED
    BY <2>1, <2>2
<1>4. peers[p].isHost => peers[p].hosts \/ ~peers[p].knows \/ peers[p].lobby = "over"
  BY <1>a DEF SeatInv, HostHosts
<1>5. "halfOpen" \in Both
  BY DEF Both
<1> HIDE DEF new
<1> QED
  BY <1>a, <1>1, <1>2, <1>3, <1>4, <1>5, OneChanges

\* A reconnected peer is given a seat if it was disconnected, and has one if it was not.
LEMMA ReconnectKeeps ==
  ASSUME IInv, NEW p \in Here, Reconnect(p)
  PROVE  IInv'
<1> DEFINE new == [peers[p] EXCEPT !.at = "connected"]
           ps == [peers EXCEPT ![p] = new]
           seated == peers[p].at = "disconnected" /\ ~peers[p].isHost /\ HasHost
<1>a. /\ Typed /\ SeatInv /\ p \in Ids /\ peers[p] \in Peer
      /\ bounds' = bounds /\ lost' = lost /\ peers[p].at # "left"
  BY HereIs DEF IInv, Reconnect, Call
<1>1. /\ new \in Peer /\ new.at = "connected" /\ new.isHost = peers[p].isHost /\ new.lobby = peers[p].lobby
      /\ new.hosts = peers[p].hosts /\ new.knows = peers[p].knows /\ new.seats = peers[p].seats
  BY <1>a DEF Peer, Attachments
<1>2. peers' = (IF seated THEN Seat(ps, host, {p}) ELSE ps) /\ spawned' = (IF seated THEN spawned + 1 ELSE spawned)
  BY DEF Reconnect
<1>3. /\ past' \in Pasts /\ past'.replaced = past.replaced /\ past.unseated \subseteq past'.unseated
      /\ peers[p].at = "pending" \/ ~HasHost => p \in past'.unseated
  <2>1. CASE peers[p].at = "pending" \/ ~HasHost
    <3>1. past' = [past EXCEPT !.unseated = @ \cup {p}]
      BY <2>1 DEF Reconnect
    <3> QED
      BY <3>1, <1>a, DetachedIs
  <2>2. CASE ~(peers[p].at = "pending" \/ ~HasHost)
    BY <2>2, <1>a DEF Reconnect, Typed
  <2> QED
    BY <2>1, <2>2
<1>4. peers[p].isHost => HasHost /\ host = p /\ (peers[p].hosts \/ ~peers[p].knows \/ peers[p].lobby = "over")
  BY <1>a, HostIs DEF SeatInv, HostHosts
<1>5. ps \in Seq(Peer) /\ Len(ps) = Len(peers) /\ ps[p] = new
      /\ \A q \in Here : q # p => ps[q] = peers[q]
  BY <1>1, <1>a, ChangedIs DEF Typed, Here
<1>6. "connected" \in Both /\ "disconnected" \notin Both
  BY DEF Both
<1>7. HasHost => host # p \/ peers[p].isHost
  BY <1>a, HostIs DEF SeatInv
<1>8. peers[p].at \in {"connected", "halfOpen", "pending", "disconnected"}
  BY <1>a DEF Peer, Attachments
<1> HIDE DEF new
<1>9. CASE seated
  <2> HIDE DEF ps
  <2> QED
    BY <1>1, <1>2, <1>3, <1>5, <1>6, <1>7, <1>9, <1>a, GivenKeeps
<1>10. CASE ~seated
  <2>1. ~peers[p].isHost => peers[p].at \in Both \/ p \in past'.unseated
    BY <1>3, <1>8, <1>10 DEF Both
  <2> QED
    BY <1>1, <1>2, <1>3, <1>4, <1>6, <1>10, <1>a, <2>1, OneChanges
<1> QED
  BY <1>9, <1>10

\* What an app does of itself gives and takes no seat of a client, but with the lobby.
LEMMA AppKeeps ==
  ASSUME IInv, NEW p \in Here, LeaveOnRequest(p) \/ Resumes(p) \/ GivesUp(p)
  PROVE  IInv'
<1>a. /\ Typed /\ SeatInv /\ p \in Ids /\ peers[p] \in Peer
      /\ bounds' = bounds /\ lost' = lost /\ spawned' = spawned /\ past' = past
  BY HereIs DEF IInv, LeaveOnRequest, Resumes, GivesUp, InApp, Call
<1>1. PICK new \in Peer :
        /\ peers' = [peers EXCEPT ![p] = new] /\ new.at = peers[p].at /\ new.isHost = peers[p].isHost
        /\ \/ new.lobby = "over" /\ ~new.hosts /\ new.seats = {}
           \/ new.lobby = peers[p].lobby /\ new.hosts = peers[p].hosts /\ new.knows = peers[p].knows
              /\ new.seats = peers[p].seats
  <2>1. CASE LeaveOnRequest(p)
    <3> DEFINE n == WithoutLobby(peers[p], "over")
    <3>1. n \in Peer /\ n.at = peers[p].at /\ n.isHost = peers[p].isHost /\ n.lobby = "over" /\ ~n.hosts /\ n.seats = {}
      BY <1>a DEF Peer, WithoutLobby, Lobbies, Waits
    <3>2. peers' = [peers EXCEPT ![p] = n]
      BY <2>1 DEF LeaveOnRequest
    <3> HIDE DEF n
    <3> QED
      BY <3>1, <3>2
  <2>2. CASE Resumes(p)
    <3> DEFINE n == [peers[p] EXCEPT !.waits = "no"]
    <3>1. n \in Peer /\ n.at = peers[p].at /\ n.isHost = peers[p].isHost /\ n.lobby = peers[p].lobby
          /\ n.hosts = peers[p].hosts /\ n.knows = peers[p].knows /\ n.seats = peers[p].seats
      BY <1>a DEF Peer, Waits
    <3>2. peers' = [peers EXCEPT ![p] = n]
      BY <2>2 DEF Resumes
    <3> HIDE DEF n
    <3> QED
      BY <3>1, <3>2
  <2>3. CASE GivesUp(p)
    <3> DEFINE n == EndSession(peers[p])
    <3>1. n \in Peer /\ n.at = peers[p].at /\ n.isHost = peers[p].isHost /\ n.lobby = "over" /\ ~n.hosts /\ n.seats = {}
      BY <1>a, EndSessionIs
    <3>2. peers' = [peers EXCEPT ![p] = n]
      BY <2>3 DEF GivesUp
    <3> HIDE DEF n
    <3> QED
      BY <3>1, <3>2
  <2> QED
    BY <2>1, <2>2, <2>3
<1>2. peers[p].isHost => /\ peers[p].hosts \/ ~peers[p].knows \/ peers[p].lobby = "over"
                         /\ peers[p].at # "left"
  BY <1>a DEF SeatInv, HostHosts
<1>3. past \in Pasts
  BY <1>a DEF Typed
<1>4. new \in Peer
  BY <1>1
<1> QED
  BY <1>1, <1>2, <1>3, <1>4, <1>a, OneChanges

\* A seat that its app despawns is gone, and nobody else's.
LEMMA KickKeeps ==
  ASSUME IInv, NEW p \in Here, NEW seat \in peers[p].seats, Kick(p, seat)
  PROVE  IInv'
<1> DEFINE new == [peers[p] EXCEPT !.seats = @ \ {seat}]
           x == seat.of
<1>a. /\ Typed /\ SeatInv /\ p \in Ids /\ peers[p] \in Peer
      /\ bounds' = bounds /\ lost' = lost /\ spawned' = spawned
      /\ past' = [past EXCEPT !.unseated = @ \cup {x}]
  BY HereIs DEF IInv, Kick, Call, InApp
<1>b. x \in Here /\ x \in Ids /\ spawned \in Nat
  BY <1>a, HereIs DEF SeatInv, SeatsOfPeers, Typed
<1>1. /\ new \in Peer /\ new.at = peers[p].at /\ new.isHost = peers[p].isHost /\ new.lobby = peers[p].lobby
      /\ new.hosts = peers[p].hosts /\ new.knows = peers[p].knows /\ new.seats = peers[p].seats \ {seat}
  BY <1>a DEF Peer
<1>2. peers' = [peers EXCEPT ![p] = new]
  BY DEF Kick
<1> HIDE DEF new
<1>3. /\ peers' \in Seq(Peer) /\ Len(peers') = Len(peers) /\ peers'[p] = new
      /\ \A q \in Here : q # p => peers'[q] = peers[q]
  BY <1>1, <1>2, <1>a, ChangedIs DEF Typed, Here
<1>4. past' \in Pasts /\ past'.replaced = past.replaced /\ past'.unseated = past.unseated \cup {x}
  BY <1>a, <1>b, DetachedIs
<1>5. Typed' /\ Here' = Here
  BY <1>3, <1>4, <1>a, <1>b, TypedStep
<1>6. \A q \in Here :
        /\ peers'[q].isHost = peers[q].isHost /\ peers'[q].at = peers[q].at
        /\ peers'[q].hosts = peers[q].hosts /\ peers'[q].knows = peers[q].knows
        /\ peers'[q].lobby = peers[q].lobby
  BY <1>1, <1>3
<1>7. \A q \in Here :
        /\ peers'[q].seats \subseteq peers[q].seats
        /\ \A s \in peers[q].seats : s.of # x => s \in peers'[q].seats
  BY <1>1, <1>3
<1>8. \A h \in Here : Settled(h) => WellSeated(h, x)'
  <2> SUFFICES ASSUME NEW h \in Here, Settled(h) PROVE WellSeated(h, x)'
    OBVIOUS
  <2>1. WellSeated(h, x)
    BY <1>a, <1>b DEF SeatInv, SettledSeats
  <2>2. x \in past'.unseated
    BY <1>4
  <2> HIDE DEF x
  <2> QED
    BY <1>6, <1>7, <1>b, <2>1, <2>2 DEF WellSeated
<1>9. \A q \in Here : peers[q].isHost =>
        peers'[q].at # "left" /\ (peers'[q].hosts \/ ~peers'[q].knows \/ peers'[q].lobby = "over")
  <2>1. \A q \in Here : peers[q].isHost =>
          peers[q].at # "left" /\ (peers[q].hosts \/ ~peers[q].knows \/ peers[q].lobby = "over")
    BY <1>a DEF SeatInv, HostHosts
  <2> QED
    BY <1>6, <2>1
<1> HIDE DEF x
<1>10. SeatInv'
  <2>1. \A q \in Here :
           /\ peers'[q].isHost = peers[q].isHost
           /\ IF peers[q].isHost
              THEN /\ peers'[q].at # "left" /\ (peers'[q].hosts => peers[q].hosts)
                   /\ peers'[q].hosts \/ ~peers'[q].knows \/ peers'[q].lobby = "over"
                   /\ peers'[q].hosts => \A s \in peers[q].seats : s.of # x => s \in peers'[q].seats
              ELSE peers'[q].seats \subseteq peers[q].seats
           /\ \A s \in peers'[q].seats : s \in peers[q].seats \/ s.of = x
           /\ q # x => peers'[q].at = peers[q].at /\ (q \in past.unseated => q \in past'.unseated)
    BY <1>4, <1>6, <1>7, <1>9
  <2> QED
    BY <1>4, <1>5, <1>8, <1>a, <1>b, <2>1, OneStep
<1> QED
  BY <1>5, <1>10 DEF IInv

\* Nothing of the peers changes.
LEMMA SameKeeps ==
  ASSUME IInv, UNCHANGED <<peers, past, lost, spawned, bounds>>
  PROVE  IInv'
<1>1. Here' = Here /\ Ids' = Ids
  BY DEF Here, Ids
<1>2. Peer' = Peer /\ Pasts' = Pasts
  BY <1>1 DEF Peer, Pasts
<1>3. Typed'
  BY <1>1, <1>2 DEF IInv, Typed
<1>4. \A h, x : WellSeated(h, x)' = WellSeated(h, x)
  BY DEF WellSeated
<1>5. \A h : Settled(h)' = Settled(h)
  BY DEF Settled
<1>6. SettledSeats'
  BY <1>1, <1>4, <1>5 DEF IInv, SeatInv, SettledSeats
<1>7. OneHost' /\ HostHosts' /\ LostIsNoHost' /\ NoSeatsYet' /\ SeatsOfPeers'
  BY <1>1 DEF IInv, SeatInv, OneHost, HostHosts, LostIsNoHost, NoSeatsYet, SeatsOfPeers
<1> QED
  BY <1>3, <1>6, <1>7 DEF IInv, SeatInv

\* The host that is added has no seats, and nobody to have them for.
LEMMA AddHostKeeps ==
  ASSUME IInv, AddHost
  PROVE  IInv'
<1> DEFINE first == [NewPeer("connected", "lobby", 1) EXCEPT !.isHost = TRUE, !.hosts = TRUE]
<1>a. /\ Typed /\ SeatInv /\ Here = {} /\ peers' = <<first>> /\ Len(peers) < bounds.peers
      /\ bounds' = bounds /\ lost' = lost /\ spawned' = spawned /\ past' = past
  BY DEF IInv, AddHost, AddedPeer, Call
<1>b. Len(peers) \in Nat /\ bounds.peers \in Nat
  BY <1>a, HereIs
<1>1. 1 \in Ids /\ 1 <= bounds.peers
  BY <1>a, <1>b DEF Ids
<1>2. NewPeer("connected", "lobby", 1) \in Peer /\ NewPeer("connected", "lobby", 1).seats = {}
      /\ NewPeer("connected", "lobby", 1).at = "connected"
  BY <1>1, NewPeerIs DEF Attachments, Lobbies
<1>3. first \in Peer /\ first.isHost /\ first.hosts /\ first.seats = {} /\ first.at = "connected"
  BY <1>2 DEF Peer
<1> HIDE DEF first
<1>4. /\ peers' \in Seq(Peer) /\ Len(peers') = 1 /\ Here' = {1} /\ peers'[1] = first
  BY <1>3, <1>a DEF Here
<1>5. Peer' = Peer /\ Pasts' = Pasts
  BY <1>a DEF Peer, Pasts, Ids
<1>6. lost = None /\ lost' = None
  BY <1>a DEF Typed
<1>7. Typed'
  BY <1>1, <1>4, <1>5, <1>6, <1>a DEF Typed
<1>8. OneHost' /\ HostHosts' /\ LostIsNoHost' /\ NoSeatsYet' /\ SeatsOfPeers'
  BY <1>3, <1>4, <1>6 DEF OneHost, HostHosts, LostIsNoHost, NoSeatsYet, SeatsOfPeers
<1>9. SettledSeats'
  BY <1>3, <1>4 DEF SettledSeats, WellSeated
<1> QED
  BY <1>7, <1>8, <1>9 DEF IInv, SeatInv

\* A client comes, and is seated unless it is pending.
LEMMA OneComes ==
  ASSUME IInv, HasHost, Len(peers) < bounds.peers, NEW n, n = Len(peers) + 1, NEW given,
         peers' \in Seq(Peer), Len(peers') = n,
         \A q \in Here :
           /\ peers'[q].at = peers[q].at /\ peers'[q].isHost = peers[q].isHost
           /\ peers'[q].hosts = peers[q].hosts /\ peers'[q].knows = peers[q].knows
           /\ peers'[q].lobby = peers[q].lobby
           /\ peers'[q].seats = IF q = host THEN peers[host].seats \cup given ELSE peers[q].seats,
         ~peers'[n].isHost, peers'[n].seats = {},
         \/ peers'[n].at = "pending" /\ given = {}
         \/ peers'[n].at = "connected" /\ given = {New(n)},
         bounds' = bounds, lost' = lost, spawned' \in Nat, past' = past
  PROVE  IInv'
<1>a. Typed /\ SeatInv
  BY DEF IInv
<1>b. host \in Here /\ \A q \in Here : peers[q].isHost => host = q
  BY <1>a, HostIs DEF SeatInv
<1>1. Here = 1..Len(peers) /\ Len(peers) \in Nat /\ bounds.peers \in Nat
  BY <1>a, HereIs
<1>2. n \notin Here /\ n \in Nat
  BY <1>1
<1>3. Here' = Here \cup {n}
  <2>1. Here' = 1..n
    BY DEF Here
  <2> QED
    BY <1>1, <2>1
<1>4. Peer' = Peer /\ Pasts' = Pasts
  BY DEF Peer, Pasts, Ids
<1>5. Typed'
  BY <1>1, <1>3, <1>4, <1>a DEF Typed
<1>6. \A s \in given : s.of = n
  BY DEF New
<1>7. OneHost'
  BY <1>3, <1>a DEF SeatInv, OneHost
<1>8. HostHosts'
  BY <1>3, <1>a DEF SeatInv, HostHosts
<1>9. LostIsNoHost'
  BY <1>3, <1>a DEF SeatInv, LostIsNoHost
<1>10. NoSeatsYet'
  <2> SUFFICES ASSUME NEW p \in Here', ~peers'[p].isHost, p \notin past.replaced, p # lost
               PROVE  peers'[p].seats = {}
    BY DEF NoSeatsYet
  <2>1. CASE p = n
    BY <2>1
  <2>2. CASE p \in Here
    <3>1. p # host
      <4>1. peers[host].isHost
        BY <1>a, HostIs DEF SeatInv
      <4> QED
        BY <4>1, <2>2
    <3> QED
      BY <2>2, <3>1, <1>a DEF SeatInv, NoSeatsYet
  <2> QED
    BY <1>3, <2>1, <2>2
<1>11. SeatsOfPeers'
  <2> SUFFICES ASSUME NEW p \in Here', NEW s \in peers'[p].seats PROVE s.of \in Here'
    BY DEF SeatsOfPeers
  <2>1. p \in Here
    BY <1>3
  <2>2. s \in peers[p].seats \/ s \in given
    BY <2>1
  <2> QED
    BY <1>3, <1>6, <1>a, <2>1, <2>2 DEF SeatInv, SeatsOfPeers
<1>12. SettledSeats'
  <2> SUFFICES ASSUME NEW h \in Here', NEW x \in Here', Settled(h)' PROVE WellSeated(h, x)'
    BY DEF SettledSeats
  <2>1. h \in Here /\ h # n
    BY <1>2, <1>3 DEF Settled
  <2>2. Settled(h) /\ h = host
    BY <1>b, <2>1 DEF Settled
  <2>3. peers'[h].seats = peers[h].seats \cup given
    BY <2>1, <2>2
  <2>4. CASE x \in Here
    <3>1. x # n /\ WellSeated(h, x)
      BY <1>2, <1>a, <2>1, <2>2, <2>4 DEF SeatInv, SettledSeats
    <3>2. \A s : s.of = x => (s \in peers'[h].seats <=> s \in peers[h].seats)
      BY <1>6, <2>3, <3>1
    <3>3. peers'[x].at = peers[x].at
      BY <2>4
    <3> QED
      BY <3>1, <3>2, <3>3 DEF WellSeated
  <2>5. CASE x = n
    <3>1. \A s \in peers[h].seats : s.of # n
      BY <1>2, <1>a, <2>1 DEF SeatInv, SeatsOfPeers
    <3>2. \A s \in peers'[h].seats : s.of = n => s \in given
      BY <2>3, <3>1
    <3>3. CASE peers'[n].at = "pending" /\ given = {}
      BY <2>1, <2>5, <3>2, <3>3 DEF WellSeated, Both
    <3>4. CASE peers'[n].at = "connected" /\ given = {New(n)}
      <4>1. New(n) \in peers'[h].seats /\ New(n).of = n
        BY <2>3, <3>4 DEF New
      <4>2. \A s \in peers'[h].seats : s.of = n => s = New(n)
        BY <3>2, <3>4
      <4> QED
        BY <2>1, <2>5, <3>4, <4>1, <4>2 DEF WellSeated, Both
    <3> QED
      BY <3>3, <3>4
  <2> QED
    BY <1>3, <2>4, <2>5
<1> QED
  BY <1>5, <1>7, <1>8, <1>9, <1>10, <1>11, <1>12 DEF IInv, SeatInv

\* A client that is added is given a seat.
LEMMA AddClientKeeps ==
  ASSUME IInv, AddClient
  PROVE  IInv'
<1> DEFINE n == Len(peers) + 1
           new == NewPeer("connected", "lobby", host)
           ps == Append(peers, new)
<1>a. /\ Typed /\ SeatInv /\ HasHost /\ Len(peers) < bounds.peers
      /\ bounds' = bounds /\ lost' = lost /\ spawned' = spawned + 1 /\ past' = past
      /\ peers' = Seat(ps, host, {n})
  BY DEF IInv, AddClient, AddedPeer, Call, Seating, Spawned
<1>b. /\ Here = 1..Len(peers) /\ Len(peers) \in Nat /\ bounds.peers \in Nat /\ Here \subseteq Ids
      /\ host \in Here /\ spawned \in Nat
  BY <1>a, HereIs, HostIs DEF SeatInv, Typed
<1>1. new \in Peer /\ ~new.isHost /\ new.seats = {} /\ new.at = "connected"
  BY <1>a, <1>b, NewPeerIs DEF Attachments, Lobbies
<1> HIDE DEF new
<1>2. /\ ps \in Seq(Peer) /\ Len(ps) = n /\ DOMAIN ps = Here \cup {n} /\ ps[n] = new /\ n \notin Here
      /\ \A q \in Here : ps[q] = peers[q]
  BY <1>1, <1>a, <1>b DEF Typed
<1>3. n \in Ids /\ n <= bounds.peers
  BY <1>a, <1>b DEF Ids
<1> HIDE DEF ps, n
<1>4. SeatsGiven(peers', ps, host, {n})
  BY <1>2, <1>3, <1>a, <1>b, SeatIs
<1>5. /\ peers' \in Seq(Peer) /\ Len(peers') = n
      /\ \A q \in Here \cup {n} :
           /\ peers'[q].at = ps[q].at /\ peers'[q].isHost = ps[q].isHost /\ peers'[q].hosts = ps[q].hosts
           /\ peers'[q].knows = ps[q].knows /\ peers'[q].lobby = ps[q].lobby
           /\ peers'[q].seats = IF q = host THEN ps[host].seats \cup {New(n)} ELSE ps[q].seats
  <2>1. {New(x) : x \in {n}} = {New(n)}
    OBVIOUS
  <2> QED
    BY <1>2, <1>4, <2>1 DEF SeatsGiven
<1>6. /\ peers' \in Seq(Peer) /\ Len(peers') = n
      /\ \A q \in Here :
           /\ peers'[q].at = peers[q].at /\ peers'[q].isHost = peers[q].isHost
           /\ peers'[q].hosts = peers[q].hosts /\ peers'[q].knows = peers[q].knows
           /\ peers'[q].lobby = peers[q].lobby
           /\ peers'[q].seats = IF q = host THEN peers[host].seats \cup {New(n)} ELSE peers[q].seats
      /\ ~peers'[n].isHost /\ peers'[n].seats = {} /\ peers'[n].at = "connected"
  <2>1. ps[host].seats = peers[host].seats /\ n # host
    BY <1>2, <1>b
  <2>2. ~peers'[n].isHost /\ peers'[n].seats = {} /\ peers'[n].at = "connected"
    BY <1>1, <1>2, <1>5, <2>1
  <2>3. ASSUME NEW q \in Here
        PROVE  /\ peers'[q].at = peers[q].at /\ peers'[q].isHost = peers[q].isHost
               /\ peers'[q].hosts = peers[q].hosts /\ peers'[q].knows = peers[q].knows
               /\ peers'[q].lobby = peers[q].lobby
               /\ peers'[q].seats = IF q = host THEN peers[host].seats \cup {New(n)} ELSE peers[q].seats
    <3>1. ps[q] = peers[q]
      BY <1>2
    <3>2. peers'[q].seats = IF q = host THEN ps[host].seats \cup {New(n)} ELSE ps[q].seats
      BY <1>5
    <3>3. /\ peers'[q].at = peers[q].at /\ peers'[q].isHost = peers[q].isHost
          /\ peers'[q].hosts = peers[q].hosts /\ peers'[q].knows = peers[q].knows
          /\ peers'[q].lobby = peers[q].lobby
      BY <1>5, <3>1
    <3> QED
      BY <2>1, <3>1, <3>2, <3>3
  <2> QED
    BY <1>5, <2>2, <2>3
<1>7. n = Len(peers) + 1 /\ spawned' \in Nat
  BY <1>a, <1>b DEF n
<1> QED
  BY <1>6, <1>7, <1>a, OneComes

\* A pending client has none.
LEMMA AddPendingClientKeeps ==
  ASSUME IInv, AddPendingClient
  PROVE  IInv'
<1> DEFINE n == Len(peers) + 1
           new == NewPeer("pending", "pending", host)
<1>a. /\ Typed /\ SeatInv /\ HasHost /\ Len(peers) < bounds.peers
      /\ bounds' = bounds /\ lost' = lost /\ spawned' = spawned /\ past' = past
      /\ peers' = Append(peers, new)
  BY DEF IInv, AddPendingClient, AddedPeer, Call
<1>b. /\ Here = 1..Len(peers) /\ Len(peers) \in Nat /\ bounds.peers \in Nat /\ Here \subseteq Ids
      /\ host \in Here /\ spawned \in Nat
  BY <1>a, HereIs, HostIs DEF SeatInv, Typed
<1>1. new \in Peer /\ ~new.isHost /\ new.seats = {} /\ new.at = "pending"
  BY <1>a, <1>b, NewPeerIs DEF Attachments, Lobbies
<1> HIDE DEF new
<1>2. /\ peers' \in Seq(Peer) /\ Len(peers') = n /\ peers'[n] = new
      /\ \A q \in Here : peers'[q] = peers[q]
  BY <1>1, <1>a, <1>b DEF Typed
<1>3. n = Len(peers) + 1 /\ spawned' \in Nat
  BY <1>a, <1>b
<1> HIDE DEF n
<1>4. \A q \in Here : peers'[q].seats = IF q = host THEN peers[host].seats \cup {} ELSE peers[q].seats
  BY <1>2
<1> QED
  BY <1>1, <1>2, <1>3, <1>4, <1>a, OneComes

\* Whoever hosts a new lobby has no seats, and nobody is in it.
LEMMA RehostKeeps ==
  ASSUME IInv, NEW n \in Here, Rehost(n)
  PROVE  IInv'
<1> DEFINE first == [NewPeer("connected", "lobby", n) EXCEPT !.isHost = TRUE, !.hosts = TRUE, !.knows = peers[n].knows]
           Out(p) == [WithoutLobby(peers[p], "none") EXCEPT !.isHost = FALSE, !.at = "left", !.believes = None]
<1>a. /\ Typed /\ bounds' = bounds /\ lost' = None /\ spawned' = spawned
      /\ past' = [replaced |-> {}, unseated |-> {}]
  BY DEF IInv, Rehost, Call
<1>b. Here = 1..Len(peers) /\ Len(peers) \in Nat /\ Here \subseteq Ids /\ \A p \in Here : peers[p] \in Peer
  BY <1>a, HereIs
<1>1. peers' = [p \in Here |-> IF p = n THEN first ELSE Out(p)]
  <2>1. peers' = [p \in Here |->
          IF p = n
          THEN [NewPeer("connected", "lobby", n) EXCEPT !.isHost = TRUE, !.hosts = TRUE, !.knows = peers[p].knows]
          ELSE Out(p)]
    BY DEF Rehost
  <2> QED
    BY <2>1
<1>2. NewPeer("connected", "lobby", n) \in Peer /\ NewPeer("connected", "lobby", n).seats = {}
      /\ NewPeer("connected", "lobby", n).at = "connected"
  BY <1>b, NewPeerIs DEF Attachments, Lobbies
<1>3. peers[n].knows \in BOOLEAN
  BY <1>b, PeerFields
<1>4. first \in Peer /\ first.isHost /\ first.hosts /\ first.seats = {} /\ first.at = "connected"
  <2> DEFINE base == NewPeer("connected", "lobby", n)
             host2 == [base EXCEPT !.isHost = TRUE]
             host3 == [host2 EXCEPT !.hosts = TRUE]
             host4 == [host3 EXCEPT !.knows = peers[n].knows]
  <2>1. base \in Peer /\ base.seats = {} /\ base.at = "connected"
    BY <1>2
  <2>2. first = host4
    OBVIOUS
  <2> HIDE DEF base
  <2>3. host2 \in Peer /\ host2.isHost /\ host2.seats = {} /\ host2.at = "connected"
    BY <2>1 DEF Peer
  <2> HIDE DEF host2
  <2>4. host3 \in Peer /\ host3.isHost /\ host3.hosts /\ host3.seats = {} /\ host3.at = "connected"
    BY <2>3 DEF Peer
  <2> HIDE DEF host3
  <2>5. host4 \in Peer /\ host4.isHost /\ host4.hosts /\ host4.seats = {} /\ host4.at = "connected"
    BY <1>3, <2>4 DEF Peer
  <2> HIDE DEF first, host4
  <2> QED
    BY <2>2, <2>5
<1>5. \A p \in Here : Out(p) \in Peer /\ ~Out(p).isHost /\ Out(p).at = "left" /\ Out(p).seats = {}
  <2> SUFFICES ASSUME NEW p \in Here
               PROVE  Out(p) \in Peer /\ ~Out(p).isHost /\ Out(p).at = "left" /\ Out(p).seats = {}
    OBVIOUS
  <2> DEFINE alone == WithoutLobby(peers[p], "none")
  <2>1. alone \in Peer /\ alone.seats = {}
    BY <1>b DEF Peer, WithoutLobby, Lobbies, Waits
  <2> HIDE DEF alone
  <2>2. LET r == [alone EXCEPT !.isHost = FALSE, !.at = "left", !.believes = None]
        IN r \in Peer /\ ~r.isHost /\ r.at = "left" /\ r.seats = {}
    BY <2>1 DEF Peer, Attachments
  <2> QED
    BY <2>2 DEF alone
<1> HIDE DEF first, Out
<1>6. peers' \in Seq(Peer) /\ Len(peers') = Len(peers) /\ Here' = Here
  BY <1>1, <1>4, <1>5, <1>b DEF Here
<1>7. /\ peers'[n] = first
      /\ \A p \in Here : p # n => ~peers'[p].isHost /\ peers'[p].at = "left" /\ peers'[p].seats = {}
  BY <1>1, <1>5
<1>8. Peer' = Peer /\ Pasts' = Pasts
  BY <1>a DEF Peer, Pasts, Ids
<1>9. Typed'
  BY <1>6, <1>8, <1>a DEF Typed, Pasts
<1>10. OneHost' /\ HostHosts' /\ LostIsNoHost' /\ NoSeatsYet' /\ SeatsOfPeers'
  BY <1>4, <1>6, <1>7, <1>a DEF OneHost, HostHosts, LostIsNoHost, NoSeatsYet, SeatsOfPeers
<1>11. SettledSeats'
  <2> SUFFICES ASSUME NEW h \in Here, NEW x \in Here, Settled(h)' PROVE WellSeated(h, x)'
    BY <1>6 DEF SettledSeats
  <2>1. h = n /\ peers'[h].seats = {}
    BY <1>4, <1>7 DEF Settled
  <2>2. h # x => peers'[x].at \notin Both
    BY <1>7, <2>1 DEF Both
  <2> QED
    BY <2>1, <2>2 DEF WellSeated
<1> QED
  BY <1>9, <1>10, <1>11 DEF IInv, SeatInv

\* A client that notices its host is lost gets no seat, and is not host.
LEMMA NoticedIs ==
  ASSUME Typed, NEW p \in Here
  PROVE  LET r == Noticed(p)
         IN r \in Peer /\ r.isHost = peers[p].isHost /\ r.seats \subseteq peers[p].seats
<1>a. peers[p] \in Peer
  BY HereIs
<1>1. Keeps(peers[p], OnHostLost(peers[p]))
  BY <1>a, OnHostLostKeeps
<1>2. /\ Left(peers[p]) \in Peer /\ Left(peers[p]).isHost = peers[p].isHost
      /\ Left(peers[p]).seats = {}
  BY <1>a DEF Peer, Left, WithoutLobby, Attachments, Lobbies, Waits
<1>3. Noticed(p) \in {peers[p], OnHostLost(peers[p]), Left(peers[p])}
  BY DEF Noticed
<1>4. CASE Noticed(p) = peers[p]
  BY <1>4, <1>a
<1>5. CASE Noticed(p) = OnHostLost(peers[p])
  BY <1>5, <1>1 DEF Keeps
<1>6. CASE Noticed(p) = Left(peers[p])
  BY <1>6, <1>2
<1> QED
  BY <1>3, <1>4, <1>5, <1>6

\* A host that falls silent keeps its seats.
LEMMA FallsSilentKeeps ==
  ASSUME IInv, LoseHost("FallsSilent")
  PROVE  IInv'
<1> DEFINE new == [peers[host] EXCEPT !.at = "disconnected"]
<1>a. /\ Typed /\ SeatInv /\ HasHost
      /\ bounds' = bounds /\ lost' = lost /\ spawned' = spawned /\ past' = past
  BY DEF IInv, LoseHost, Call, Unchanged
<1>b. host \in Here /\ peers[host].isHost /\ peers[host] \in Peer /\ DOMAIN peers = Here
  BY <1>a, HereIs, HostIs DEF SeatInv, Here
<1>1. /\ new \in Peer /\ new.at = "disconnected" /\ new.isHost = peers[host].isHost
      /\ new.lobby = peers[host].lobby /\ new.hosts = peers[host].hosts /\ new.knows = peers[host].knows
      /\ new.seats = peers[host].seats
  BY <1>b DEF Peer, Attachments
<1>2. peers' = [p \in Here |-> IF p = host THEN new ELSE peers[p]]
  BY DEF LoseHost
<1> HIDE DEF new
<1>3. peers' = [peers EXCEPT ![host] = new]
  BY <1>2, <1>b
<1>4. peers[host].hosts \/ ~peers[host].knows \/ peers[host].lobby = "over"
  BY <1>a, <1>b DEF SeatInv, HostHosts
<1>5. past \in Pasts
  BY <1>a DEF Typed
<1> QED
  BY <1>1, <1>3, <1>4, <1>5, <1>a, <1>b, OneChanges

\* When the host quits or crashes there is none, and no successor has seats.
LEMMA HostGoesKeeps ==
  ASSUME IInv, NEW how \in {"Quits", "Crashes"}, LoseHost(how)
  PROVE  IInv'
<1> DEFINE gone == IF how = "Quits"
                   THEN [WithoutLobby(peers[host], "none") EXCEPT !.at = "left", !.isHost = FALSE]
                   ELSE [peers[host] EXCEPT !.at = "left", !.isHost = FALSE, !.crashed = TRUE]
<1>a. /\ Typed /\ SeatInv /\ HasHost
      /\ bounds' = bounds /\ lost' = host /\ spawned' = spawned /\ past' = past
  BY DEF IInv, LoseHost, Call, Unchanged
<1>b. /\ host \in Here /\ peers[host] \in Peer /\ Here = 1..Len(peers) /\ Len(peers) \in Nat
      /\ \A q \in Here : peers[q].isHost => q = host
  BY <1>a, HereIs, HostIs DEF SeatInv
<1>1. gone \in Peer /\ ~gone.isHost /\ gone.seats \subseteq peers[host].seats
  BY <1>b DEF Peer, WithoutLobby, Attachments, Lobbies, Waits
<1>2. peers' = [p \in Here |-> IF p = host THEN gone ELSE Noticed(p)]
  <2>1. CASE how = "Quits"
    BY <2>1 DEF LoseHost
  <2>2. CASE how = "Crashes"
    BY <2>2 DEF LoseHost
  <2> QED
    BY <2>1, <2>2
<1> HIDE DEF gone
<1>3. \A p \in Here : Noticed(p) \in Peer /\ Noticed(p).isHost = peers[p].isHost
                      /\ Noticed(p).seats \subseteq peers[p].seats
  BY <1>a, NoticedIs
<1>4. \A p \in Here : peers'[p] \in Peer /\ ~peers'[p].isHost /\ peers'[p].seats \subseteq peers[p].seats
  BY <1>1, <1>2, <1>3, <1>b
<1>5. peers' \in Seq(Peer) /\ Len(peers') = Len(peers) /\ Here' = Here
  BY <1>2, <1>4, <1>b DEF Here
<1>6. Peer' = Peer /\ Pasts' = Pasts
  BY <1>a DEF Peer, Pasts, Ids
<1>7. Typed'
  BY <1>5, <1>6, <1>a, <1>b DEF Typed
<1>8. OneHost' /\ HostHosts' /\ LostIsNoHost' /\ SettledSeats'
  BY <1>4, <1>5 DEF OneHost, HostHosts, LostIsNoHost, SettledSeats, Settled
<1>9. SeatsOfPeers'
  BY <1>4, <1>5, <1>a DEF SeatsOfPeers, SeatInv
<1>10. NoSeatsYet'
  <2> SUFFICES ASSUME NEW p \in Here, p \notin past.replaced, p # host PROVE peers'[p].seats = {}
    BY <1>5, <1>a DEF NoSeatsYet
  <2>1. peers[host].isHost /\ lost = None /\ None \notin Here
    BY <1>a, <1>b, HostIs, HereIs DEF SeatInv, LostIsNoHost
  <2>2. peers[p].seats = {}
    BY <1>a, <1>b, <2>1 DEF SeatInv, NoSeatsYet
  <2> QED
    BY <1>4, <2>2
<1> QED
  BY <1>7, <1>8, <1>9, <1>10 DEF IInv, SeatInv

\* The host that is named has the seats of the connected members, and only these.
LEMMA NameHostKeeps ==
  ASSUME IInv, NEW n \in Here, NameHost(n)
  PROVE  IInv'
<1> DEFINE previous == IF HasHost THEN host ELSE lost
           members == Members \ {previous}
           told == [p \in Here |-> IF p \in members THEN OnNewHostNamed(peers[p], p, n) ELSE peers[p]]
           named == [p \in Here |-> [told[p] EXCEPT !.isHost = p = n]]
           seated == {p \in members \ {n} : peers[p].at = "connected"}
<1>a. /\ Typed /\ SeatInv /\ (HasHost \/ lost # None)
      /\ bounds' = bounds /\ lost' = None /\ spawned' = spawned + 1
      /\ n # previous /\ n \in members /\ peers[n].lobby # "none"
      /\ peers' = Seat(named, n, seated)
      /\ past' = [replaced |-> past.replaced \cup {previous},
                  unseated |-> {p \in Here : peers[p].at \in {"pending", "halfOpen"}}]
  BY DEF IInv, NameHost, Call, Spawned
<1>b. /\ Here = 1..Len(peers) /\ Len(peers) \in Nat /\ Here \subseteq Ids /\ n \in Ids
      /\ \A p \in Here : p \in Ids /\ peers[p] \in Peer
      /\ Len(peers) <= bounds.peers /\ spawned \in Nat /\ past \in Pasts
  BY <1>a, HereIs DEF Typed
<1>c. previous \in Here
  BY <1>a, HostIs DEF SeatInv, Typed
<1>1. \A p \in Here :
        /\ told[p] \in Peer /\ told[p].at = peers[p].at /\ told[p].seats = peers[p].seats
        /\ p = n => told[p].hosts \/ ~told[p].knows \/ told[p].lobby = "over"
  <2> SUFFICES ASSUME NEW p \in Here
               PROVE  /\ told[p] \in Peer /\ told[p].at = peers[p].at /\ told[p].seats = peers[p].seats
                      /\ p = n => told[p].hosts \/ ~told[p].knows \/ told[p].lobby = "over"
    OBVIOUS
  <2>1. p \in Ids /\ peers[p] \in Peer
    BY <1>b
  <2> HIDE DEF members
  <2>2. CASE p \in members
    <3>1. told[p] = OnNewHostNamed(peers[p], p, n)
      BY <2>2
    <3> QED
      BY <1>a, <1>b, <2>1, <3>1, NamedIs
  <2>3. CASE p \notin members
    BY <1>a, <2>1, <2>3
  <2> QED
    BY <2>2, <2>3
<1> HIDE DEF told, members, previous
<1>2. \A p \in Here :
        /\ named[p] \in Peer /\ named[p].at = peers[p].at /\ named[p].seats = peers[p].seats
        /\ named[p].isHost = (p = n)
        /\ named[p].hosts = told[p].hosts /\ named[p].knows = told[p].knows /\ named[p].lobby = told[p].lobby
  BY <1>1 DEF Peer
<1>3. DOMAIN named = Here
  OBVIOUS
<1> HIDE DEF named, seated
<1>4. named \in Seq(Peer) /\ Len(named) = Len(peers)
  <2>1. named = [p \in 1..Len(peers) |-> named[p]]
    BY <1>b DEF named
  <2> QED
    BY <1>2, <1>b, <2>1
<1>5. seated \in SUBSET Ids /\ seated \subseteq Here
      /\ \A p \in seated : p # n /\ peers[p].at = "connected" /\ p # previous
  BY <1>b DEF seated, members, Members
<1>6. SeatsGiven(peers', named, n, seated)
  BY <1>3, <1>4, <1>5, <1>a, <1>b, SeatIs
<1>7. /\ peers' \in Seq(Peer) /\ Len(peers') = Len(peers) /\ Here' = Here
      /\ \A q \in Here :
           /\ peers'[q].at = named[q].at /\ peers'[q].isHost = named[q].isHost
           /\ peers'[q].hosts = named[q].hosts
           /\ peers'[q].knows = named[q].knows /\ peers'[q].lobby = named[q].lobby
           /\ peers'[q].seats = IF q = n THEN named[n].seats \cup {New(p) : p \in seated} ELSE named[q].seats
  BY <1>3, <1>4, <1>6, <1>b DEF SeatsGiven, Here
<1>8. \A q \in Here :
        /\ peers'[q].at = peers[q].at /\ peers'[q].isHost = (q = n)
        /\ peers'[q].seats = IF q = n THEN peers[n].seats \cup {New(p) : p \in seated} ELSE peers[q].seats
  <2> SUFFICES ASSUME NEW q \in Here
               PROVE  /\ peers'[q].at = peers[q].at /\ peers'[q].isHost = (q = n)
                      /\ peers'[q].seats = IF q = n THEN peers[n].seats \cup {New(p) : p \in seated}
                                           ELSE peers[q].seats
    OBVIOUS
  <2>1. peers'[q].at = peers[q].at /\ peers'[q].isHost = (q = n)
    BY <1>2, <1>7
  <2>2. peers'[q].seats = IF q = n THEN peers[n].seats \cup {New(p) : p \in seated} ELSE peers[q].seats
    <3>1. named[n].seats = peers[n].seats /\ named[q].seats = peers[q].seats
      BY <1>2
    <3> QED
      BY <1>7, <3>1
  <2> QED
    BY <2>1, <2>2
<1>9. Peer' = Peer /\ Pasts' = Pasts
  BY <1>a DEF Peer, Pasts, Ids
<1>10. Typed'
  <2>1. past' \in Pasts
    BY <1>a, <1>b, <1>c DEF Pasts
  <2> QED
    BY <1>7, <1>9, <1>a, <1>b, <2>1 DEF Typed
<1>11. \A p \in Here : New(p).of = p
  BY DEF New
<1>12. OneHost' /\ LostIsNoHost'
  <2>1. \A p \in Here : peers'[p].isHost => p = n
    BY <1>8
  <2> QED
    BY <1>7, <1>a, <2>1 DEF OneHost, LostIsNoHost
<1>13. HostHosts'
  <2>1. peers[n].at # "left"
    BY <1>a DEF members, Members
  <2>2. peers'[n].hosts \/ ~peers'[n].knows \/ peers'[n].lobby = "over"
    BY <1>1, <1>2, <1>7
  <2> QED
    BY <1>7, <1>8, <2>1, <2>2 DEF HostHosts
<1>14. \A p \in Here : p \notin past'.replaced => peers[p].seats = {}
  <2> SUFFICES ASSUME NEW p \in Here, p \notin past.replaced, p # previous PROVE peers[p].seats = {}
    BY <1>a
  <2>1. ~peers[p].isHost /\ p # lost
    BY <1>a, HostIs, HereIs DEF previous, SeatInv, LostIsNoHost
  <2> QED
    BY <1>a, <2>1 DEF SeatInv, NoSeatsYet
<1>15. NoSeatsYet'
  BY <1>7, <1>8, <1>14 DEF NoSeatsYet
<1>16. SeatsOfPeers'
  <2> SUFFICES ASSUME NEW p \in Here, NEW s \in peers'[p].seats PROVE s.of \in Here
    BY <1>7 DEF SeatsOfPeers
  <2>1. s \in peers[p].seats \/ s \in {New(q) : q \in seated}
    BY <1>8
  <2>2. CASE s \in peers[p].seats
    BY <1>a, <2>2 DEF SeatInv, SeatsOfPeers
  <2>3. CASE s \in {New(q) : q \in seated}
    BY <1>5, <1>11, <2>3
  <2> QED
    BY <2>1, <2>2, <2>3
<1>17. SettledSeats'
  <2> SUFFICES ASSUME NEW h \in Here, NEW x \in Here, Settled(h)' PROVE WellSeated(h, x)'
    BY <1>7 DEF SettledSeats
  <2>1. h = n /\ h \notin past'.replaced
    BY <1>8 DEF Settled
  <2>2. peers'[h].seats = {New(p) : p \in seated}
    BY <1>8, <1>14, <2>1
  <2>3. \A s \in peers'[h].seats : s.of = x => s = New(x) /\ x \in seated
    <3> SUFFICES ASSUME NEW s \in peers'[h].seats, s.of = x PROVE s = New(x) /\ x \in seated
      OBVIOUS
    <3>1. PICK p \in seated : s = New(p)
      BY <2>2
    <3> QED
      BY <1>5, <1>11, <3>1
  <2>4. peers'[x].at = peers[x].at
    BY <1>8
  <2>5. x \in seated => h # x /\ peers'[x].at \in Both
    BY <1>5, <2>1, <2>4 DEF Both
  <2>6. h # x /\ peers'[x].at \in Both /\ x \notin past'.unseated \cup past'.replaced => x \in seated
    <3> SUFFICES ASSUME h # x, peers[x].at \in Both, x \notin past'.unseated, x \notin past'.replaced
                 PROVE  x \in seated
      BY <2>4
    <3>1. peers[x].at = "connected" /\ x # previous
      BY <1>a DEF Both
    <3> QED
      BY <2>1, <3>1 DEF seated, members, Members
  <2>7. x \in seated => New(x) \in peers'[h].seats /\ New(x).of = x
    BY <1>11, <2>2
  <2> QED
    BY <2>3, <2>5, <2>6, <2>7 DEF WellSeated
<1> QED
  BY <1>10, <1>12, <1>13, <1>15, <1>16, <1>17 DEF IInv, SeatInv

------------------------------------------------------------------------------
\* The theorems

\* The invariant holds at first.
LEMMA SeatsInitially == Init => IInv
<1> SUFFICES ASSUME Init PROVE IInv
  OBVIOUS
<1>1. Here = {}
  BY DEF Init, Here
<1>2. bounds.peers \in Nat
  BY BoundAssumption DEF Init
<1>3. Typed
  BY <1>1, <1>2 DEF Typed, Init, Pasts
<1> QED
  BY <1>1, <1>3 DEF IInv, SeatInv, OneHost, HostHosts, LostIsNoHost, NoSeatsYet, SeatsOfPeers, SettledSeats

\* Every call, app and wire step keeps the invariant.
LEMMA SeatsStep ==
  ASSUME IInv, [Next]_vars
  PROVE  IInv'
<1>1. ASSUME NEW p \in Here,
             \/ Promote(p) \/ Disconnect(p) \/ BreakLink(p) \/ HalfOpen(p) \/ Reconnect(p)
             \/ Leave(p) \/ Rejoin(p) \/ Rehost(p) \/ NameHost(p)
      PROVE  IInv'
  BY <1>1, PromoteKeeps, DisconnectKeeps, BreakLinkKeeps, HalfOpenKeeps, ReconnectKeeps, LeaveKeeps,
     RejoinKeeps, RehostKeeps, NameHostKeeps
<1>2. CASE AddHost \/ AddClient \/ AddPendingClient
  BY <1>2, AddHostKeeps, AddClientKeeps, AddPendingClientKeeps
<1>3. ASSUME NEW how \in {"Quits", "Crashes", "FallsSilent"}, LoseHost(how)
      PROVE  IInv'
  BY <1>3, HostGoesKeeps, FallsSilentKeeps
<1>4. ASSUME NEW from \in Here, NEW to \in Here, DropNext(from, to)
      PROVE  IInv'
  BY <1>4, SameKeeps DEF DropNext, Call
<1>5. CASE Calls
  BY <1>1, <1>2, <1>3, <1>4, <1>5 DEF Calls
<1>6. CASE Apps
  <2>1. ASSUME NEW p \in Here, NEW mode \in Modes, NEW big \in May(bounds.link.limit), Encode(p, mode, big)
        PROVE  IInv'
    BY <2>1, SameKeeps DEF Encode, InApp
  <2>2. ASSUME NEW p \in Here, NEW seat \in peers[p].seats, Kick(p, seat)
        PROVE  IInv'
    BY <2>2, KickKeeps
  <2>3. ASSUME NEW p \in Here, LeaveOnRequest(p) \/ Resumes(p) \/ GivesUp(p)
        PROVE  IInv'
    BY <2>3, AppKeeps
  <2> QED
    BY <1>6, <2>1, <2>2, <2>3 DEF Apps
<1>7. CASE Wire
  <2>1. CASE Collect
    BY <2>1, SameKeeps DEF Collect
  <2>2. CASE Schedule
    BY <2>2, SameKeeps DEF Schedule
  <2>3. ASSUME NEW from \in Here, NEW to \in Here, DeliverRaw(from, to)
        PROVE  IInv'
    BY <2>3, SameKeeps DEF DeliverRaw
  <2>4. ASSUME NEW frames \in 1..2, Advance(frames)
        PROVE  IInv'
    BY <2>4, SameKeeps DEF Advance
  <2> QED
    BY <1>7, <2>1, <2>2, <2>3, <2>4 DEF Wire
<1>8. CASE UNCHANGED vars
  BY <1>8, SameKeeps DEF vars
<1> QED
  BY <1>5, <1>6, <1>7, <1>8 DEF Next

\* The invariant holds always, whatever the instance.
THEOREM SeatsStayRight == Spec => []IInv
<1>1. Init => IInv
  BY SeatsInitially
<1>2. IInv /\ [Next]_vars => IInv'
  BY SeatsStep
<1> QED
  BY <1>1, <1>2, PTL DEF Spec

\* The invariant says what the property does.
LEMMA SeatsAreSeats == IInv => HostSeatsEachOnce
<1> SUFFICES ASSUME IInv PROVE HostSeatsEachOnce
  OBVIOUS
<1>a. Typed /\ SeatInv
  BY DEF IInv
<1>1. Cardinality(try_host) <= 1
  <2>1. CASE try_host = {}
    BY <2>1, FS_EmptySet
  <2>2. CASE try_host # {}
    <3>1. PICK p : p \in try_host
      BY <2>2
    <3>2. try_host = {p}
      <4>1. p \in Here /\ peers[p].isHost
        BY <3>1 DEF try_host
      <4>2. \A q \in try_host : q \in Here /\ peers[q].isHost
        BY DEF try_host
      <4>3. \A q \in try_host : q = p
        BY <1>a, <4>1, <4>2 DEF SeatInv, OneHost
      <4> QED
        BY <3>1, <4>3
    <3>3. Cardinality(try_host) = 1
      BY <3>2, FS_Singleton
    <3> QED
      BY <3>3
  <2> QED
    BY <2>1, <2>2
<1>2. \A p \in try_host : peers[p].hosts \/ ~peers[p].knows \/ peers[p].lobby = "over"
  BY <1>a DEF SeatInv, HostHosts, try_host
<1>3. ASSUME HasHost, peers[host].hosts, host \notin past.replaced
      PROVE  /\ \A p \in Here \ {host} : peers[p].at = "connected" /\ p \notin past.unseated \cup past.replaced
                                         => Cardinality(Seats(host, p)) = 1
             /\ \A p \in Here : Cardinality(Seats(host, p)) <= 1
             /\ \A s \in peers[host].seats : s.of = host \/ peers[s.of].at \in {"connected", "halfOpen"}
  <2>1. host \in Here /\ Settled(host)
    BY <1>a, <1>3, HostIs DEF SeatInv, Settled
  <2>2. \A p \in Here : WellSeated(host, p)
    BY <1>a, <2>1 DEF SeatInv, SettledSeats
  <2>3. \A p \in Here : Cardinality(Seats(host, p)) <= 1 /\ (Seats(host, p) # {} => Cardinality(Seats(host, p)) = 1)
    <3> SUFFICES ASSUME NEW p \in Here
                 PROVE  /\ Cardinality(Seats(host, p)) <= 1
                        /\ Seats(host, p) # {} => Cardinality(Seats(host, p)) = 1
      OBVIOUS
    <3>1. CASE Seats(host, p) = {}
      BY <3>1, FS_EmptySet
    <3>2. CASE Seats(host, p) # {}
      <4>1. PICK s : s \in Seats(host, p)
        BY <3>2
      <4>2. Seats(host, p) = {s}
        BY <2>2, <4>1 DEF WellSeated, Seats
      <4> QED
        BY <4>2, FS_Singleton
    <3> QED
      BY <3>1, <3>2
  <2>4. \A p \in Here \ {host} : peers[p].at = "connected" /\ p \notin past.unseated \cup past.replaced
                                 => Seats(host, p) # {}
    BY <2>2 DEF WellSeated, Seats, Both
  <2>5. \A s \in peers[host].seats : s.of \in Here
    BY <1>a, <2>1 DEF SeatInv, SeatsOfPeers
  <2>6. \A s \in peers[host].seats : s.of = host \/ peers[s.of].at \in {"connected", "halfOpen"}
    BY <2>2, <2>5 DEF WellSeated, Both
  <2> QED
    BY <2>3, <2>4, <2>6
<1> QED
  BY <1>1, <1>2, <1>3 DEF HostSeatsEachOnce

\* One host at most, which hosts, and has exactly one seat for each client attached
\* both ways and none for others: for any number of peers and any sequence of legal calls.
THEOREM EverySeatOnce == Spec => []HostSeatsEachOnce
BY SeatsStayRight, SeatsAreSeats, PTL

------------------------------------------------------------------------------
\* What is sent, and what becomes of it: the inductive invariant

\* Packets as the apps encoded them, with a sender and a receiver, under way, and as
\* the trace has them.
Encoded == [to : [nth : Nat, of : Here], mode : Modes, big : BOOLEAN]
Resolved == [from : Here, to : Here, mode : Modes, big : BOOLEAN]
Flying == [id : Nat, from : Here, to : Here, mode : Modes, copy : BOOLEAN, seq : Nat, due : Nat]
Traced == [from : Here, to : Here, mode : Modes, fate : Fates, cut : BOOLEAN, missed : BOOLEAN]

\* The types of what the wire keeps: whoever sends, or is sent to, was added.
WireTyped ==
  /\ \A p \in Here : peers[p].believes \in {None} \cup Here
  /\ outbox \in [Ids -> Seq(Encoded)] /\ inbox \in [Ids -> Seq(Flying)]
  /\ resolved \in Seq(Resolved) /\ trace \in Seq(Traced)
  /\ flight \in SUBSET Flying /\ IsFiniteSet(flight)
  /\ lastReliable \in [Links -> Nat] /\ nextSeq \in [Links -> Nat] /\ frame \in Nat

\* The trace knows each packet but those delivered raw.
Known(p) ==
  p.id # 0 => /\ p.id \in DOMAIN trace
              /\ trace[p.id].from = p.from /\ trace[p.id].to = p.to /\ trace[p.id].mode = p.mode
SameWay(p, q) == p.from = q.from /\ p.to = q.to
Ordered(p) == p.mode = "reliable" /\ p.id # 0
\* Each packet under way is known, and none is to a peer that was cut off since.
FlightKnown == \A p \in flight : Known(p) /\ (p.id # 0 => ~trace[p.id].missed)
\* None is due yet.
FlightComing == \A p \in flight : p.due > frame
\* The numbers of a link are each given once.
FlightNumbered ==
  /\ \A p \in flight : p.seq <= nextSeq[<<p.from, p.to>>]
  /\ \A p, q \in flight : SameWay(p, q) /\ p.seq = q.seq => p = q
\* Reliable packets of a link arrive in the order they were sent, and before the next.
FlightOrdered ==
  /\ \A p \in flight : Ordered(p) => p.due <= lastReliable[<<p.from, p.to>>]
  /\ \A p, q \in flight : Ordered(p) /\ Ordered(q) /\ SameWay(p, q) =>
       /\ p.id = q.id => p = q
       /\ p.id < q.id => p.due <= q.due /\ p.seq < q.seq
\* What has arrived is known, and where it belongs; the reliable ones in their order,
\* and before all that are under way.
ArrivedKnown == \A to \in Ids : \A i \in DOMAIN inbox[to] : Known(inbox[to][i]) /\ inbox[to][i].to = to
ArrivedOrdered ==
  \A to \in Ids : \A i \in DOMAIN inbox[to] : Ordered(inbox[to][i]) =>
    /\ \A j \in DOMAIN inbox[to] :
         i < j /\ Ordered(inbox[to][j]) /\ inbox[to][i].from = inbox[to][j].from =>
           inbox[to][i].id < inbox[to][j].id
    /\ \A p \in flight : Ordered(p) /\ SameWay(inbox[to][i], p) => inbox[to][i].id < p.id

\* How often a packet arrives, is under way, and should be one or the other.
Places(id) == {i \in DOMAIN inbox[trace[id].to] : inbox[trace[id].to][i].id = id}
Copies(id) == {p \in flight : p.id = id}
Times(fate) == CASE fate = "delivered" -> 1 [] fate = "duplicated" -> 2 [] OTHER -> 0
\* All of them are accounted for, but when an end was cut off since.
Counted ==
  \A id \in DOMAIN trace :
    /\ Cardinality(Places(id)) + Cardinality(Copies(id)) <= Times(trace[id].fate)
    /\ ~trace[id].cut => Cardinality(Places(id)) + Cardinality(Copies(id)) = Times(trace[id].fate)
\* A way that was never cut off is open.
WaysOpen ==
  \A id \in DOMAIN trace : ~trace[id].cut /\ trace[id].fate \in {"delivered", "duplicated"} =>
    CanSend(peers[trace[id].from].at) /\ CanReceive(peers[trace[id].to].at)

WireFacts ==
  /\ FlightKnown /\ FlightComing /\ FlightNumbered /\ FlightOrdered
  /\ ArrivedKnown /\ ArrivedOrdered /\ Counted /\ WaysOpen
\* The inductive invariant of the wire.
WireInv == WireTyped /\ WireFacts

------------------------------------------------------------------------------
\* What the calls do to the wire

\* The kinds of packets are of the peers there are.
LEMMA KindsGrow ==
  ASSUME Here \subseteq Here'
  PROVE  /\ Encoded \subseteq Encoded' /\ Resolved \subseteq Resolved' /\ Flying \subseteq Flying'
         /\ Traced \subseteq Traced'
BY DEF Encoded, Resolved, Flying, Traced

\* A list of some is a list of more.
LEMMA ListsGrow ==
  ASSUME NEW S, NEW T, S \subseteq T
  PROVE  Seq(S) \subseteq Seq(T)
<1> SUFFICES ASSUME NEW s \in Seq(S) PROVE s \in Seq(T)
  OBVIOUS
<1>1. Len(s) \in Nat /\ s \in [1..Len(s) -> S]
  OBVIOUS
<1>2. s \in [1..Len(s) -> T]
  BY <1>1
<1> QED
  BY <1>1, <1>2

\* What the trace has, and what is under way.
LEMMA WireElements ==
  ASSUME WireTyped
  PROVE  /\ Len(trace) \in Nat /\ DOMAIN trace = 1..Len(trace)
         /\ \A id \in DOMAIN trace : trace[id] \in Traced
         /\ \A p \in flight : p \in Flying
         /\ \A to \in Ids : /\ inbox[to] \in Seq(Flying) /\ Len(inbox[to]) \in Nat
                            /\ DOMAIN inbox[to] = 1..Len(inbox[to])
                            /\ \A i \in DOMAIN inbox[to] : inbox[to][i] \in Flying
BY DEF WireTyped

\* What Cuts does to the trace.
LEMMA CutsIs ==
  ASSUME WireTyped, NEW swept, CutsBut(swept)
  PROVE  /\ trace' \in Seq(Traced) /\ DOMAIN trace' = DOMAIN trace /\ Len(trace') = Len(trace)
         /\ \A id \in DOMAIN trace :
              LET t == trace[id]
                  u == trace'[id]
              IN /\ u.from = t.from /\ u.to = t.to /\ u.mode = t.mode /\ u.fate = t.fate
                 /\ u.cut <=> t.cut \/ ~CanSend(peers'[t.from].at) \/ ~CanReceive(peers'[t.to].at)
                 /\ u.missed <=> t.missed \/ /\ ~CanReceive(peers'[t.to].at)
                                             /\ CanReceive(peers[t.to].at) /\ t.to \notin swept
<1> DEFINE cut(t) == t.cut \/ ~CanSend(peers'[t.from].at) \/ ~CanReceive(peers'[t.to].at)
           missed(t) == t.missed \/ (~CanReceive(peers'[t.to].at) /\ CanReceive(peers[t.to].at) /\ t.to \notin swept)
           late(t) == [t EXCEPT !.cut = cut(t), !.missed = missed(t)]
<1>a. /\ Len(trace) \in Nat /\ DOMAIN trace = 1..Len(trace) /\ \A id \in DOMAIN trace : trace[id] \in Traced
  BY WireElements
<1>1. ASSUME NEW t \in Traced
      PROVE  /\ late(t) \in Traced /\ late(t).from = t.from /\ late(t).to = t.to /\ late(t).mode = t.mode
             /\ late(t).fate = t.fate /\ late(t).cut = cut(t) /\ late(t).missed = missed(t)
  <2>1. t.cut \in BOOLEAN /\ t.missed \in BOOLEAN
    BY DEF Traced
  <2>2. cut(t) \in BOOLEAN /\ missed(t) \in BOOLEAN
    OBVIOUS
  <2> HIDE DEF cut, missed
  <2> QED
    BY <2>2 DEF Traced
<1>2. trace' = [i \in DOMAIN trace |-> late(trace[i])]
  BY DEF CutsBut
<1> HIDE DEF late
<1>3. DOMAIN trace' = DOMAIN trace /\ \A id \in DOMAIN trace : trace'[id] = late(trace[id])
  BY <1>2
<1>4. trace' \in [1..Len(trace) -> Traced]
  BY <1>1, <1>2, <1>a
<1>5. trace' \in Seq(Traced) /\ Len(trace') = Len(trace)
  BY <1>4, <1>a
<1>6. \A id \in DOMAIN trace : /\ trace'[id].cut = cut(trace[id]) /\ trace'[id].missed = missed(trace[id])
                               /\ trace'[id].from = trace[id].from /\ trace'[id].to = trace[id].to
                               /\ trace'[id].mode = trace[id].mode /\ trace'[id].fate = trace[id].fate
  BY <1>1, <1>3, <1>a
<1> QED
  BY <1>3, <1>5, <1>6

\* A call drops some of what is under way, and the trace tells which ways it cut.
LEMMA CallKeeps ==
  ASSUME IInv, WireInv, bounds' = bounds, Here \subseteq Here', Here' \subseteq Ids,
         \A p \in Here' : peers'[p].believes \in {None} \cup Here',
         outbox' \in [Ids -> Seq(Encoded)'], inbox' = inbox, resolved' = resolved, frame' = frame,
         flight' \subseteq flight,
         lastReliable' \in [Links -> Nat], nextSeq' \in [Links -> Nat],
         flight' = {} \/ UNCHANGED <<lastReliable, nextSeq>>,
         trace' \in Seq(Traced), DOMAIN trace' = DOMAIN trace,
         \A id \in DOMAIN trace :
           /\ trace'[id].from = trace[id].from /\ trace'[id].to = trace[id].to
           /\ trace'[id].mode = trace[id].mode /\ trace'[id].fate = trace[id].fate
           /\ trace[id].cut => trace'[id].cut
           /\ ~trace'[id].cut => CanSend(peers'[trace[id].from].at) /\ CanReceive(peers'[trace[id].to].at),
         \A p \in flight : p.id # 0 /\ p \notin flight' => trace'[p.id].cut,
         \A p \in flight' : p.id # 0 => ~trace'[p.id].missed
  PROVE  WireInv'
<1>a. WireTyped /\ WireFacts
  BY DEF WireInv
<1>b. Here = 1..Len(peers) /\ Here \subseteq Ids
  BY HereIs DEF IInv
<1>1. Ids' = Ids /\ Links' = Links
  BY DEF Ids, Links
<1>2. WireTyped'
  <2>1. /\ Seq(Encoded) \subseteq Seq(Encoded)' /\ Seq(Resolved) \subseteq Seq(Resolved)'
        /\ Seq(Flying) \subseteq Seq(Flying)' /\ Seq(Traced) \subseteq Seq(Traced)'
    BY KindsGrow, ListsGrow
  <2>2. inbox \in [Ids -> Seq(Flying)'] /\ resolved \in Seq(Resolved)' /\ trace' \in Seq(Traced)'
    BY <1>a, <2>1 DEF WireTyped
  <2>3. flight' \in SUBSET Flying' /\ IsFiniteSet(flight')
    BY <1>a, KindsGrow, FS_Subset DEF WireTyped
  <2>4. frame \in Nat
    BY <1>a DEF WireTyped
  <2> QED
    BY <1>1, <2>2, <2>3, <2>4 DEF WireTyped
<1>3. \A p : Known(p) => Known(p)'
  BY DEF Known
<1>4. FlightKnown' /\ FlightComing'
  BY <1>a, <1>3 DEF WireFacts, FlightKnown, FlightComing
<1>5. FlightNumbered' /\ FlightOrdered'
  <2>1. CASE flight' = {}
    BY <2>1 DEF FlightNumbered, FlightOrdered
  <2>2. CASE UNCHANGED <<lastReliable, nextSeq>>
    BY <1>a, <2>2 DEF WireFacts, FlightNumbered, FlightOrdered
  <2> QED
    BY <2>1, <2>2
<1>6. ArrivedKnown' /\ ArrivedOrdered'
  <2>1. ArrivedKnown'
    BY <1>a, <1>1, <1>3 DEF WireFacts, ArrivedKnown
  <2>2. ArrivedOrdered'
    BY <1>a, <1>1 DEF WireFacts, ArrivedOrdered
  <2> QED
    BY <2>1, <2>2
<1>7. Counted'
  <2> SUFFICES ASSUME NEW id \in DOMAIN trace
               PROVE  /\ Cardinality(Places(id))' + Cardinality(Copies(id))' <= Times(trace'[id].fate)
                      /\ ~trace'[id].cut =>
                           Cardinality(Places(id))' + Cardinality(Copies(id))' = Times(trace'[id].fate)
    BY DEF Counted, Times
  <2>1. Places(id)' = Places(id)
    BY DEF Places
  <2>2. Copies(id)' \subseteq Copies(id) /\ IsFiniteSet(Copies(id))
    BY <1>a, FS_Subset DEF Copies, WireTyped
  <2>3. /\ Cardinality(Copies(id)') <= Cardinality(Copies(id))
        /\ Cardinality(Copies(id)) \in Nat /\ Cardinality(Copies(id)') \in Nat
    BY <2>2, FS_Subset, FS_CardinalityType
  <2>4. Cardinality(Places(id)) \in Nat
    <3>1. trace[id].to \in Here /\ trace[id].to \in Ids
      BY <1>a, <1>b, WireElements DEF Traced
    <3>2. /\ Len(inbox[trace[id].to]) \in Nat
          /\ DOMAIN inbox[trace[id].to] = 1..Len(inbox[trace[id].to])
      BY <1>a, <3>1, WireElements
    <3>3. IsFiniteSet(Places(id))
      BY <3>2, HowManyNumbers, FS_Subset DEF Places
    <3> QED
      BY <3>3, FS_CardinalityType
  <2>5. /\ Cardinality(Places(id)) + Cardinality(Copies(id)) <= Times(trace[id].fate)
        /\ ~trace[id].cut => Cardinality(Places(id)) + Cardinality(Copies(id)) = Times(trace[id].fate)
    BY <1>a DEF WireFacts, Counted
  <2>6. ~trace'[id].cut => Copies(id)' = Copies(id)
    <3> SUFFICES ASSUME ~trace'[id].cut, NEW p \in Copies(id) PROVE p \in Copies(id)'
      BY <2>2
    <3>1. p \in flight /\ p.id = id /\ id # 0
      BY <1>a, WireElements DEF Copies
    <3> QED
      BY <3>1 DEF Copies
  <2>7. Times(trace[id].fate) \in Nat
    BY DEF Times
  <2>8. trace'[id].fate = trace[id].fate
    OBVIOUS
  <2> HIDE DEF Times
  <2> QED
    BY <2>1, <2>3, <2>4, <2>5, <2>6, <2>7, <2>8
<1>8. WaysOpen'
  BY <1>a DEF WireFacts, WaysOpen
<1> QED
  BY <1>2, <1>4, <1>5, <1>6, <1>7, <1>8 DEF WireInv, WireFacts

\* Giving a seat, or taking one, leaves attachments and who is believed to host.
Alike(r, ps) ==
  DOMAIN r = DOMAIN ps /\ \A q \in DOMAIN ps : r[q].at = ps[q].at /\ r[q].believes = ps[q].believes

\* Giving a seat.
LEMMA SeatIsAlike ==
  ASSUME NEW ps \in Seq(Peer), NEW h, NEW who
  PROVE  Alike(Seat(ps, h, who), ps)
BY DEF Seat, Alike, Peer

\* Taking one.
LEMMA UnseatIsAlike ==
  ASSUME NEW ps \in Seq(Peer), NEW x
  PROVE  Alike(Unseat(ps, x), ps)
<1>1. ASSUME NEW h, NEW S PROVE Alike([ps EXCEPT ![h].seats = @ \ S], ps)
  BY DEF Alike, Peer
<1>2. Alike(ps, ps)
  BY DEF Alike
<1> QED
  BY <1>1, <1>2 DEF Unseat

\* How a call that changes one peer's attachment treats the packets under way.
DropsFor(p, at) ==
  \/ KeepAll /\ (CanReceive(peers[p].at) => CanReceive(at))
  \/ DropTo(p) /\ ~CanReceive(at)
  \/ DropBoth(p) /\ ~CanReceive(at) /\ ~CanSend(at)
  \/ DropFrom(p) /\ ~CanSend(at) /\ CanReceive(at)

\* A call that changes the attachment of one peer only.
LEMMA OneCut ==
  ASSUME IInv, WireInv, NEW p \in Ids, NEW swept, bounds' = bounds, Here \subseteq Here', Here' \subseteq Ids,
         \A q \in Here : q # p /\ q \notin swept => peers'[q].at = peers[q].at,
         \A q \in Here' : peers'[q].believes \in {None} \cup Here',
         outbox' \in [Ids -> Seq(Encoded)'], UNCHANGED <<inbox, resolved, frame>>,
         CutsBut(swept), p \notin Here => KeepAll, p \in Here => DropsFor(p, peers'[p].at)
  PROVE  WireInv'
<1>a. WireTyped /\ WireFacts
  BY DEF WireInv
<1>1. /\ flight' \subseteq flight /\ UNCHANGED <<lastReliable, nextSeq>>
      /\ \A x \in flight : x \notin flight' => ~CanReceive(peers'[x.to].at) \/ ~CanSend(peers'[x.from].at)
      /\ \A x \in flight' : x.to = p /\ p \in Here /\ CanReceive(peers[p].at) => CanReceive(peers'[p].at)
  <2>1. \A x \in flight : x.from \in Here /\ x.to \in Here /\ <<x.from, x.to>> \in Links
    <3>1. Here \subseteq Ids
      BY HereIs DEF IInv
    <3> QED
      BY <1>a, <3>1, WireElements DEF Flying, Links
  <2>2. CASE KeepAll /\ (p \in Here => (CanReceive(peers[p].at) => CanReceive(peers'[p].at)))
    BY <2>2 DEF KeepAll, wire
  <2>3. CASE DropTo(p) /\ ~CanReceive(peers'[p].at)
    BY <2>1, <2>3 DEF DropTo, Keeping
  <2>4. CASE DropBoth(p) /\ ~CanReceive(peers'[p].at) /\ ~CanSend(peers'[p].at)
    BY <2>1, <2>4 DEF DropBoth, Keeping
  <2>5. CASE DropFrom(p) /\ ~CanSend(peers'[p].at) /\ CanReceive(peers'[p].at)
    BY <2>1, <2>5 DEF DropFrom, Keeping
  <2> QED
    BY <2>2, <2>3, <2>4, <2>5 DEF DropsFor
<1>2. /\ trace' \in Seq(Traced) /\ DOMAIN trace' = DOMAIN trace
      /\ \A id \in DOMAIN trace :
           /\ trace'[id].from = trace[id].from /\ trace'[id].to = trace[id].to
           /\ trace'[id].mode = trace[id].mode /\ trace'[id].fate = trace[id].fate
           /\ trace[id].cut => trace'[id].cut
           /\ ~trace'[id].cut <=> /\ ~trace[id].cut
                                  /\ CanSend(peers'[trace[id].from].at) /\ CanReceive(peers'[trace[id].to].at)
           /\ trace'[id].missed <=> \/ trace[id].missed
                                    \/ /\ ~CanReceive(peers'[trace[id].to].at)
                                       /\ CanReceive(peers[trace[id].to].at) /\ trace[id].to \notin swept
  BY <1>a, CutsIs
<1>3. \A x \in flight : x.id # 0 =>
        /\ x.id \in DOMAIN trace /\ trace[x.id].from = x.from /\ trace[x.id].to = x.to
        /\ x.to \in Here /\ ~trace[x.id].missed
  BY <1>a, WireElements DEF WireFacts, FlightKnown, Known, Flying
<1>4. \A x \in flight : x.id # 0 /\ x \notin flight' => trace'[x.id].cut
  BY <1>1, <1>2, <1>3
<1>5. \A x \in flight' : x.id # 0 => ~trace'[x.id].missed
  <2> SUFFICES ASSUME NEW x \in flight', x.id # 0, trace'[x.id].missed PROVE FALSE
    OBVIOUS
  <2>1. /\ x \in flight /\ x.to \in Here /\ x.to \notin swept
        /\ ~CanReceive(peers'[x.to].at) /\ CanReceive(peers[x.to].at)
    BY <1>1, <1>2, <1>3
  <2>2. x.to = p
    BY <2>1
  <2> QED
    BY <1>1, <2>1, <2>2
<1>6. lastReliable \in [Links -> Nat] /\ nextSeq \in [Links -> Nat]
  BY <1>a DEF WireTyped
<1> QED
  BY <1>1, <1>2, <1>4, <1>5, <1>6, CallKeeps

\* A call that changes one peer, and may give a seat or take one.
LEMMA OneAlike ==
  ASSUME IInv, WireInv, NEW p \in Here, NEW new \in Peer, new.believes \in {None} \cup Here,
         LET ps == [peers EXCEPT ![p] = new]
         IN peers' = ps \/ (\E h, who : peers' = Seat(ps, h, who)) \/ (\E x : peers' = Unseat(ps, x)),
         bounds' = bounds,
         outbox' \in [Ids -> Seq(Encoded)], UNCHANGED <<inbox, resolved, frame>>, Cuts,
         DropsFor(p, new.at)
  PROVE  WireInv'
<1> DEFINE ps == [peers EXCEPT ![p] = new]
<1>a. peers \in Seq(Peer) /\ DOMAIN peers = Here /\ Here \subseteq Ids
  BY HereIs DEF IInv, Typed, Here
<1>b. ps \in Seq(Peer) /\ DOMAIN ps = Here /\ ps[p] = new /\ \A q \in Here : q # p => ps[q] = peers[q]
  BY <1>a, ChangedIs
<1>c. Alike(peers', ps)
  <2>1. peers' = ps \/ (\E h, who : peers' = Seat(ps, h, who)) \/ (\E x : peers' = Unseat(ps, x))
    OBVIOUS
  <2> HIDE DEF ps
  <2>2. Alike(ps, ps)
    BY DEF Alike
  <2> QED
    BY <1>b, <2>1, <2>2, SeatIsAlike, UnseatIsAlike
<1> HIDE DEF ps
<1>1. Here' = Here
  BY <1>b, <1>c DEF Alike, Here
<1>2. \A q \in Here : IF q = p THEN peers'[q].at = new.at /\ peers'[q].believes = new.believes
                               ELSE peers'[q].at = peers[q].at /\ peers'[q].believes = peers[q].believes
  BY <1>b, <1>c DEF Alike
<1>3. \A q \in Here' : peers'[q].believes \in {None} \cup Here'
  BY <1>1, <1>2 DEF WireInv, WireTyped
<1>4. Encoded' = Encoded
  BY <1>1 DEF Encoded
<1>5. CutsBut({})
  BY DEF Cuts
<1>6. p \in Ids /\ peers'[p].at = new.at /\ \A q \in Here : q # p => peers'[q].at = peers[q].at
  BY <1>a, <1>2
<1> QED
  BY <1>1, <1>3, <1>4, <1>5, <1>6, <1>a, OneCut

\* The outboxes are not touched by most calls.
LEMMA OutboxStays ==
  ASSUME WireInv
  PROVE  outbox \in [Ids -> Seq(Encoded)] /\ \A q \in Here : peers[q].believes \in {None} \cup Here
BY DEF WireInv, WireTyped

\* What each call does to the wire: who attaches gets nothing that was sent before.
LEMMA PromoteOnWire ==
  ASSUME IInv, WireInv, NEW p \in Here, Promote(p)
  PROVE  WireInv'
<1> DEFINE new == [peers[p] EXCEPT !.at = "connected", !.lobby = "lobby"]
<1>a. peers[p] \in Peer
  BY HereIs DEF IInv
<1>1. new \in Peer /\ new.at = "connected" /\ new.believes = peers[p].believes
  BY <1>a DEF Peer, Attachments, Lobbies
<1>2. peers' = Seat([peers EXCEPT ![p] = new], host, {p})
  BY DEF Promote
<1> HIDE DEF new
<1>3. DropsFor(p, new.at)
  BY <1>1 DEF DropsFor, Promote, CanReceive
<1> QED
  BY <1>1, <1>2, <1>3, OneAlike, OutboxStays DEF Promote, apps, Call

\* Who is disconnected loses what is under way to it.
LEMMA DisconnectOnWire ==
  ASSUME IInv, WireInv, NEW p \in Here, Disconnect(p)
  PROVE  WireInv'
<1> DEFINE new == [peers[p] EXCEPT !.at = "disconnected"]
<1>a. peers[p] \in Peer
  BY HereIs DEF IInv
<1>1. new \in Peer /\ new.at = "disconnected" /\ new.believes = peers[p].believes
  BY <1>a DEF Peer, Attachments
<1>2. peers' = Unseat([peers EXCEPT ![p] = new], p)
  BY DEF Disconnect
<1> HIDE DEF new
<1>3. DropsFor(p, new.at)
  BY <1>1 DEF DropsFor, Disconnect, CanReceive
<1> QED
  BY <1>1, <1>2, <1>3, OneAlike, OutboxStays DEF Disconnect, apps, Call, Unchanged

\* A broken link loses what is under way in both directions.
LEMMA BreakLinkOnWire ==
  ASSUME IInv, WireInv, NEW p \in Here, BreakLink(p)
  PROVE  WireInv'
<1> DEFINE told == OnHostLost(peers[p])
           ended == HasLobby(peers[p]) /\ ~HasLobby(told)
           new == [told EXCEPT !.at = IF ended THEN "left" ELSE "disconnected",
                               !.lobby = IF ended THEN "none" ELSE @]
<1>a. peers[p] \in Peer
  BY HereIs DEF IInv
<1>b. told \in Peer /\ told.believes = peers[p].believes
  BY <1>a DEF OnHostLost, EndSession, WithoutLobby, Peer, Lobbies, Waits
<1>1. new \in Peer /\ new.at \in {"left", "disconnected"} /\ new.believes = peers[p].believes
  <2> HIDE DEF told, ended
  <2> QED
    BY <1>b DEF Peer, Attachments, Lobbies
<1>2. peers' = Unseat([peers EXCEPT ![p] = new], p)
  BY DEF BreakLink
<1> HIDE DEF new
<1>3. DropsFor(p, new.at)
  BY <1>1 DEF DropsFor, BreakLink, CanReceive, CanSend
<1> QED
  BY <1>1, <1>2, <1>3, OneAlike, OutboxStays DEF BreakLink, apps, Call, Unchanged

\* Who is half open still receives.
LEMMA HalfOpenOnWire ==
  ASSUME IInv, WireInv, NEW p \in Here, HalfOpen(p)
  PROVE  WireInv'
<1> DEFINE new == [peers[p] EXCEPT !.at = "halfOpen"]
<1>a. peers[p] \in Peer
  BY HereIs DEF IInv
<1>1. new \in Peer /\ new.at = "halfOpen" /\ new.believes = peers[p].believes
  BY <1>a DEF Peer, Attachments
<1>2. peers' = [peers EXCEPT ![p] = new]
  BY DEF HalfOpen
<1> HIDE DEF new
<1>3. DropsFor(p, new.at)
  BY <1>1 DEF DropsFor, HalfOpen, CanReceive, CanSend
<1> QED
  BY <1>1, <1>2, <1>3, OneAlike, OutboxStays DEF HalfOpen, apps, Call, Unchanged

\* Who comes back finds the wire as it was left.
LEMMA ReconnectOnWire ==
  ASSUME IInv, WireInv, NEW p \in Here, Reconnect(p)
  PROVE  WireInv'
<1> DEFINE new == [peers[p] EXCEPT !.at = "connected"]
           seated == peers[p].at = "disconnected" /\ ~peers[p].isHost /\ HasHost
<1>a. peers[p] \in Peer
  BY HereIs DEF IInv
<1>1. new \in Peer /\ new.at = "connected" /\ new.believes = peers[p].believes
  BY <1>a DEF Peer, Attachments
<1>2. peers' = IF seated THEN Seat([peers EXCEPT ![p] = new], host, {p}) ELSE [peers EXCEPT ![p] = new]
  BY DEF Reconnect
<1> HIDE DEF new
<1>3. DropsFor(p, new.at)
  BY <1>1 DEF DropsFor, Reconnect, CanReceive
<1> QED
  BY <1>1, <1>2, <1>3, OneAlike, OutboxStays DEF Reconnect, apps, Call

\* Who leaves takes what is under way with it, and believes nobody to host.
LEMMA LeaveOnWire ==
  ASSUME IInv, WireInv, NEW p \in Here, Leave(p)
  PROVE  WireInv'
<1> DEFINE new == [WithoutLobby(peers[p], "none") EXCEPT !.at = "left", !.believes = None]
<1>a. peers[p] \in Peer
  BY HereIs DEF IInv
<1>1. new \in Peer /\ new.at = "left" /\ new.believes = None
  BY <1>a DEF Peer, WithoutLobby, Attachments, Lobbies, Waits
<1>2. peers' = Unseat([peers EXCEPT ![p] = new], p)
  BY DEF Leave
<1> HIDE DEF new
<1>3. DropsFor(p, new.at)
  BY <1>1 DEF DropsFor, Leave, CanReceive, CanSend
<1> QED
  BY <1>1, <1>2, <1>3, OneAlike, OutboxStays DEF Leave, apps, Call, Unchanged

\* Who joins again believes who hosts now.
LEMMA RejoinOnWire ==
  ASSUME IInv, WireInv, NEW p \in Here, Rejoin(p)
  PROVE  WireInv'
<1> DEFINE new == [peers[p] EXCEPT !.at = "connected", !.lobby = "lobby", !.believes = host]
<1>a. peers[p] \in Peer
  BY HereIs DEF IInv
<1>b. host \in Here /\ host \in Ids
  BY HereIs, HostIs DEF IInv, SeatInv, Rejoin, Seating
<1>1. new \in Peer /\ new.at = "connected" /\ new.believes = host
  BY <1>a, <1>b DEF Peer, Attachments, Lobbies
<1>2. peers' = Seat([peers EXCEPT ![p] = new], host, {p})
  BY DEF Rejoin
<1> HIDE DEF new
<1>3. DropsFor(p, new.at)
  BY <1>1 DEF DropsFor, Rejoin, CanReceive
<1> QED
  BY <1>1, <1>2, <1>3, <1>b, OneAlike, OutboxStays DEF Rejoin, apps, Call

\* What an app does with its lobby is not seen on the wire.
LEMMA AppOnWire ==
  ASSUME IInv, WireInv, NEW p \in Here, LeaveOnRequest(p) \/ Resumes(p) \/ GivesUp(p)
  PROVE  WireInv'
<1>a. peers[p] \in Peer
  BY HereIs DEF IInv
<1>1. PICK new \in Peer : /\ peers' = [peers EXCEPT ![p] = new] /\ new.at = peers[p].at
                          /\ new.believes = peers[p].believes
  <2>1. CASE LeaveOnRequest(p)
    <3> DEFINE n == WithoutLobby(peers[p], "over")
    <3>1. n \in Peer /\ n.at = peers[p].at /\ n.believes = peers[p].believes
      BY <1>a DEF Peer, WithoutLobby, Lobbies, Waits
    <3>2. peers' = [peers EXCEPT ![p] = n]
      BY <2>1 DEF LeaveOnRequest
    <3> HIDE DEF n
    <3> QED
      BY <3>1, <3>2
  <2>2. CASE Resumes(p)
    <3> DEFINE n == [peers[p] EXCEPT !.waits = "no"]
    <3>1. n \in Peer /\ n.at = peers[p].at /\ n.believes = peers[p].believes
      BY <1>a DEF Peer, Waits
    <3>2. peers' = [peers EXCEPT ![p] = n]
      BY <2>2 DEF Resumes
    <3> HIDE DEF n
    <3> QED
      BY <3>1, <3>2
  <2>3. CASE GivesUp(p)
    <3> DEFINE n == EndSession(peers[p])
    <3>1. n \in Peer /\ n.at = peers[p].at /\ n.believes = peers[p].believes
      BY <1>a DEF EndSession, Peer, WithoutLobby, Lobbies, Waits
    <3>2. peers' = [peers EXCEPT ![p] = n]
      BY <2>3 DEF GivesUp
    <3> HIDE DEF n
    <3> QED
      BY <3>1, <3>2
  <2> QED
    BY <2>1, <2>2, <2>3
<1>2. bounds' = bounds /\ outbox' = outbox /\ InApp
  BY DEF LeaveOnRequest, Resumes, GivesUp, Call
<1>3. DropsFor(p, new.at)
  BY <1>1, <1>2 DEF DropsFor, InApp
<1>4. new \in Peer
  BY <1>1
<1> QED
  BY <1>1, <1>2, <1>3, <1>4, OneAlike, OutboxStays DEF InApp

\* One more packet in an outbox.
LEMMA OneMore ==
  ASSUME WireInv, NEW p \in Ids, NEW packet \in Encoded, outbox' = [outbox EXCEPT ![p] = Append(@, packet)]
  PROVE  outbox' \in [Ids -> Seq(Encoded)]
<1>1. outbox \in [Ids -> Seq(Encoded)]
  BY OutboxStays
<1>2. Append(outbox[p], packet) \in Seq(Encoded)
  BY <1>1
<1> QED
  BY <1>1, <1>2

\* An app leaves a packet in its outbox, to a seat it has or to its lobby.
LEMMA EncodeOnWire ==
  ASSUME IInv, WireInv, NEW p \in Here, NEW mode \in Modes, NEW big \in May(bounds.link.limit),
         Encode(p, mode, big)
  PROVE  WireInv'
<1>a. peers[p] \in Peer /\ p \in Ids /\ peers \in Seq(Peer) /\ DOMAIN peers = Here
  BY HereIs DEF IInv, Typed, Here
<1>1. big \in BOOLEAN
  BY DEF May
<1>2. PICK address \in IF peers[p].hosts THEN peers[p].seats ELSE {[nth |-> 0, of |-> p]} :
        outbox' = [outbox EXCEPT ![p] = Append(@, Packet(address, mode, big))]
  BY DEF Encode
<1>3. address \in [nth : Nat, of : Here]
  <2>1. peers[p].seats \in SUBSET [nth : Nat, of : Ids] /\ \A s \in peers[p].seats : s.of \in Here
    BY <1>a, PeerFields DEF IInv, SeatInv, SeatsOfPeers
  <2>2. [nth |-> 0, of |-> p] \in [nth : Nat, of : Here]
    OBVIOUS
  <2>3. CASE peers[p].hosts
    BY <1>2, <2>1, <2>3
  <2>4. CASE ~peers[p].hosts
    BY <1>2, <2>2, <2>4
  <2> QED
    BY <2>3, <2>4
<1>4. Packet(address, mode, big) \in Encoded
  BY <1>1, <1>3 DEF Packet, Encoded
<1>5. outbox' \in [Ids -> Seq(Encoded)]
  BY <1>2, <1>4, <1>a, OneMore
<1>6. peers' = peers /\ peers = [peers EXCEPT ![p] = peers[p]] /\ bounds' = bounds /\ InApp
  BY <1>a DEF Encode
<1>7. DropsFor(p, peers[p].at)
  BY <1>6 DEF DropsFor, InApp
<1>8. peers[p].believes \in {None} \cup Here
  BY OutboxStays
<1> QED
  BY <1>5, <1>6, <1>7, <1>8, <1>a, OneAlike DEF InApp

\* The player removed is told so.
LEMMA KickOnWire ==
  ASSUME IInv, WireInv, NEW p \in Here, NEW seat \in peers[p].seats, Kick(p, seat)
  PROVE  WireInv'
<1> DEFINE new == [peers[p] EXCEPT !.seats = @ \ {seat}]
<1>a. peers[p] \in Peer /\ p \in Ids
  BY HereIs DEF IInv
<1>1. new \in Peer /\ new.at = peers[p].at /\ new.believes = peers[p].believes
  BY <1>a DEF Peer
<1>2. peers' = [peers EXCEPT ![p] = new] /\ bounds' = bounds /\ InApp
  BY DEF Kick, Call
<1> HIDE DEF new
<1>3. Packet(seat, "reliable", FALSE) \in Encoded
  <2>1. seat \in [nth : Nat, of : Ids] /\ seat.of \in Here
    BY <1>a, PeerFields DEF IInv, SeatInv, SeatsOfPeers
  <2> QED
    BY <2>1 DEF Packet, Encoded, Modes
<1>4. outbox' = [outbox EXCEPT ![p] = Append(@, Packet(seat, "reliable", FALSE))]
  BY DEF Kick
<1>5. outbox' \in [Ids -> Seq(Encoded)]
  BY <1>3, <1>4, <1>a, OneMore
<1>6. DropsFor(p, new.at)
  BY <1>1, <1>2 DEF DropsFor, InApp
<1> QED
  BY <1>1, <1>2, <1>5, <1>6, OneAlike, OutboxStays DEF InApp

\* A call that adds one peer.
LEMMA OneAdded ==
  ASSUME IInv, WireInv, NEW new \in Peer, new.believes \in {None} \cup 1..(Len(peers) + 1),
         LET ps == Append(peers, new)
         IN peers' = ps \/ (\E h, who : peers' = Seat(ps, h, who)),
         bounds' = bounds, AddedPeer
  PROVE  WireInv'
<1> DEFINE ps == Append(peers, new)
           p == Len(peers) + 1
<1>a. /\ peers \in Seq(Peer) /\ Here = 1..Len(peers) /\ Len(peers) \in Nat
      /\ Here \subseteq Ids /\ bounds.peers \in Nat /\ Len(peers) < bounds.peers
  BY HereIs DEF IInv, Typed, AddedPeer
<1>b. /\ ps \in Seq(Peer) /\ DOMAIN ps = 1..p /\ ps[p] = new
      /\ \A q \in Here : ps[q] = peers[q]
  BY <1>a
<1>c. Alike(peers', ps)
  <2>1. peers' = ps \/ (\E h, who : peers' = Seat(ps, h, who))
    OBVIOUS
  <2> HIDE DEF ps, p
  <2>2. Alike(ps, ps)
    BY DEF Alike
  <2> QED
    BY <1>b, <2>1, <2>2, SeatIsAlike
<1> HIDE DEF ps
<1>1. Here' = 1..p /\ Here \subseteq Here' /\ p \in Ids /\ Here' \subseteq Ids /\ p \notin Here
  BY <1>a, <1>b, <1>c DEF Alike, Here, Ids
<1>2. /\ \A q \in Here : peers'[q].at = peers[q].at /\ peers'[q].believes = peers[q].believes
      /\ peers'[p].believes = new.believes
  BY <1>a, <1>b, <1>c DEF Alike
<1>3. \A q \in Here' : peers'[q].believes \in {None} \cup Here'
  <2>1. \A q \in Here : peers[q].believes \in {None} \cup Here
    BY OutboxStays
  <2>2. \A q \in Here' : q \in Here \/ q = p
    BY <1>1, <1>a
  <2> HIDE DEF p
  <2> QED
    BY <1>1, <1>2, <2>1, <2>2 DEF p
<1>4. outbox' \in [Ids -> Seq(Encoded)']
  <2>1. Seq(Encoded) \subseteq Seq(Encoded)'
    BY <1>1, KindsGrow, ListsGrow
  <2>2. outbox \in [Ids -> Seq(Encoded)] /\ outbox' = outbox
    BY OutboxStays DEF AddedPeer, apps
  <2> QED
    BY <2>1, <2>2
<1>5. CutsBut({}) /\ KeepAll /\ UNCHANGED <<inbox, resolved, frame>>
  BY DEF AddedPeer, Cuts, KeepAll, apps
<1> HIDE DEF p
<1> QED
  BY <1>1, <1>2, <1>3, <1>4, <1>5, OneCut

\* A peer that is added believes the host there is.
LEMMA AddOnWire ==
  ASSUME IInv, WireInv, AddHost \/ AddClient \/ AddPendingClient
  PROVE  WireInv'
<1>a. Len(peers) \in Nat /\ Here = 1..Len(peers) /\ bounds.peers \in Nat /\ Here \subseteq Ids
  BY HereIs DEF IInv
<1>b. HasHost => host \in Here
  BY HostIs DEF IInv, SeatInv
<1>1. CASE AddHost
  <2> DEFINE new == [NewPeer("connected", "lobby", 1) EXCEPT !.isHost = TRUE, !.hosts = TRUE]
  <2>1. Len(peers) = 0 /\ peers = <<>> /\ 1 \in Ids
    <3>1. Len(peers) = 0 /\ peers = <<>>
      BY <1>1, <1>a DEF AddHost, IInv, Typed, Here
    <3>2. 1 <= bounds.peers
      BY <1>1, <1>a, <3>1 DEF AddHost, AddedPeer
    <3> QED
      BY <1>a, <3>1, <3>2 DEF Ids
  <2>2. new \in Peer /\ new.believes = 1
    BY <2>1 DEF NewPeer, Peer, Attachments, Lobbies, Waits
  <2>3. peers' = <<new>>
    BY <1>1 DEF AddHost
  <2> HIDE DEF new
  <2>4. peers' = Append(peers, new)
    BY <2>1, <2>3
  <2> QED
    BY <1>1, <2>1, <2>2, <2>4, OneAdded DEF AddHost, Call
<1>2. CASE AddClient
  <2> DEFINE new == NewPeer("connected", "lobby", host)
  <2>1. host \in Here
    BY <1>2, <1>b DEF AddClient, Seating
  <2>2. new \in Peer /\ new.believes = host
    BY <1>a, <2>1 DEF NewPeer, Peer, Attachments, Lobbies, Waits
  <2>3. \E h, who : peers' = Seat(Append(peers, new), h, who)
    BY <1>2 DEF AddClient
  <2>4. host \in 1..(Len(peers) + 1)
    BY <1>a, <2>1
  <2> HIDE DEF new
  <2> QED
    BY <1>2, <2>2, <2>3, <2>4, OneAdded DEF AddClient, Call
<1>3. CASE AddPendingClient
  <2> DEFINE new == NewPeer("pending", "pending", host)
  <2>1. host \in Here
    BY <1>3, <1>b DEF AddPendingClient
  <2>2. new \in Peer /\ new.believes = host
    BY <1>a, <2>1 DEF NewPeer, Peer, Attachments, Lobbies, Waits
  <2>3. peers' = Append(peers, new)
    BY <1>3 DEF AddPendingClient
  <2>4. host \in 1..(Len(peers) + 1)
    BY <1>a, <2>1
  <2> HIDE DEF new
  <2> QED
    BY <1>3, <2>2, <2>3, <2>4, OneAdded DEF AddPendingClient, Call
<1> QED
  BY <1>1, <1>2, <1>3

\* A new lobby has nothing under way.
LEMMA RehostOnWire ==
  ASSUME IInv, WireInv, NEW new \in Here, Rehost(new)
  PROVE  WireInv'
<1>a. /\ Typed /\ WireTyped /\ Here = 1..Len(peers) /\ Len(peers) \in Nat /\ Here \subseteq Ids
      /\ \A p \in Here : peers[p] \in Peer
  BY HereIs DEF IInv, WireInv
<1>1. Here' = Here
  BY DEF Rehost, Here
<1>2. \A p \in Here : peers'[p].believes \in {None} \cup Here
  <2> SUFFICES ASSUME NEW p \in Here PROVE peers'[p].believes \in {None} \cup Here
    OBVIOUS
  <2>1. CASE p = new
    BY <2>1 DEF Rehost, NewPeer
  <2>2. CASE p # new
    BY <1>a, <2>2 DEF Rehost, WithoutLobby, Peer
  <2> QED
    BY <2>1, <2>2
<1>3. /\ bounds' = bounds /\ flight' = {} /\ lastReliable' = [l \in Links |-> 0] /\ nextSeq' = [l \in Links |-> 0]
      /\ UNCHANGED <<outbox, inbox, resolved, frame>>
  BY DEF Rehost, Call, apps
<1>4. outbox' \in [Ids -> Seq(Encoded)']
  BY <1>1, <1>3, OutboxStays DEF Encoded
<1>5. lastReliable' \in [Links -> Nat] /\ nextSeq' \in [Links -> Nat]
  BY <1>3
<1>6. /\ trace' \in Seq(Traced) /\ DOMAIN trace' = DOMAIN trace
      /\ \A id \in DOMAIN trace :
           /\ trace'[id].from = trace[id].from /\ trace'[id].to = trace[id].to
           /\ trace'[id].mode = trace[id].mode /\ trace'[id].fate = trace[id].fate
           /\ trace'[id].cut
  <2> DEFINE late(t) == [t EXCEPT !.cut = TRUE, !.missed = @ \/ CanReceive(peers[t.to].at)]
  <2>1. ASSUME NEW t \in Traced
        PROVE  /\ late(t) \in Traced /\ late(t).from = t.from /\ late(t).to = t.to
               /\ late(t).mode = t.mode /\ late(t).fate = t.fate /\ late(t).cut
    <3>1. (t.missed \/ CanReceive(peers[t.to].at)) \in BOOLEAN
      OBVIOUS
    <3> QED
      BY <3>1 DEF Traced
  <2>2. trace' = [i \in DOMAIN trace |-> late(trace[i])]
    BY DEF Rehost, CutsAll
  <2>3. /\ Len(trace) \in Nat /\ DOMAIN trace = 1..Len(trace) /\ \A id \in DOMAIN trace : trace[id] \in Traced
    BY <1>a, WireElements
  <2> HIDE DEF late
  <2>4. trace' \in [1..Len(trace) -> Traced]
    BY <2>1, <2>2, <2>3
  <2>5. trace' \in Seq(Traced)
    BY <2>3, <2>4
  <2> QED
    BY <2>1, <2>2, <2>3, <2>5
<1>7. \A p \in flight : p.id # 0 => p.id \in DOMAIN trace
  BY DEF WireInv, WireFacts, FlightKnown, Known
<1> QED
  BY <1>1, <1>2, <1>3, <1>4, <1>5, <1>6, <1>7, <1>a, CallKeeps

\* What the core does when told leaves its attachment.
LEMMA ToldStays ==
  ASSUME NEW q \in Peer, NEW me, NEW named
  PROVE  /\ OnHostLost(q).believes = q.believes
         /\ OnNewHostNamed(q, me, named).at = q.at
         /\ OnNewHostNamed(q, me, named).believes \in {q.believes, me, named}
BY DEF OnHostLost, OnNewHostNamed, EndSession, WithoutLobby, Peer

\* What is under way to and from a lost host is dropped, and nothing else.
LEMMA LoseHostOnWire ==
  ASSUME IInv, WireInv, NEW how \in {"Quits", "Crashes", "FallsSilent"}, LoseHost(how)
  PROVE  WireInv'
<1>a. /\ host \in Here /\ \A p \in Here : peers[p] \in Peer /\ peers[p].believes \in {None} \cup Here
      /\ Here = 1..Len(peers) /\ Len(peers) \in Nat /\ Here \subseteq Ids
  BY HereIs, HostIs, OutboxStays DEF IInv, SeatInv, LoseHost
<1>b. PICK gone : /\ gone.believes = peers[host].believes /\ gone.at \in {"left", "disconnected"}
                  /\ peers' = [p \in Here |-> IF p = host THEN gone
                                              ELSE IF how = "FallsSilent" THEN peers[p] ELSE Noticed(p)]
  <2>0. peers[host] \in Peer
    BY <1>a
  <2>1. CASE how = "Quits"
    <3> DEFINE g == [WithoutLobby(peers[host], "none") EXCEPT !.at = "left", !.isHost = FALSE]
    <3>1. g.believes = peers[host].believes /\ g.at = "left"
      BY <2>0 DEF WithoutLobby, Peer
    <3> QED
      BY <2>1, <3>1 DEF LoseHost
  <2>2. CASE how = "Crashes"
    <3> DEFINE g == [peers[host] EXCEPT !.at = "left", !.isHost = FALSE, !.crashed = TRUE]
    <3>1. g.believes = peers[host].believes /\ g.at = "left"
      BY <2>0 DEF Peer
    <3> QED
      BY <2>2, <3>1 DEF LoseHost
  <2>3. CASE how = "FallsSilent"
    <3> DEFINE g == [peers[host] EXCEPT !.at = "disconnected"]
    <3>1. g.believes = peers[host].believes /\ g.at = "disconnected"
      BY <2>0 DEF Peer
    <3> QED
      BY <2>3, <3>1 DEF LoseHost
  <2> QED
    BY <2>1, <2>2, <2>3
<1>1. Here' = Here /\ peers'[host].at \in {"left", "disconnected"}
  BY <1>a, <1>b DEF Here
<1>2. \A p \in Here : Noticed(p).believes \in {None, peers[p].believes}
  <2> SUFFICES ASSUME NEW p \in Here PROVE Noticed(p).believes \in {None, peers[p].believes}
    OBVIOUS
  <2>1. OnHostLost(peers[p]).believes = peers[p].believes
    BY <1>a, ToldStays
  <2>2. Left(peers[p]).believes = None
    BY <1>a DEF Left, WithoutLobby, Peer
  <2> QED
    BY <2>1, <2>2 DEF Noticed
<1>3. \A p \in Here' : peers'[p].believes \in {None} \cup Here'
  BY <1>1, <1>2, <1>a, <1>b
<1>4. /\ bounds' = bounds /\ UNCHANGED <<outbox, inbox, resolved, frame>>
      /\ DropBoth(host) /\ CutsBut(Here \ {host})
  BY DEF LoseHost, Call, Unchanged, apps
<1>5. outbox' \in [Ids -> Seq(Encoded)']
  BY <1>1, <1>4, OutboxStays DEF Encoded
<1>6. DropsFor(host, peers'[host].at)
  BY <1>1, <1>4 DEF DropsFor, CanReceive, CanSend
<1> QED
  BY <1>1, <1>3, <1>4, <1>5, <1>6, <1>a, OneCut

\* Who is named changes nobody's attachment.
LEMMA NameHostOnWire ==
  ASSUME IInv, WireInv, NEW new \in Here, NameHost(new)
  PROVE  WireInv'
<1> DEFINE previous == IF HasHost THEN host ELSE lost
           members == Members \ {previous}
           told == [p \in Here |-> IF p \in members THEN OnNewHostNamed(peers[p], p, new) ELSE peers[p]]
           named == [p \in Here |-> [told[p] EXCEPT !.isHost = p = new]]
           seated == {p \in members \ {new} : peers[p].at = "connected"}
<1>a. /\ \A p \in Here : peers[p] \in Peer /\ peers[p].believes \in {None} \cup Here
      /\ Here = 1..Len(peers) /\ Len(peers) \in Nat /\ Here \subseteq Ids
  BY HereIs, OutboxStays DEF IInv
<1>1. peers' = Seat(named, new, seated)
  BY DEF NameHost
<1>2. /\ bounds' = bounds /\ UNCHANGED <<outbox, inbox, resolved, frame>> /\ KeepAll /\ CutsBut({})
  BY DEF NameHost, Call, apps, Cuts
<1>3. \A p \in Here : /\ told[p] \in Peer /\ told[p].at = peers[p].at
                      /\ told[p].believes \in {None} \cup Here
  <2> SUFFICES ASSUME NEW p \in Here
               PROVE  /\ told[p] \in Peer /\ told[p].at = peers[p].at
                      /\ told[p].believes \in {None} \cup Here
    OBVIOUS
  <2>1. /\ OnNewHostNamed(peers[p], p, new) \in Peer /\ OnNewHostNamed(peers[p], p, new).at = peers[p].at
        /\ OnNewHostNamed(peers[p], p, new).believes \in {peers[p].believes, p, new}
    BY <1>a, NamedIs, ToldStays
  <2>2. told[p] = OnNewHostNamed(peers[p], p, new) \/ told[p] = peers[p]
    OBVIOUS
  <2> HIDE DEF told
  <2> QED
    BY <1>a, <2>1, <2>2
<1> HIDE DEF told, seated
<1>4. \A p \in Here : /\ named[p] \in Peer /\ named[p].at = peers[p].at
                      /\ named[p].believes \in {None} \cup Here
  <2> SUFFICES ASSUME NEW p \in Here
               PROVE  /\ named[p] \in Peer /\ named[p].at = peers[p].at
                      /\ named[p].believes \in {None} \cup Here
    OBVIOUS
  <2>1. (p = new) \in BOOLEAN /\ named[p] = [told[p] EXCEPT !.isHost = p = new]
    OBVIOUS
  <2> QED
    BY <1>3, <2>1 DEF Peer
<1>5. named \in Seq(Peer) /\ DOMAIN named = Here
  <2>1. named \in [1..Len(peers) -> Peer]
    BY <1>4, <1>a
  <2> HIDE DEF named
  <2> QED
    BY <1>a, <2>1
<1> HIDE DEF named
<1>6. Alike(peers', named)
  BY <1>1, <1>5, SeatIsAlike
<1>7. /\ Here' = Here
      /\ \A p \in Here : peers'[p].at = peers[p].at /\ peers'[p].believes \in {None} \cup Here
  BY <1>4, <1>5, <1>6 DEF Alike, Here
<1>8. outbox' \in [Ids -> Seq(Encoded)']
  BY <1>2, <1>7, OutboxStays DEF Encoded
<1>9. DropsFor(new, peers'[new].at)
  BY <1>2, <1>7 DEF DropsFor
<1> QED
  BY <1>2, <1>7, <1>8, <1>9, <1>a, OneCut

------------------------------------------------------------------------------
\* What is sent

\* Lists of packets, one after the other, are a list of packets.
LEMMA FlattenIsAList ==
  ASSUME NEW S, NEW n \in Nat, NEW s \in [1..n -> Seq(S)]
  PROVE  FlattenSeq(s) \in Seq(S)
<1> DEFINE fl[i \in 1..Len(s)] == IF i = 1 THEN s[i] ELSE fl[i - 1] \o s[i]
<1>1. Len(s) = n /\ s \in Seq(Seq(S)) /\ \A i \in 1..n : s[i] \in Seq(S)
  OBVIOUS
<1>2. FlattenSeq(s) = IF Len(s) = 0 THEN s ELSE fl[Len(s)]
  BY DEF FlattenSeq
<1>3. CASE n = 0
  BY <1>1, <1>2, <1>3
<1>4. CASE n # 0
  <2> DEFINE m == n - 1
             step == [i \in 1..m |-> [v \in Seq(S) |-> v \o s[i + 1]]]
  <2>1. m \in Nat /\ m + 1 = n /\ s[1] \in Seq(S)
    BY <1>1, <1>4
  <2>2. step \in [1..m -> [Seq(S) -> Seq(S)]]
    <3> SUFFICES ASSUME NEW i \in 1..m, NEW v \in Seq(S) PROVE v \o s[i + 1] \in Seq(S)
      OBVIOUS
    <3>1. i + 1 \in 1..n
      BY <2>1
    <3> QED
      BY <1>1, <3>1
  <2>3. PICK f \in [0..m -> Seq(S)] : Follows(f, s[1], m, step)
    <3> HIDE DEF m, step
    <3> QED
      BY <2>1, <2>2, Folds
  <2> DEFINE g == [i \in 1..n |-> f[i - 1]]
  <2>4. g = [i \in 1..n |-> IF i = 1 THEN s[i] ELSE g[i - 1] \o s[i]]
    <3> SUFFICES ASSUME NEW i \in 1..n PROVE f[i - 1] = IF i = 1 THEN s[i] ELSE g[i - 1] \o s[i]
      OBVIOUS
    <3>1. CASE i = 1
      BY <2>3, <3>1 DEF Follows
    <3>2. CASE i # 1
      <4>1. i - 1 \in 1..m /\ i - 1 \in 1..n /\ (i - 1) - 1 \in 0..m /\ (i - 1) + 1 = i
        BY <2>1, <3>2
      <4>2. f[i - 1] = step[i - 1][f[(i - 1) - 1]] /\ f[(i - 1) - 1] \in Seq(S)
        BY <2>3, <4>1 DEF Follows
      <4>3. g[i - 1] = f[(i - 1) - 1]
        BY <4>1
      <4> HIDE DEF g, m
      <4> QED
        BY <3>2, <4>1, <4>2, <4>3
    <3> QED
      BY <3>1, <3>2
  <2>5. fl = [i \in 1..n |-> IF i = 1 THEN s[i] ELSE fl[i - 1] \o s[i]]
    <3> HIDE DEF g
    <3> QED
      BY <1>1, <2>4
  <2> HIDE DEF fl, g, step
  <2> DEFINE h == [i \in 0..m |-> fl[i + 1]]
  <2>6. h[0] \in Seq(S)
    BY <1>1, <1>4, <2>1, <2>5
  <2>7. ASSUME NEW i \in 1..m, h[i - 1] \in Seq(S) PROVE h[i] \in Seq(S)
    <3>1. i + 1 \in 1..n /\ (i + 1) - 1 = i /\ i \in 1..n /\ i + 1 # 1 /\ i - 1 \in 0..m /\ i \in 0..m
          /\ (i - 1) + 1 = i
      BY <2>1
    <3>2. fl[i + 1] = fl[i] \o s[i + 1]
      BY <2>5, <3>1
    <3>3. h[i - 1] = fl[i] /\ h[i] = fl[i + 1]
      BY <3>1
    <3> HIDE DEF h, m
    <3> QED
      BY <1>1, <2>7, <3>1, <3>2, <3>3
  <2>8. h[m] \in Seq(S)
    <3> HIDE DEF h, m
    <3> QED
      BY <2>1, <2>6, <2>7, StaysAlong
  <2>9. h[m] = fl[n]
    BY <2>1
  <2> HIDE DEF h
  <2> QED
    BY <1>1, <1>2, <1>4, <2>8, <2>9
<1> QED
  BY <1>3, <1>4

\* What does not touch the wire leaves it as it is.
LEMMA WireSame ==
  ASSUME WireInv, UNCHANGED <<peers, bounds, inbox, trace, flight, lastReliable, nextSeq, frame>>,
         outbox' \in [Ids -> Seq(Encoded)], resolved' \in Seq(Resolved)
  PROVE  WireInv'
<1>1. Here' = Here /\ Ids' = Ids /\ Links' = Links
  BY DEF Here, Ids, Links
<1>2. Encoded' = Encoded /\ Resolved' = Resolved /\ Flying' = Flying /\ Traced' = Traced
  BY <1>1 DEF Encoded, Resolved, Flying, Traced
<1>3. WireTyped'
  BY <1>1, <1>2 DEF WireInv, WireTyped
<1>4. \A p : Known(p)' = Known(p)
  BY DEF Known
<1>5. FlightKnown' /\ FlightComing' /\ FlightNumbered' /\ FlightOrdered'
  BY <1>4 DEF WireInv, WireFacts, FlightKnown, FlightComing, FlightNumbered, FlightOrdered
<1>6. ArrivedKnown' /\ ArrivedOrdered'
  BY <1>1, <1>4 DEF WireInv, WireFacts, ArrivedKnown, ArrivedOrdered
<1>7. Counted'
  <2>1. \A id : Places(id)' = Places(id) /\ Copies(id)' = Copies(id)
    BY DEF Places, Copies
  <2>2. Counted
    BY DEF WireInv, WireFacts
  <2>3. trace' = trace
    OBVIOUS
  <2> QED
    BY <2>1, <2>2, <2>3 DEF Counted, Times
<1>8. WaysOpen'
  BY DEF WireInv, WireFacts, WaysOpen
<1> QED
  BY <1>3, <1>5, <1>6, <1>7, <1>8 DEF WireInv, WireFacts

\* What is collected is from a peer to a peer.
LEMMA CollectOnWire ==
  ASSUME IInv, WireInv, Collect
  PROVE  WireInv'
<1> DEFINE seen == known \cup {<<p, s>> : p \in {q \in Here : peers[q].hosts}, s \in UNION {peers[q].seats : q \in Here}}
           knownNow == {k \in seen : k \in known \/ k[2] \in peers[k[1]].seats}
           Target(p, packet) ==
             IF peers[p].hosts THEN IF <<p, packet.to>> \in knownNow THEN packet.to.of ELSE None
             ELSE peers[p].believes
           sent(p, packet) == [from |-> p, to |-> Target(p, packet), mode |-> packet.mode, big |-> packet.big]
           Sent(p) == [i \in DOMAIN outbox[p] |-> sent(p, outbox[p][i])]
           lists == [p \in Here |-> Sent(p)]
           all == FlattenSeq(lists)
           keep == {packet \in ToSet(all) : packet.to # None}
           Loose == [from : Here, to : {None} \cup Here, mode : Modes, big : BOOLEAN]
<1>a. /\ Here = 1..Len(peers) /\ Len(peers) \in Nat /\ Here \subseteq Ids /\ None \notin Here
      /\ outbox \in [Ids -> Seq(Encoded)] /\ \A q \in Here : peers[q].believes \in {None} \cup Here
  BY HereIs, OutboxStays DEF IInv
<1>1. resolved' = Retain(all, keep)
  BY DEF Collect
<1>2. ASSUME NEW p \in Here, NEW packet \in Encoded PROVE sent(p, packet) \in Loose
  <2>1. Target(p, packet) \in {None} \cup Here
    <3>1. packet.to.of \in Here
      BY DEF Encoded
    <3> HIDE DEF knownNow
    <3> QED
      BY <1>a, <3>1
  <2> HIDE DEF Target
  <2> QED
    BY <2>1 DEF Encoded
<1> HIDE DEF sent
<1>3. ASSUME NEW p \in Here PROVE Sent(p) \in Seq(Loose)
  <2>1. outbox[p] \in Seq(Encoded)
    BY <1>a
  <2>2. Len(outbox[p]) \in Nat /\ DOMAIN outbox[p] = 1..Len(outbox[p])
        /\ \A i \in DOMAIN outbox[p] : outbox[p][i] \in Encoded
    BY <2>1
  <2>3. Sent(p) \in [1..Len(outbox[p]) -> Loose]
    BY <1>2, <2>2
  <2> HIDE DEF Sent, Loose
  <2> QED
    BY <2>2, <2>3
<1>4. all \in Seq(Loose)
  <2>1. lists \in [1..Len(peers) -> Seq(Loose)]
    BY <1>3, <1>a
  <2> HIDE DEF lists, Loose
  <2> QED
    BY <1>a, <2>1, FlattenIsAList
<1> HIDE DEF all
<1>5. Retain(all, keep) \in Seq(Loose) /\ Range(Retain(all, keep)) = Range(all) \cap keep
  <2> HIDE DEF keep, Loose
  <2> QED
    BY <1>4, RetainKeepsExactly
<1>6. \A x \in Loose : x.to # None => x \in Resolved
  BY <1>a DEF Resolved
<1>7. resolved' \in Seq(Resolved)
  <2> DEFINE t == Retain(all, keep)
  <2>0. t \in Seq(Loose)
    BY <1>5
  <2>1. Len(t) \in Nat /\ DOMAIN t = 1..Len(t) /\ t \in [1..Len(t) -> Loose]
    <3> HIDE DEF t, Loose
    <3> QED
      BY <2>0
  <2>2. \A i \in 1..Len(t) : t[i] \in Loose /\ t[i].to # None
    <3>1. \A i \in DOMAIN t : t[i] \in keep
      BY <1>5 DEF Range
    <3> HIDE DEF t, Loose
    <3> QED
      BY <2>1, <3>1
  <2> HIDE DEF t, Loose
  <2>3. t \in [1..Len(t) -> Resolved]
    BY <1>6, <2>1, <2>2
  <2>4. t \in Seq(Resolved)
    BY <2>1, <2>3
  <2> QED
    BY <1>1, <2>4 DEF t
<1>8. outbox' \in [Ids -> Seq(Encoded)]
  <2>1. outbox' = [p \in Ids |-> <<>>]
    BY DEF Collect
  <2> QED
    BY <2>1
<1>9. UNCHANGED <<peers, bounds, inbox, trace, flight, lastReliable, nextSeq, frame>>
  BY DEF Collect, KeepAll, wire
<1> QED
  BY <1>7, <1>8, <1>9, WireSame

\* What is to be dropped is not under way yet.
LEMMA DropNextOnWire ==
  ASSUME IInv, WireInv, NEW from \in Here, NEW to \in Here, DropNext(from, to)
  PROVE  WireInv'
<1>1. outbox \in [Ids -> Seq(Encoded)] /\ resolved \in Seq(Resolved)
  BY DEF WireInv, WireTyped
<1> QED
  BY <1>1, WireSame DEF DropNext, Call, KeepAll, wire, apps

\* How often a packet has arrived, or is under way, is a number.
LEMMA CountsAreNumbers ==
  ASSUME IInv, WireInv, NEW id \in DOMAIN trace
  PROVE  /\ IsFiniteSet(Places(id)) /\ Cardinality(Places(id)) \in Nat
         /\ IsFiniteSet(Copies(id)) /\ Cardinality(Copies(id)) \in Nat
<1>1. trace[id].to \in Ids
  BY HereIs, WireElements DEF IInv, WireInv, Traced
<1>2. Len(inbox[trace[id].to]) \in Nat /\ DOMAIN inbox[trace[id].to] = 1..Len(inbox[trace[id].to])
  BY <1>1, WireElements DEF WireInv
<1>3. IsFiniteSet(Places(id))
  BY <1>2, HowManyNumbers, FS_Subset DEF Places
<1>4. IsFiniteSet(Copies(id))
  BY FS_Subset DEF Copies, WireInv, WireTyped
<1> QED
  BY <1>3, <1>4, FS_CardinalityType

\* A packet is given its fate: the trace has one more, and what it says is under way.
LEMMA FateKeeps ==
  ASSUME IInv, WireInv, NEW t \in Traced, trace' = Append(trace, t), ~t.cut, ~t.missed,
         UNCHANGED <<peers, bounds, inbox, outbox, frame>>, resolved' \in Seq(Resolved),
         flight' \in SUBSET Flying, IsFiniteSet(flight'),
         lastReliable' \in [Links -> Nat], nextSeq' \in [Links -> Nat],
         \A p \in flight' : p.id = 0 \/ (p.id = Len(trace) + 1 /\ SameWay(p, t) /\ p.mode = t.mode)
                            \/ (Known(p) /\ p.id \in DOMAIN trace /\ ~trace[p.id].missed),
         \A p \in flight' : Ordered(p) => p \in flight \/ p.id = Len(trace) + 1,
         FlightComing', FlightNumbered', FlightOrdered',
         \A id \in DOMAIN trace : Cardinality(Copies(id)') = Cardinality(Copies(id)),
         Cardinality({p \in flight' : p.id = Len(trace) + 1}) = Times(t.fate),
         t.fate \in {"delivered", "duplicated"} => CanSend(peers[t.from].at) /\ CanReceive(peers[t.to].at)
  PROVE  WireInv'
<1>a. WireTyped /\ WireFacts
  BY DEF WireInv
<1>b. PICK n \in Nat : n = Len(trace) + 1
  BY <1>a, WireElements
<1>1. Here' = Here /\ Ids' = Ids /\ Links' = Links
  BY DEF Here, Ids, Links
<1>2. Encoded' = Encoded /\ Resolved' = Resolved /\ Flying' = Flying /\ Traced' = Traced
  BY <1>1 DEF Encoded, Resolved, Flying, Traced
<1>3. /\ Len(trace) \in Nat /\ DOMAIN trace = 1..Len(trace) /\ trace \in Seq(Traced)
      /\ trace' \in Seq(Traced) /\ DOMAIN trace' = 1..n /\ trace'[n] = t
      /\ \A id \in DOMAIN trace : trace'[id] = trace[id] /\ id \in DOMAIN trace' /\ id # n
  BY <1>a, <1>b DEF WireTyped
<1>4. WireTyped'
  BY <1>1, <1>2, <1>3, <1>a DEF WireTyped
<1>5. \A p : Known(p) => Known(p)'
  BY <1>3 DEF Known
<1>6. FlightKnown'
  <2> SUFFICES ASSUME NEW p \in flight' PROVE Known(p)' /\ (p.id # 0 => ~trace'[p.id].missed)
    BY DEF FlightKnown
  <2>1. CASE p.id = 0
    BY <2>1 DEF Known
  <2>2. CASE p.id = n /\ SameWay(p, t) /\ p.mode = t.mode
    BY <1>3, <2>2 DEF Known, SameWay
  <2>3. CASE Known(p) /\ p.id \in DOMAIN trace /\ ~trace[p.id].missed
    BY <1>3, <1>5, <2>3
  <2> QED
    BY <1>b, <2>1, <2>2, <2>3
<1>7. ArrivedKnown'
  BY <1>1, <1>5, <1>a DEF WireFacts, ArrivedKnown
<1>8. ArrivedOrdered'
  <2> SUFFICES ASSUME NEW to \in Ids, NEW i \in DOMAIN inbox[to], Ordered(inbox[to][i])
               PROVE  /\ \A j \in DOMAIN inbox[to] :
                           i < j /\ Ordered(inbox[to][j]) /\ inbox[to][i].from = inbox[to][j].from =>
                             inbox[to][i].id < inbox[to][j].id
                      /\ \A p \in flight' : Ordered(p) /\ SameWay(inbox[to][i], p) => inbox[to][i].id < p.id
    BY <1>1 DEF ArrivedOrdered
  <2>1. /\ \A j \in DOMAIN inbox[to] :
             i < j /\ Ordered(inbox[to][j]) /\ inbox[to][i].from = inbox[to][j].from =>
               inbox[to][i].id < inbox[to][j].id
        /\ \A p \in flight : Ordered(p) /\ SameWay(inbox[to][i], p) => inbox[to][i].id < p.id
    BY <1>a DEF WireFacts, ArrivedOrdered
  <2>2. inbox[to][i].id < n
    BY <1>3, <1>a DEF WireFacts, ArrivedKnown, Known, Ordered
  <2> QED
    BY <1>b, <2>1, <2>2
<1>9. Counted'
  <2> SUFFICES ASSUME NEW id \in 1..n
               PROVE  /\ Cardinality(Places(id)') + Cardinality(Copies(id)') <= Times(trace'[id].fate)
                      /\ ~trace'[id].cut =>
                           Cardinality(Places(id)') + Cardinality(Copies(id)') = Times(trace'[id].fate)
    BY <1>3 DEF Counted, Times
  <2>1. CASE id = n
    <3>1. \A i \in DOMAIN inbox[t.to] : inbox[t.to][i].id # n
      <4>1. t.to \in Ids
        BY HereIs DEF IInv, Traced
      <4>2. \A i \in DOMAIN inbox[t.to] : Known(inbox[t.to][i])
        BY <1>a, <4>1 DEF WireFacts, ArrivedKnown
      <4> QED
        BY <1>3, <4>2 DEF Known
    <3>2. Places(n)' = {}
      BY <1>3, <3>1 DEF Places
    <3>3. Cardinality(Places(n)') = 0 /\ Times(t.fate) \in Nat
      BY <3>2, FS_EmptySet DEF Times
    <3>4. Copies(n)' = {p \in flight' : p.id = Len(trace) + 1}
      BY <1>b DEF Copies
    <3> HIDE DEF Times
    <3> QED
      BY <1>3, <2>1, <3>3, <3>4
  <2>2. CASE id # n
    <3>1. id \in DOMAIN trace /\ trace'[id] = trace[id]
      BY <1>3, <2>2
    <3>2. Places(id)' = Places(id)
      BY <3>1 DEF Places
    <3>3. /\ Cardinality(Places(id)) + Cardinality(Copies(id)) <= Times(trace[id].fate)
          /\ ~trace[id].cut => Cardinality(Places(id)) + Cardinality(Copies(id)) = Times(trace[id].fate)
      BY <1>a, <3>1 DEF WireFacts, Counted
    <3> HIDE DEF Times
    <3> QED
      BY <3>1, <3>2, <3>3
  <2> QED
    BY <2>1, <2>2
<1>10. WaysOpen'
  <2> SUFFICES ASSUME NEW id \in 1..n, ~trace'[id].cut, trace'[id].fate \in {"delivered", "duplicated"}
               PROVE  CanSend(peers[trace'[id].from].at) /\ CanReceive(peers[trace'[id].to].at)
    BY <1>3 DEF WaysOpen
  <2>1. CASE id = n
    BY <1>3, <2>1
  <2>2. CASE id # n
    BY <1>3, <1>a, <1>b, <2>2 DEF WireFacts, WaysOpen
  <2> QED
    BY <2>1, <2>2
<1> QED
  BY <1>4, <1>6, <1>7, <1>8, <1>9, <1>10 DEF WireInv, WireFacts

\* A number is new to the trace, and so to what is under way.
LEMMA NobodyHasTheNext ==
  ASSUME IInv, WireInv
  PROVE  /\ \A p \in flight : p.id # Len(trace) + 1 /\ p.id \in Nat
         /\ \A p \in flight : p.id = 0 \/ (Known(p) /\ p.id \in DOMAIN trace /\ ~trace[p.id].missed)
         /\ Len(trace) \in Nat /\ DOMAIN trace = 1..Len(trace)
<1>1. WireTyped /\ FlightKnown
  BY DEF WireInv, WireFacts
<1>2. Len(trace) \in Nat /\ DOMAIN trace = 1..Len(trace) /\ \A p \in flight : p.id \in Nat
  BY <1>1, WireElements DEF Flying
<1>3. \A p \in flight : p.id = 0 \/ (Known(p) /\ p.id \in DOMAIN trace /\ ~trace[p.id].missed)
  BY <1>1 DEF FlightKnown, Known
<1> QED
  BY <1>2, <1>3

\* The trace of a packet that was sent.
LEMMA RecordedIs ==
  ASSUME NEW packet \in Resolved, NEW fate \in Fates, Recorded(packet, fate)
  PROVE  \E t \in Traced : /\ trace' = Append(trace, t) /\ ~t.cut /\ ~t.missed /\ t.fate = fate
                           /\ t.from = packet.from /\ t.to = packet.to /\ t.mode = packet.mode
<1> DEFINE t == [from |-> packet.from, to |-> packet.to, mode |-> packet.mode, fate |-> fate,
                 cut |-> FALSE, missed |-> FALSE]
<1>1. t \in Traced
  BY DEF Traced, Resolved
<1>2. trace' = Append(trace, t)
  BY DEF Recorded
<1> QED
  BY <1>1, <1>2

\* A packet that is lost is in the trace, and nowhere else.
LEMMA LoseKeeps ==
  ASSUME IInv, WireInv, NEW packet \in Resolved, NEW fate \in {"unreachable", "oversize", "dropped"},
         Lose(packet, fate), UNCHANGED <<peers, bounds, inbox, outbox, frame>>, resolved' \in Seq(Resolved)
  PROVE  WireInv'
<1>a. WireTyped /\ WireFacts /\ fate \in Fates
  BY DEF WireInv, Fates
<1>1. PICK t \in Traced : /\ trace' = Append(trace, t) /\ ~t.cut /\ ~t.missed /\ t.fate = fate
  BY <1>a, RecordedIs DEF Lose
<1>2. flight' = flight /\ UNCHANGED <<lastReliable, nextSeq>>
  BY DEF Lose, KeepAll, wire
<1>3. FlightComing' /\ FlightNumbered' /\ FlightOrdered'
  BY <1>2, <1>a DEF WireFacts, FlightComing, FlightNumbered, FlightOrdered
<1>4. \A id : Copies(id)' = Copies(id)
  BY <1>2 DEF Copies
<1>5. {p \in flight' : p.id = Len(trace) + 1} = {}
  BY <1>2, NobodyHasTheNext
<1>6. Cardinality({p \in flight' : p.id = Len(trace) + 1}) = Times(t.fate)
  BY <1>1, <1>5, FS_EmptySet DEF Times
<1>7. \A p \in flight' : p.id = 0 \/ (Known(p) /\ p.id \in DOMAIN trace /\ ~trace[p.id].missed)
  BY <1>2, NobodyHasTheNext
<1>8. /\ flight' \in SUBSET Flying /\ IsFiniteSet(flight') /\ lastReliable' \in [Links -> Nat]
      /\ nextSeq' \in [Links -> Nat]
  BY <1>2, <1>a DEF WireTyped
<1>9. t \in Traced /\ t.fate \notin {"delivered", "duplicated"}
  BY <1>1
<1> HIDE DEF Times
<1> QED
  BY <1>1, <1>2, <1>3, <1>4, <1>6, <1>7, <1>8, <1>9, FateKeeps

\* A reliable packet arrives after every one that was sent before it on its link.
LEMMA ReliableKeeps ==
  ASSUME IInv, WireInv, NEW packet \in Resolved, NEW due \in Nat, due > frame, packet.mode = "reliable",
         CanSend(peers[packet.from].at), CanReceive(peers[packet.to].at),
         ScheduleReliable(packet, due), UNCHANGED <<peers, bounds, inbox, outbox, frame>>,
         resolved' \in Seq(Resolved)
  PROVE  WireInv'
<1> DEFINE link == <<packet.from, packet.to>>
           ordered == Later(due, lastReliable[link])
           x == InFlight(packet, nextSeq[link] + 1, ordered)
<1>a. WireTyped /\ WireFacts
  BY DEF WireInv
<1>b. link \in Links /\ packet.from \in Here /\ packet.to \in Here /\ frame \in Nat
      /\ lastReliable \in [Links -> Nat] /\ nextSeq \in [Links -> Nat]
  BY <1>a, HereIs DEF Resolved, Links, WireTyped, IInv
<1>c. ordered \in Nat /\ ordered >= due /\ ordered >= lastReliable[link]
  BY <1>b DEF Later
<1>d. /\ Len(trace) \in Nat /\ \A p \in flight : p \in Flying /\ p.id # Len(trace) + 1 /\ p.id \in Nat
  BY <1>a, NobodyHasTheNext, WireElements
<1>1. PICK t \in Traced : /\ trace' = Append(trace, t) /\ ~t.cut /\ ~t.missed /\ t.fate = "delivered"
                          /\ t.from = packet.from /\ t.to = packet.to /\ t.mode = packet.mode
  BY RecordedIs DEF ScheduleReliable, Fates
<1>2. /\ lastReliable' = [lastReliable EXCEPT ![link] = ordered]
      /\ nextSeq' = [nextSeq EXCEPT ![link] = @ + 1]
      /\ flight' = flight \cup {x}
  <2>1. nextSeq' = [nextSeq EXCEPT ![link] = @ + 1]
    BY DEF ScheduleReliable
  <2>2. nextSeq'[link] = nextSeq[link] + 1
    BY <1>b, <2>1
  <2> QED
    BY <2>1, <2>2 DEF ScheduleReliable
<1>3. /\ lastReliable' \in [Links -> Nat] /\ nextSeq' \in [Links -> Nat]
      /\ lastReliable'[link] = ordered /\ nextSeq'[link] = nextSeq[link] + 1
      /\ \A l \in Links : /\ lastReliable[l] \in Nat /\ nextSeq[l] \in Nat
                          /\ lastReliable'[l] \in Nat /\ nextSeq'[l] \in Nat
                          /\ lastReliable[l] <= lastReliable'[l] /\ nextSeq[l] <= nextSeq'[l]
  <2> HIDE DEF link, ordered
  <2>1. lastReliable[link] \in Nat /\ nextSeq[link] \in Nat
    BY <1>b
  <2> QED
    BY <1>2, <1>b, <1>c, <2>1
<1>4. /\ x \in Flying /\ x.id = Len(trace) + 1 /\ x.from = packet.from /\ x.to = packet.to
      /\ x.mode = "reliable" /\ x.seq = nextSeq[link] + 1 /\ x.due = ordered
  BY <1>b, <1>c, <1>d DEF InFlight, Flying, Modes
<1> HIDE DEF x
<1>5. ASSUME NEW p \in flight
      PROVE  LET l == <<p.from, p.to>>
             IN /\ lastReliable[l] \in Nat /\ nextSeq[l] \in Nat
                /\ lastReliable'[l] \in Nat /\ nextSeq'[l] \in Nat
                /\ lastReliable[l] <= lastReliable'[l] /\ nextSeq[l] <= nextSeq'[l]
  <2>1. <<p.from, p.to>> \in Links
    BY <1>d, HereIs DEF Flying, Links, IInv
  <2> HIDE DEF link, ordered
  <2> QED
    BY <1>3, <2>1
<1>6. FlightComing'
  BY <1>2, <1>4, <1>a, <1>b, <1>c DEF WireFacts, FlightComing
<1>7. FlightNumbered'
  <2>1. \A p \in flight : p.seq <= nextSeq[<<p.from, p.to>>] /\ p.seq \in Nat
    BY <1>a, <1>d DEF WireFacts, FlightNumbered, Flying
  <2>2. ASSUME NEW p \in flight PROVE p.seq <= nextSeq'[<<p.from, p.to>>]
    <3> DEFINE l == <<p.from, p.to>>
    <3>1. nextSeq[l] \in Nat /\ nextSeq'[l] \in Nat /\ nextSeq[l] <= nextSeq'[l]
      BY <1>5
    <3>2. p.seq <= nextSeq[l] /\ p.seq \in Nat
      BY <2>1
    <3> HIDE DEF l
    <3>3. p.seq <= nextSeq'[l]
      BY <3>1, <3>2
    <3> QED
      BY <3>3 DEF l
  <2>3. \A p \in flight : SameWay(p, x) => p.seq # x.seq
    BY <1>4, <1>b, <2>1 DEF SameWay
  <2>4. \A p, q \in flight : SameWay(p, q) /\ p.seq = q.seq => p = q
    BY <1>a DEF WireFacts, FlightNumbered
  <2> HIDE DEF link
  <2>5. x.seq <= nextSeq'[<<x.from, x.to>>]
    BY <1>3, <1>4, <1>b DEF link
  <2> QED
    BY <1>2, <2>2, <2>3, <2>4, <2>5 DEF FlightNumbered, SameWay
<1>8. FlightOrdered'
  <2>1. \A p \in flight : Ordered(p) => p.due <= lastReliable[<<p.from, p.to>>] /\ p.due \in Nat
    BY <1>a, <1>d DEF WireFacts, FlightOrdered, Flying
  <2>2. \A p \in flight : Ordered(p) => p.due <= lastReliable'[<<p.from, p.to>>]
    BY <1>5, <2>1
  <2>3. \A p \in flight : Ordered(p) /\ SameWay(p, x) => p.due <= x.due /\ p.seq < x.seq
    <3>1. \A p \in flight : p.seq <= nextSeq[<<p.from, p.to>>] /\ p.seq \in Nat
      BY <1>a, <1>d DEF WireFacts, FlightNumbered, Flying
    <3> QED
      BY <1>4, <1>b, <1>c, <2>1, <3>1 DEF SameWay
  <2>4. \A p \in flight : p.id < x.id
    <3>1. \A p \in flight : p.id \in 0..Len(trace)
      BY <1>d, NobodyHasTheNext
    <3> QED
      BY <1>4, <1>d, <3>1
  <2>5. \A p \in flight : p.id # x.id /\ ~(x.id < p.id)
    BY <1>4, <1>d, <2>4
  <2>6. x.due <= lastReliable'[<<x.from, x.to>>]
    BY <1>3, <1>4, <1>c
  <2>7. \A p, q \in flight : Ordered(p) /\ Ordered(q) /\ SameWay(p, q) =>
          (p.id = q.id => p = q) /\ (p.id < q.id => p.due <= q.due /\ p.seq < q.seq)
    BY <1>a DEF WireFacts, FlightOrdered
  <2>8. ~(x.id < x.id)
    BY <1>4, <1>d
  <2> HIDE DEF link, ordered
  <2> QED
    BY <1>2, <2>2, <2>3, <2>5, <2>6, <2>7, <2>8 DEF FlightOrdered, SameWay
<1>9. \A id \in DOMAIN trace : Cardinality(Copies(id)') = Cardinality(Copies(id))
  <2> SUFFICES ASSUME NEW id \in DOMAIN trace PROVE Copies(id)' = Copies(id)
    OBVIOUS
  <2>1. id # x.id
    BY <1>4, NobodyHasTheNext
  <2> QED
    BY <1>2, <2>1 DEF Copies
<1>10. Cardinality({p \in flight' : p.id = Len(trace) + 1}) = Times(t.fate)
  <2>1. {p \in flight' : p.id = Len(trace) + 1} = {x}
    BY <1>2, <1>4, <1>d
  <2> QED
    BY <1>1, <2>1, FS_Singleton DEF Times
<1>11. \A p \in flight' : p.id = 0 \/ (p.id = Len(trace) + 1 /\ SameWay(p, t) /\ p.mode = t.mode)
                          \/ (Known(p) /\ p.id \in DOMAIN trace /\ ~trace[p.id].missed)
  BY <1>1, <1>2, <1>4, NobodyHasTheNext DEF SameWay
<1>12. flight' \in SUBSET Flying /\ IsFiniteSet(flight')
  BY <1>2, <1>4, <1>a, FS_AddElement DEF WireTyped
<1>13. \A p \in flight' : Ordered(p) => p \in flight \/ p.id = Len(trace) + 1
  BY <1>2, <1>4
<1> HIDE DEF Times, link, ordered
<1>14. CanSend(peers[t.from].at) /\ CanReceive(peers[t.to].at)
  BY <1>1
<1> QED
  BY <1>1, <1>3, <1>6, <1>7, <1>8, <1>9, <1>10, <1>11, <1>12, <1>13, <1>14, FateKeeps

\* Of the packets on a link one was sent last.
LEMMA SomeIsLast ==
  ASSUME WireInv, NEW link \in Links, NEW ahead \in SUBSET flight, ahead # {},
         \A p \in ahead : <<p.from, p.to>> = link
  PROVE  \E p \in ahead : \A q \in ahead : q.seq <= p.seq
<1> DEFINE n == nextSeq[link]
           T == {n - p.seq : p \in ahead}
<1>1. n \in Nat /\ \A p \in ahead : p.seq \in Nat /\ p.seq <= n
  BY DEF WireInv, WireTyped, WireFacts, FlightNumbered, Flying
<1> HIDE DEF n
<1>2. T \in SUBSET Nat /\ T # {}
  BY <1>1
<1>3. PICK m \in T : \A k \in T : m <= k
  BY <1>2, LeastNumber
<1>4. PICK p \in ahead : m = n - p.seq
  BY <1>3
<1>5. \A q \in ahead : n - p.seq <= n - q.seq
  BY <1>3, <1>4
<1> QED
  BY <1>1, <1>4, <1>5

\* An unreliable packet, which may swap places with the last, and may be doubled.
LEMMA UnreliableKeeps ==
  ASSUME IInv, WireInv, NEW packet \in Resolved, NEW due \in Nat, due > frame, packet.mode = "unreliable",
         CanSend(peers[packet.from].at), CanReceive(peers[packet.to].at),
         NEW overtakes \in BOOLEAN, NEW copied \in BOOLEAN,
         ScheduleUnreliable(packet, due, overtakes, copied),
         UNCHANGED <<peers, bounds, inbox, outbox, frame>>, resolved' \in Seq(Resolved)
  PROVE  WireInv'
<1> DEFINE link == <<packet.from, packet.to>>
           k == nextSeq[link]
           mine == InFlight(packet, k + 1, due)
           ahead == {p \in flight : p.mode = "unreliable" /\ <<p.from, p.to>> = link}
           previous == CHOOSE p \in ahead : \A q \in ahead : q.seq <= p.seq
           swapped == [previous EXCEPT !.seq = mine.seq, !.due = mine.due]
           now == IF overtakes THEN [mine EXCEPT !.seq = previous.seq, !.due = previous.due] ELSE mine
           copy == [now EXCEPT !.seq = mine.seq + 1, !.due = @ + 1, !.copy = TRUE]
           base == IF overtakes THEN (flight \ {previous}) \cup {swapped} ELSE flight
           fate == IF copied THEN "duplicated" ELSE "delivered"
<1>a. WireTyped /\ WireFacts
  BY DEF WireInv
<1>b. link \in Links /\ packet.from \in Here /\ packet.to \in Here /\ frame \in Nat
      /\ lastReliable \in [Links -> Nat] /\ nextSeq \in [Links -> Nat] /\ k \in Nat
  BY <1>a, HereIs DEF Resolved, Links, WireTyped, IInv
<1>d. /\ Len(trace) \in Nat /\ DOMAIN trace = 1..Len(trace)
      /\ \A p \in flight : /\ p \in Flying /\ p.id # Len(trace) + 1 /\ p.id \in Nat /\ p.due > frame
                           /\ p.id = 0 \/ (Known(p) /\ p.id \in DOMAIN trace /\ ~trace[p.id].missed)
                           /\ p.seq <= nextSeq[<<p.from, p.to>>] /\ p.seq \in Nat /\ p.due \in Nat
  BY <1>a, NobodyHasTheNext, WireElements DEF WireFacts, FlightComing, FlightNumbered, Flying
<1>1. PICK t \in Traced : /\ trace' = Append(trace, t) /\ ~t.cut /\ ~t.missed /\ t.fate = fate
                          /\ t.from = packet.from /\ t.to = packet.to /\ t.mode = packet.mode
  BY RecordedIs DEF ScheduleUnreliable, Fates
<1>2. /\ flight' = base \cup (IF copied THEN {now, copy} ELSE {now})
      /\ nextSeq' = [nextSeq EXCEPT ![link] = IF copied THEN @ + 2 ELSE @ + 1]
      /\ lastReliable' = lastReliable
      /\ overtakes => ahead # {}
  BY DEF ScheduleUnreliable
<1>3. /\ mine \in Flying /\ mine.id = Len(trace) + 1 /\ mine.from = packet.from /\ mine.to = packet.to
      /\ mine.mode = "unreliable" /\ ~mine.copy /\ mine.seq = k + 1 /\ mine.due = due
  BY <1>b, <1>d DEF InFlight, Flying, Modes
<1>4. overtakes => previous \in ahead
  <2>1. \A p \in ahead : <<p.from, p.to>> = link
    OBVIOUS
  <2>2. ahead \in SUBSET flight
    OBVIOUS
  <2> HIDE DEF ahead
  <2> QED
    BY <1>2, <1>b, <2>1, <2>2, SomeIsLast
<1>5. overtakes => /\ previous \in flight /\ previous.mode = "unreliable" /\ previous \in Flying
                   /\ previous.from = packet.from /\ previous.to = packet.to /\ previous.seq <= k
                   /\ previous.seq \in Nat /\ previous.due \in Nat /\ previous.due > frame
  BY <1>4, <1>d
<1> HIDE DEF ahead, previous, mine, k
<1>6. overtakes => /\ swapped \in Flying /\ swapped.seq = k + 1 /\ swapped.due = due
                   /\ swapped.id = previous.id /\ swapped.from = previous.from /\ swapped.to = previous.to
                   /\ swapped.mode = previous.mode /\ swapped.copy = previous.copy
  BY <1>3, <1>5, <1>b DEF Flying
<1>7. /\ now \in Flying /\ now.id = Len(trace) + 1 /\ now.from = packet.from /\ now.to = packet.to
      /\ now.mode = "unreliable" /\ ~now.copy /\ now.due \in Nat /\ now.due > frame /\ now.seq \in Nat
      /\ now.seq = (IF overtakes THEN previous.seq ELSE k + 1)
  <2>1. CASE overtakes
    BY <1>3, <1>5, <2>1 DEF Flying
  <2>2. CASE ~overtakes
    BY <1>3, <1>b, <2>2
  <2> QED
    BY <2>1, <2>2
<1> HIDE DEF now
<1>8. /\ copy \in Flying /\ copy.id = Len(trace) + 1 /\ copy.from = packet.from /\ copy.to = packet.to
      /\ copy.mode = "unreliable" /\ copy.copy /\ copy.due = now.due + 1 /\ copy.seq = k + 2
  <2>1. mine.seq + 1 = k + 2 /\ k + 2 \in Nat /\ now.due + 1 \in Nat
    BY <1>3, <1>7, <1>b
  <2>2. copy = [now EXCEPT !.seq = k + 2, !.due = now.due + 1, !.copy = TRUE]
    BY <2>1
  <2> HIDE DEF copy
  <2> QED
    BY <1>7, <2>1, <2>2 DEF Flying
<1> HIDE DEF copy, swapped
<1>9. /\ base \in SUBSET Flying /\ IsFiniteSet(base)
      /\ \A p \in base : /\ p.due > frame /\ p.seq \in Nat /\ p.id # Len(trace) + 1
                         /\ p.id = 0 \/ (Known(p) /\ p.id \in DOMAIN trace /\ ~trace[p.id].missed)
                         /\ Ordered(p) => p \in flight
                         /\ IF <<p.from, p.to>> = link THEN p.seq <= k + 1 /\ p.seq # now.seq
                            ELSE p.seq <= nextSeq[<<p.from, p.to>>]
      /\ \A p, q \in base : SameWay(p, q) /\ p.seq = q.seq => p = q
      /\ \A id \in DOMAIN trace : Cardinality({p \in base : p.id = id}) = Cardinality(Copies(id))
  <2>a. IsFiniteSet(flight) /\ \A p, q \in flight : SameWay(p, q) /\ p.seq = q.seq => p = q
    BY <1>a DEF WireTyped, WireFacts, FlightNumbered
  <2>b. \A p \in flight : <<p.from, p.to>> = link => p.seq <= k
    BY <1>d DEF k
  <2>1. CASE ~overtakes
    <3>1. base = flight /\ now.seq = k + 1
      BY <1>7, <2>1
    <3>2. ASSUME NEW p \in flight, <<p.from, p.to>> = link PROVE p.seq <= k + 1 /\ p.seq # k + 1
      <4>1. p.seq <= k /\ p.seq \in Nat
        BY <1>d, <2>b, <3>2
      <4> QED
        BY <1>b, <4>1
    <3> HIDE DEF base, link
    <3> QED
      BY <1>d, <2>a, <3>1, <3>2 DEF Copies
  <2>2. CASE overtakes
    <3>1. base = (flight \ {previous}) \cup {swapped} /\ now.seq = previous.seq
      BY <1>7, <2>2
    <3>2. \A p \in flight : SameWay(p, swapped) => p.seq # swapped.seq
      BY <1>5, <1>6, <1>b, <1>d, <2>2, <2>b DEF SameWay
    <3>3. swapped \notin flight
      BY <3>2 DEF SameWay
    <3>4. ASSUME NEW p \in flight, p # previous, <<p.from, p.to>> = link
          PROVE  p.seq <= k + 1 /\ p.seq # now.seq
      <4>1. SameWay(p, previous)
        BY <1>5, <2>2, <3>4 DEF SameWay
      <4>2. p.seq # previous.seq
        BY <1>5, <2>2, <2>a, <3>4, <4>1
      <4>3. p.seq <= k /\ p.seq \in Nat
        BY <1>d, <2>b, <3>4
      <4> QED
        BY <1>b, <3>1, <4>2, <4>3
    <3>5. <<swapped.from, swapped.to>> = link /\ swapped.seq <= k + 1 /\ swapped.seq # now.seq
          /\ swapped.seq \in Nat /\ swapped.due > frame
      BY <1>5, <1>6, <1>b, <2>2, <3>1
    <3>6. swapped.id = previous.id /\ ~Ordered(swapped) /\ (Known(previous) => Known(swapped))
      BY <1>5, <1>6, <2>2 DEF Known, Ordered
    <3>7. base \in SUBSET Flying /\ IsFiniteSet(base)
      <4>1. IsFiniteSet(flight \ {previous})
        BY <2>a, FS_RemoveElement
      <4>2. IsFiniteSet((flight \ {previous}) \cup {swapped})
        BY <4>1, FS_AddElement
      <4> QED
        BY <1>6, <1>d, <2>2, <3>1, <4>2
    <3>8. \A p, q \in base : SameWay(p, q) /\ p.seq = q.seq => p = q
      <4> HIDE DEF base
      <4> QED
        BY <2>a, <3>1, <3>2 DEF SameWay
    <3>9. ASSUME NEW id \in DOMAIN trace PROVE Cardinality({p \in base : p.id = id}) = Cardinality(Copies(id))
      <4>1. CASE previous.id # id
        <5>1. {p \in base : p.id = id} = Copies(id)
          <6> HIDE DEF base
          <6> QED
            BY <3>1, <3>6, <4>1 DEF Copies
        <5> QED
          BY <5>1
      <4>2. CASE previous.id = id
        <5>1. {p \in base : p.id = id} = (Copies(id) \ {previous}) \cup {swapped}
          <6> HIDE DEF base
          <6> QED
            BY <3>1, <3>6, <4>2 DEF Copies
        <5>2. IsFiniteSet(Copies(id)) /\ previous \in Copies(id) /\ swapped \notin Copies(id)
          BY <1>5, <2>2, <2>a, <3>3, <4>2, FS_Subset DEF Copies
        <5>3. /\ IsFiniteSet(Copies(id) \ {previous})
              /\ Cardinality(Copies(id) \ {previous}) = Cardinality(Copies(id)) - 1
          BY <5>2, FS_RemoveElement
        <5>4. Cardinality((Copies(id) \ {previous}) \cup {swapped}) = Cardinality(Copies(id)) - 1 + 1
          BY <5>2, <5>3, FS_AddElement
        <5>5. Cardinality(Copies(id)) \in Nat
          BY <5>2, FS_CardinalityType
        <5>6. Cardinality((Copies(id) \ {previous}) \cup {swapped}) = Cardinality(Copies(id))
          BY <5>4, <5>5
        <5> HIDE DEF base
        <5> QED
          BY <5>1, <5>6
      <4> QED
        BY <4>1, <4>2
    <3>10. ASSUME NEW p \in base
           PROVE  /\ p.due > frame /\ p.seq \in Nat /\ p.id # Len(trace) + 1
                  /\ p.id = 0 \/ (Known(p) /\ p.id \in DOMAIN trace /\ ~trace[p.id].missed)
                  /\ Ordered(p) => p \in flight
                  /\ IF <<p.from, p.to>> = link THEN p.seq <= k + 1 /\ p.seq # now.seq
                     ELSE p.seq <= nextSeq[<<p.from, p.to>>]
      <4>1. CASE p = swapped
        <5> HIDE DEF base, link
        <5> QED
          BY <1>5, <1>d, <2>2, <3>5, <3>6, <4>1
      <4>2. CASE p # swapped
        <5>1. p \in flight /\ p # previous
          BY <3>1, <4>2
        <5> HIDE DEF base, link
        <5> QED
          BY <1>d, <3>4, <5>1
      <4> QED
        BY <4>1, <4>2
    <3> HIDE DEF base
    <3> QED
      BY <3>7, <3>8, <3>9, <3>10
  <2> QED
    BY <2>1, <2>2
<1> HIDE DEF base
<1>10. /\ nextSeq' \in [Links -> Nat] /\ nextSeq'[link] = (IF copied THEN k + 2 ELSE k + 1)
       /\ \A l \in Links : l # link => nextSeq'[l] = nextSeq[l]
  <2> HIDE DEF link
  <2> QED
    BY <1>2, <1>b DEF k
<1>11. \A p \in flight' : p \in base \/ p = now \/ (p = copy /\ copied)
  BY <1>2
<1>12. now.seq <= k + 1 /\ copy.seq # now.seq /\ now # copy
  BY <1>5, <1>7, <1>8, <1>b
<1>13. FlightComing'
  <2>1. copy.due > frame
    BY <1>7, <1>8, <1>b
  <2> QED
    BY <1>7, <1>9, <1>11, <2>1 DEF FlightComing
<1>14. FlightNumbered'
  <2>1. ASSUME NEW p \in flight' PROVE p.seq <= nextSeq'[<<p.from, p.to>>]
    <3>1. CASE p \in base /\ <<p.from, p.to>> # link
      <4>1. <<p.from, p.to>> \in Links /\ p.seq <= nextSeq[<<p.from, p.to>>]
        BY <1>9, <3>1, HereIs DEF Flying, Links, IInv
      <4> HIDE DEF link
      <4> QED
        BY <1>10, <3>1, <4>1
    <3>2. CASE p \in base /\ <<p.from, p.to>> = link
      <4>1. p.seq <= k + 1 /\ p.seq \in Nat
        BY <1>9, <3>2
      <4>2. nextSeq'[<<p.from, p.to>>] = nextSeq'[link]
        BY <3>2
      <4> HIDE DEF link
      <4> QED
        BY <1>10, <1>b, <4>1, <4>2
    <3>3. CASE p = now
      <4>1. <<p.from, p.to>> = link /\ p.seq <= k + 1 /\ p.seq \in Nat
        BY <1>7, <1>12, <3>3
      <4>2. nextSeq'[<<p.from, p.to>>] = nextSeq'[link]
        BY <4>1
      <4> HIDE DEF link
      <4>3. p.seq <= (IF copied THEN k + 2 ELSE k + 1)
        BY <1>b, <4>1
      <4> QED
        BY <1>10, <4>2, <4>3
    <3>4. CASE p = copy /\ copied
      <4>1. <<p.from, p.to>> = link /\ p.seq = k + 2
        BY <1>8, <3>4
      <4>2. nextSeq'[<<p.from, p.to>>] = nextSeq'[link]
        BY <4>1
      <4> HIDE DEF link
      <4>3. p.seq <= (IF copied THEN k + 2 ELSE k + 1)
        BY <1>b, <3>4, <4>1
      <4> QED
        BY <1>10, <4>2, <4>3
    <3> QED
      BY <1>11, <3>1, <3>2, <3>3, <3>4
  <2>2. ASSUME NEW p \in base, SameWay(p, now) \/ SameWay(p, copy) PROVE p.seq # now.seq /\ p.seq # copy.seq
    <3>1. <<p.from, p.to>> = link
      BY <1>7, <1>8, <2>2 DEF SameWay
    <3>2. p.seq <= k + 1 /\ p.seq # now.seq /\ p.seq \in Nat
      BY <1>9, <3>1
    <3> QED
      BY <1>8, <1>b, <3>2
  <2>3. \A p, q \in flight' : SameWay(p, q) /\ p.seq = q.seq => p = q
    BY <1>9, <1>11, <1>12, <2>2 DEF SameWay
  <2> QED
    BY <2>1, <2>3 DEF FlightNumbered
<1>15. \A p \in flight' : Ordered(p) => p \in flight
  BY <1>7, <1>8, <1>9, <1>11 DEF Ordered
<1>16. FlightOrdered'
  BY <1>2, <1>15, <1>a DEF WireFacts, FlightOrdered
<1>17. \A id \in DOMAIN trace : Cardinality(Copies(id)') = Cardinality(Copies(id))
  <2> SUFFICES ASSUME NEW id \in DOMAIN trace PROVE Cardinality(Copies(id)') = Cardinality(Copies(id))
    OBVIOUS
  <2>1. id # Len(trace) + 1
    BY <1>d
  <2>2. Copies(id)' = {p \in base : p.id = id}
    BY <1>2, <1>7, <1>8, <2>1 DEF Copies
  <2> QED
    BY <1>9, <2>2
<1>18. Cardinality({p \in flight' : p.id = Len(trace) + 1}) = Times(t.fate)
  <2>1. {p \in flight' : p.id = Len(trace) + 1} = IF copied THEN {now, copy} ELSE {now}
    BY <1>2, <1>7, <1>8, <1>9
  <2>2. Cardinality({now}) = 1 /\ IsFiniteSet({now})
    BY FS_Singleton
  <2>3. Cardinality({now} \cup {copy}) = 2
    <3>1. copy \notin {now}
      BY <1>12
    <3>2. Cardinality({now} \cup {copy}) = Cardinality({now}) + 1
      BY <2>2, <3>1, FS_AddElement
    <3>3. Cardinality({now} \cup {copy}) = 1 + 1
      BY <2>2, <3>2
    <3> QED
      BY <3>3
  <2>4. {now, copy} = {now} \cup {copy}
    OBVIOUS
  <2>5. t.fate = IF copied THEN "duplicated" ELSE "delivered"
    BY <1>1
  <2>6. Times(t.fate) = IF copied THEN 2 ELSE 1
    BY <2>5 DEF Times
  <2> HIDE DEF Times
  <2> QED
    BY <2>1, <2>2, <2>3, <2>4, <2>6
<1>19. \A p \in flight' : p.id = 0 \/ (p.id = Len(trace) + 1 /\ SameWay(p, t) /\ p.mode = t.mode)
                          \/ (Known(p) /\ p.id \in DOMAIN trace /\ ~trace[p.id].missed)
  BY <1>1, <1>7, <1>8, <1>9, <1>11 DEF SameWay
<1>20. flight' \in SUBSET Flying /\ IsFiniteSet(flight')
  <2>1. IsFiniteSet(base \cup {now})
    BY <1>9, FS_AddElement
  <2>2. IsFiniteSet((base \cup {now}) \cup {copy})
    BY <2>1, FS_AddElement
  <2>3. flight' = base \cup {now} \/ flight' = (base \cup {now}) \cup {copy}
    BY <1>2
  <2> QED
    BY <1>7, <1>8, <1>9, <1>11, <2>1, <2>2, <2>3
<1>21. CanSend(peers[t.from].at) /\ CanReceive(peers[t.to].at) /\ lastReliable' \in [Links -> Nat]
  BY <1>1, <1>2, <1>b
<1>22. \A p \in flight' : Ordered(p) => p \in flight \/ p.id = Len(trace) + 1
  BY <1>15
<1> HIDE DEF Times, link
<1> QED
  BY <1>1, <1>10, <1>13, <1>14, <1>16, <1>17, <1>18, <1>19, <1>20, <1>21, <1>22, FateKeeps

\* A packet handed to the wire of no app is of no order, and in no trace.
LEMMA DeliverRawOnWire ==
  ASSUME IInv, WireInv, NEW from \in Here, NEW to \in Here, DeliverRaw(from, to)
  PROVE  WireInv'
<1> DEFINE link == <<from, to>>
           x == [id |-> 0, from |-> from, to |-> to, mode |-> "reliable", copy |-> FALSE,
                 seq |-> nextSeq[link] + 1, due |-> frame + 1]
<1>a. WireTyped /\ WireFacts
  BY DEF WireInv
<1>b. /\ link \in Links /\ frame \in Nat /\ lastReliable \in [Links -> Nat] /\ nextSeq \in [Links -> Nat]
      /\ nextSeq[link] \in Nat
  BY <1>a, HereIs DEF Links, WireTyped, IInv
<1>1. UNCHANGED <<peers, outbox, inbox, resolved, lastReliable, frame, trace, bounds>>
  BY DEF DeliverRaw, apps
<1>2. nextSeq' = [nextSeq EXCEPT ![link] = @ + 1] /\ flight' = flight \cup {x}
  <2>1. nextSeq' = [nextSeq EXCEPT ![link] = @ + 1]
    BY DEF DeliverRaw
  <2>2. nextSeq'[link] = nextSeq[link] + 1
    BY <1>b, <2>1
  <2> QED
    BY <2>1, <2>2 DEF DeliverRaw
<1>3. nextSeq' \in [Links -> Nat] /\ nextSeq'[link] = nextSeq[link] + 1
      /\ \A l \in Links : nextSeq[l] \in Nat /\ nextSeq'[l] \in Nat /\ nextSeq[l] <= nextSeq'[l]
  <2> HIDE DEF link
  <2> QED
    BY <1>2, <1>b
<1>4. /\ x \in Flying /\ x.id = 0 /\ x.from = from /\ x.to = to /\ x.seq = nextSeq[link] + 1
      /\ x.due = frame + 1 /\ ~Ordered(x)
  BY <1>b DEF Flying, Modes, Ordered
<1> HIDE DEF x
<1>5. Here' = Here /\ Ids' = Ids /\ Links' = Links
  BY <1>1 DEF Here, Ids, Links
<1>6. Encoded' = Encoded /\ Resolved' = Resolved /\ Flying' = Flying /\ Traced' = Traced
  BY <1>5 DEF Encoded, Resolved, Flying, Traced
<1>7. WireTyped'
  <2>1. flight' \in SUBSET Flying /\ IsFiniteSet(flight')
    BY <1>2, <1>4, <1>a, FS_AddElement DEF WireTyped
  <2> QED
    BY <1>1, <1>3, <1>5, <1>6, <1>a, <2>1 DEF WireTyped
<1>8. \A p : Known(p) => Known(p)'
  BY <1>1 DEF Known
<1>9. FlightKnown' /\ FlightComing'
  BY <1>1, <1>2, <1>4, <1>8, <1>a, <1>b DEF WireFacts, FlightKnown, FlightComing, Known
<1>10. FlightNumbered'
  <2>1. \A p \in flight : /\ p.seq <= nextSeq[<<p.from, p.to>>] /\ p.seq \in Nat
                          /\ <<p.from, p.to>> \in Links
    BY <1>a, WireElements, HereIs DEF WireFacts, FlightNumbered, Flying, IInv, Links
  <2>2. ASSUME NEW p \in flight PROVE p.seq <= nextSeq'[<<p.from, p.to>>]
    <3> DEFINE l == <<p.from, p.to>>
    <3>1. nextSeq[l] \in Nat /\ nextSeq'[l] \in Nat /\ nextSeq[l] <= nextSeq'[l] /\ p.seq <= nextSeq[l]
      BY <1>3, <2>1
    <3>2. p.seq \in Nat
      BY <2>1
    <3> HIDE DEF l
    <3>3. p.seq <= nextSeq'[l]
      BY <3>1, <3>2
    <3> QED
      BY <3>3 DEF l
  <2>3. \A p \in flight : SameWay(p, x) => p.seq # x.seq
    BY <1>4, <1>b, <2>1 DEF SameWay
  <2>4. x.seq <= nextSeq'[<<x.from, x.to>>]
    BY <1>3, <1>4, <1>b
  <2> HIDE DEF link
  <2> QED
    BY <1>2, <1>a, <2>2, <2>3, <2>4 DEF WireFacts, FlightNumbered, SameWay
<1>11. FlightOrdered'
  BY <1>1, <1>2, <1>4, <1>a DEF WireFacts, FlightOrdered
<1>12. ArrivedKnown' /\ ArrivedOrdered'
  <2>1. ArrivedKnown'
    BY <1>1, <1>5, <1>8, <1>a DEF WireFacts, ArrivedKnown
  <2>2. ArrivedOrdered'
    BY <1>1, <1>2, <1>4, <1>5, <1>a DEF WireFacts, ArrivedOrdered
  <2> QED
    BY <2>1, <2>2
<1>13. Counted'
  <2>1. ASSUME NEW id \in DOMAIN trace PROVE Copies(id)' = Copies(id) /\ Places(id)' = Places(id)
    <3>1. id # 0
      BY <1>a, WireElements
    <3> QED
      BY <1>1, <1>2, <1>4, <3>1 DEF Copies, Places
  <2> HIDE DEF x, link
  <2> QED
    BY <1>1, <1>a, <2>1 DEF WireFacts, Counted, Times
<1>14. WaysOpen'
  BY <1>1, <1>a DEF WireFacts, WaysOpen
<1> QED
  BY <1>7, <1>9, <1>10, <1>11, <1>12, <1>13, <1>14 DEF WireInv, WireFacts

\* Whatever its fate, the packet is due in a later frame.
LEMMA ScheduleOnWire ==
  ASSUME IInv, WireInv, Schedule
  PROVE  WireInv'
<1> DEFINE packet == Head(resolved)
           able == CanSend(peers[packet.from].at) /\ CanReceive(peers[packet.to].at)
<1>a. resolved \in Seq(Resolved) /\ frame \in Nat
  BY DEF WireInv, WireTyped
<1>b. bounds.link.delay \in Nat /\ bounds.link.jitter \in Nat
  BY BoundAssumption DEF IInv, Typed
<1>1. packet \in Resolved /\ resolved' \in Seq(Resolved)
  BY <1>a DEF Schedule
<1>2. UNCHANGED <<peers, bounds, inbox, outbox, frame>>
  BY DEF Schedule, apps
<1> HIDE DEF packet
<1>3. CASE \E fate \in {"unreachable", "oversize", "dropped"} : Lose(packet, fate)
  BY <1>1, <1>2, <1>3, LoseKeeps
<1>4. CASE /\ able
           /\ \E wait \in bounds.link.delay..bounds.link.delay + bounds.link.jitter,
                 again \in May(bounds.link.loss) :
                LET due == frame + Transit(wait, again)
                IN \/ packet.mode = "reliable" /\ ScheduleReliable(packet, due)
                   \/ /\ packet.mode # "reliable"
                      /\ \E overtakes \in May(bounds.link.reorder), copied \in May(bounds.link.duplicate) :
                           ScheduleUnreliable(packet, due, overtakes, copied)
  <2>1. PICK wait \in bounds.link.delay..bounds.link.delay + bounds.link.jitter,
             again \in May(bounds.link.loss) :
                \/ packet.mode = "reliable" /\ ScheduleReliable(packet, frame + Transit(wait, again))
                \/ /\ packet.mode # "reliable"
                   /\ \E overtakes \in May(bounds.link.reorder), copied \in May(bounds.link.duplicate) :
                        ScheduleUnreliable(packet, frame + Transit(wait, again), overtakes, copied)
    BY <1>4
  <2>2. Transit(wait, again) \in Nat /\ Transit(wait, again) >= 1
    BY <1>b DEF Transit, Later
  <2>3. frame + Transit(wait, again) \in Nat /\ frame + Transit(wait, again) > frame
    BY <1>a, <2>2
  <2>4. CASE packet.mode = "reliable"
    BY <1>1, <1>2, <1>4, <2>1, <2>3, <2>4, ReliableKeeps
  <2>5. CASE packet.mode # "reliable"
    <3>1. packet.mode = "unreliable"
      BY <1>1, <2>5 DEF Resolved, Modes
    <3>2. PICK overtakes \in BOOLEAN, copied \in BOOLEAN :
            ScheduleUnreliable(packet, frame + Transit(wait, again), overtakes, copied)
      BY <2>1, <2>5 DEF May
    <3> QED
      BY <1>1, <1>2, <1>4, <2>3, <3>1, <3>2, UnreliableKeeps
  <2> QED
    BY <2>4, <2>5
<1> QED
  BY <1>3, <1>4 DEF Schedule, packet

\* What is ordered one way or the other can be listed in that order.
LEMMA InOrder ==
  ASSUME NEW S, IsFiniteSet(S), NEW R,
         \A x \in S : <<x, x>> \notin R,
         \A x, y, z \in S : <<x, y>> \in R /\ <<y, z>> \in R => <<x, z>> \in R,
         \A x, y \in S : x = y \/ <<x, y>> \in R \/ <<y, x>> \in R
  PROVE  \E order \in [1..Cardinality(S) -> S] :
           /\ IsInjective(order)
           /\ \A i, j \in DOMAIN order : i < j => <<order[j], order[i]>> \notin R
<1> DEFINE n == Cardinality(S)
           Below(x) == {y \in S : <<y, x>> \in R}
           rank == [x \in S |-> Cardinality(Below(x)) + 1]
<1>1. n \in Nat /\ IsFiniteSet(1..n) /\ Cardinality(1..n) = n
  BY FS_CardinalityType, HowManyNumbers
<1>2. ASSUME NEW x \in S
      PROVE  /\ IsFiniteSet(Below(x)) /\ Cardinality(Below(x)) \in Nat
             /\ Cardinality(Below(x) \cup {x}) = Cardinality(Below(x)) + 1
  <2>1. IsFiniteSet(Below(x)) /\ x \notin Below(x)
    BY FS_Subset
  <2> HIDE DEF Below
  <2> QED
    BY <2>1, FS_AddElement, FS_CardinalityType
<1>3. ASSUME NEW x \in S, NEW y \in S, <<x, y>> \in R PROVE rank[x] < rank[y]
  <2>1. Below(x) \cup {x} \subseteq Below(y)
    BY <1>3
  <2>2. Cardinality(Below(x) \cup {x}) <= Cardinality(Below(y))
    BY <1>2, <2>1, FS_Subset
  <2>3. rank[x] = Cardinality(Below(x)) + 1 /\ rank[y] = Cardinality(Below(y)) + 1
    OBVIOUS
  <2>4. Cardinality(Below(x)) + 1 <= Cardinality(Below(y))
    BY <1>2, <2>2
  <2>5. Cardinality(Below(x)) \in Nat /\ Cardinality(Below(y)) \in Nat
    BY <1>2
  <2> HIDE DEF Below, rank
  <2> QED
    BY <2>3, <2>4, <2>5
<1>4. ASSUME NEW x \in S PROVE rank[x] \in 1..n
  <2>1. Below(x) \cup {x} \subseteq S
    OBVIOUS
  <2>2. Cardinality(Below(x) \cup {x}) <= n
    BY <2>1, FS_Subset
  <2> HIDE DEF Below, n
  <2> QED
    BY <1>1, <1>2, <2>2
<1>5. rank \in [S -> 1..n]
  BY <1>4
<1>6. \A x, y \in S : rank[x] = rank[y] => x = y
  <2>1. \A x \in S : rank[x] \in Nat
    BY <1>1, <1>4
  <2> HIDE DEF rank
  <2> SUFFICES ASSUME NEW x \in S, NEW y \in S, rank[x] = rank[y], x # y PROVE FALSE
    OBVIOUS
  <2>2. <<x, y>> \in R \/ <<y, x>> \in R
    OBVIOUS
  <2>3. rank[x] < rank[y] \/ rank[y] < rank[x]
    BY <1>3, <2>2
  <2> QED
    BY <2>1, <2>3
<1> HIDE DEF rank, n
<1>7. rank \in Bijection(S, 1..n)
  <2>1. rank \in Injection(S, 1..n)
    BY <1>5, <1>6, Fun_IsInj
  <2>2. rank \in Surjection(S, 1..n)
    BY <1>1, <2>1, FS_Injection DEF n
  <2> QED
    BY <2>1, <2>2, Fun_IsBij
<1> DEFINE order == Inverse(rank, S, 1..n)
<1>8. order \in Bijection(1..n, S) /\ \A x \in S : order[rank[x]] = x
  BY <1>7, Fun_BijInverse
<1>9. \A i \in 1..n : \E x \in S : rank[x] = i
  BY <1>7 DEF Bijection, Surjection
<1> HIDE DEF order
<1>10. order \in [1..n -> S] /\ IsInjective(order)
  BY <1>8 DEF Bijection, Injection
<1>11. ASSUME NEW i \in 1..n, NEW j \in 1..n, i < j PROVE <<order[j], order[i]>> \notin R
  <2>1. rank[order[i]] = i /\ rank[order[j]] = j /\ order[i] \in S /\ order[j] \in S
    BY <1>8, <1>9, <1>10
  <2> QED
    BY <1>1, <1>3, <1>11, <2>1
<1> QED
  BY <1>10, <1>11 DEF n

\* What is due to a peer.
Mine(n, to) == {p \in flight : p.due <= n /\ p.to = to /\ CanReceive(peers[to].at)}

\* It is handed all of that, each packet once, in the order they arrive.
LEMMA HandedIs ==
  ASSUME IInv, WireInv, NEW n \in Nat, NEW to \in Here
  PROVE  LET order == Handed(n, to)
             mine == Mine(n, to)
         IN /\ IsFiniteSet(mine) /\ Cardinality(mine) \in Nat
            /\ order \in [1..Cardinality(mine) -> mine] /\ order \in Seq(mine) /\ Range(order) = mine
            /\ IsInjective(order)
            /\ \A i, j \in DOMAIN order : i < j => ~Before(order[j], order[i])
<1> DEFINE mine == Mine(n, to)
           R == {e \in mine \X mine : Before(e[1], e[2])}
           Right(order) == /\ IsInjective(order)
                           /\ \A i, j \in DOMAIN order : i < j => ~Before(order[j], order[i])
<1>1. IsFiniteSet(mine)
  BY FS_Subset DEF WireInv, WireTyped, Mine
<1>2. \A x \in mine : x.due \in Nat /\ x.from \in Nat /\ x.seq \in Nat /\ x.to = to
  <2>1. \A x \in mine : x \in Flying /\ x.to = to
    BY DEF WireInv, WireTyped, Mine
  <2>2. Here \subseteq Nat
    BY HereIs DEF IInv
  <2> QED
    BY <2>1, <2>2 DEF Flying
<1>3. \A x, y \in mine : x.from = y.from /\ x.seq = y.seq => x = y
  BY <1>2 DEF WireInv, WireFacts, FlightNumbered, SameWay, Mine
<1> HIDE DEF mine
<1>4. /\ \A x \in mine : ~Before(x, x)
      /\ \A x, y, z \in mine : Before(x, y) /\ Before(y, z) => Before(x, z)
      /\ \A x, y \in mine : x = y \/ Before(x, y) \/ Before(y, x)
  BY <1>2, <1>3 DEF Before
<1>5. \A x, y \in mine : <<x, y>> \in R <=> Before(x, y)
  OBVIOUS
<1> HIDE DEF R
<1>6. PICK o \in [1..Cardinality(mine) -> mine] :
        /\ IsInjective(o)
        /\ \A i, j \in DOMAIN o : i < j => <<o[j], o[i]>> \notin R
  <2>1. \A x \in mine : <<x, x>> \notin R
    BY <1>4, <1>5
  <2>2. \A x, y, z \in mine : <<x, y>> \in R /\ <<y, z>> \in R => <<x, z>> \in R
    BY <1>4, <1>5
  <2>3. \A x, y \in mine : x = y \/ <<x, y>> \in R \/ <<y, x>> \in R
    BY <1>4, <1>5
  <2> QED
    BY <1>1, <2>1, <2>2, <2>3, InOrder
<1>7. Right(o)
  BY <1>5, <1>6
<1>8. Handed(n, to) = CHOOSE order \in [1..Cardinality(mine) -> mine] : Right(order)
  BY DEF Handed, Due, mine, Mine
<1> HIDE DEF Right
<1>9. Handed(n, to) \in [1..Cardinality(mine) -> mine] /\ Right(Handed(n, to))
  BY <1>7, <1>8
<1> QED
  BY <1>1, <1>9, Listings DEF Right, mine

\* What an advance adds to an inbox: what is due, after what was there.
LEMMA ArrivalsAre ==
  ASSUME IInv, WireInv, NEW frames \in 1..2, Advance(frames), NEW to \in Ids
  PROVE  LET old == inbox[to]
             new == inbox'[to]
         IN /\ new \in Seq(Flying) /\ IsFiniteSet(DOMAIN new)
            /\ DOMAIN old \subseteq DOMAIN new /\ \A i \in DOMAIN old : i \in Nat /\ new[i] = old[i] /\ i <= Len(old)
            /\ \A i \in DOMAIN new : i \in Nat /\ (i \notin DOMAIN old => to \in Here /\ i > Len(old) /\ new[i] \in Mine(frame', to))
            /\ \A i, j \in DOMAIN new : i \notin DOMAIN old /\ j \notin DOMAIN old =>
                 /\ new[i] = new[j] => i = j
                 /\ i < j => ~Before(new[j], new[i])
            /\ to \in Here => \A p \in Mine(frame', to) : \E i \in DOMAIN new : i \notin DOMAIN old /\ new[i] = p
<1> DEFINE old == inbox[to]
           new == inbox'[to]
           h == Handed(frame', to)
           L == Len(old)
           N == Len(h)
<1>1. /\ old \in Seq(Flying) /\ L \in Nat /\ DOMAIN old = 1..L /\ frame' \in Nat
      /\ new = IF to \in Here THEN old \o h ELSE old
  BY WireElements DEF WireInv, WireTyped, Advance
<1>2. CASE to \notin Here
  <2>1. new = old /\ IsFiniteSet(1..L)
    BY <1>1, <1>2, HowManyNumbers
  <2> QED
    BY <1>1, <1>2, <2>1
<1>3. CASE to \in Here
  <2> DEFINE mine == Mine(frame', to)
  <2>1. /\ h \in [1..Cardinality(mine) -> mine] /\ h \in Seq(mine) /\ Range(h) = mine /\ IsInjective(h)
        /\ \A i, j \in DOMAIN h : i < j => ~Before(h[j], h[i])
        /\ Cardinality(mine) \in Nat
    BY <1>1, <1>3, HandedIs
  <2>2. mine \subseteq Flying
    BY DEF Mine, WireInv, WireTyped
  <2> HIDE DEF mine, h
  <2>3. N \in Nat /\ DOMAIN h = 1..N /\ h \in Seq(Flying) /\ \A i \in 1..N : h[i] \in mine
    BY <2>1, <2>2, ListsGrow
  <2>4. /\ new = old \o h /\ DOMAIN new = 1..(L + N) /\ new \in Seq(Flying)
        /\ \A i \in 1..L : new[i] = old[i]
        /\ \A i \in 1..(L + N) : i > L => i - L \in 1..N /\ new[i] = h[i - L]
        /\ \A i \in 1..N : i + L \in 1..(L + N) /\ i + L > L /\ new[i + L] = h[i]
    BY <1>1, <1>3, <2>3
  <2>5. \A i, j \in 1..N : h[i] = h[j] => i = j
    BY <2>1, <2>3 DEF IsInjective
  <2>6. \A p \in mine : \E i \in 1..N : h[i] = p
    BY <2>1, <2>3 DEF Range
  <2> HIDE DEF L, N, new, old
  <2>7. \A i \in 1..(L + N) : i \in Nat /\ (i \notin 1..L <=> i > L)
    BY <1>1, <2>3
  <2>8. IsFiniteSet(1..(L + N)) /\ 1..L \subseteq 1..(L + N)
    BY <1>1, <2>3, HowManyNumbers
  <2>9. ASSUME NEW i \in 1..(L + N), NEW j \in 1..(L + N), i > L, j > L
        PROVE  (new[i] = new[j] => i = j) /\ (i < j => ~Before(new[j], new[i]))
    <3>1. i - L \in 1..N /\ j - L \in 1..N /\ new[i] = h[i - L] /\ new[j] = h[j - L]
      BY <2>4, <2>9
    <3>2. (i - L = j - L => i = j) /\ (i < j => i - L < j - L)
      BY <1>1, <2>7
    <3> QED
      BY <2>1, <2>3, <2>5, <3>1, <3>2
  <2>10. ASSUME NEW p \in mine PROVE \E i \in 1..(L + N) : i > L /\ new[i] = p
    <3>1. PICK i \in 1..N : h[i] = p
      BY <2>6
    <3>2. i + L \in 1..(L + N) /\ i + L > L /\ new[i + L] = p
      BY <2>4, <3>1
    <3> QED
      BY <3>2
  <2>11. \A i \in 1..(L + N) : i > L => new[i] \in mine
    BY <2>3, <2>4
  <2>12. \A i \in 1..L : i \in Nat /\ i <= L
    BY <1>1
  <2>13. DOMAIN new = 1..(L + N) /\ DOMAIN old = 1..L /\ new \in Seq(Flying) /\ \A i \in 1..L : new[i] = old[i]
    BY <1>1, <2>4
  <2>14. /\ DOMAIN old \subseteq DOMAIN new /\ \A i \in DOMAIN old : i \in Nat /\ new[i] = old[i] /\ i <= L
    BY <2>8, <2>12, <2>13
  <2>15. \A i \in DOMAIN new : i \in Nat /\ (i \notin DOMAIN old => to \in Here /\ i > L /\ new[i] \in mine)
    BY <1>3, <2>7, <2>11, <2>13
  <2>16. \A i, j \in DOMAIN new : i \notin DOMAIN old /\ j \notin DOMAIN old =>
           (new[i] = new[j] => i = j) /\ (i < j => ~Before(new[j], new[i]))
    BY <2>7, <2>9, <2>13
  <2>17. \A p \in mine : \E i \in DOMAIN new : i \notin DOMAIN old /\ new[i] = p
    BY <2>7, <2>10, <2>13
  <2> QED
    BY <2>8, <2>13, <2>14, <2>15, <2>16, <2>17 DEF mine, L, new, old
<1> QED
  BY <1>2, <1>3

\* What one packet's places and copies become when time passes.
LEMMA AdvanceCounts ==
  ASSUME IInv, WireInv, NEW frames \in 1..2, Advance(frames), NEW id \in DOMAIN trace
  PROVE  LET there == Cardinality(Places(id))
             under == Cardinality(Copies(id))
             thereNow == Cardinality(Places(id)')
             underNow == Cardinality(Copies(id)')
         IN /\ there \in Nat /\ under \in Nat /\ thereNow \in Nat /\ underNow \in Nat
            /\ there + under >= thereNow + underNow
            /\ CanReceive(peers[trace[id].to].at) => there + under = thereNow + underNow
<1> DEFINE to == trace[id].to
           old == inbox[to]
           new == inbox'[to]
           mine == Mine(frame', to)
           Landed == {i \in DOMAIN new : i \notin DOMAIN old /\ new[i].id = id}
           Gone == {p \in mine : p.id = id}
<1>a. WireTyped /\ WireFacts
  BY DEF WireInv
<1>b. to \in Here /\ to \in Ids /\ id # 0
  BY <1>a, WireElements, HereIs DEF Traced, IInv
<1>c. trace' = trace /\ frame' \in Nat /\ flight' = {p \in flight : ~(p.due <= frame')}
  BY <1>a DEF Advance, WireTyped, Due
<1>1. /\ IsFiniteSet(DOMAIN new) /\ DOMAIN old \subseteq DOMAIN new /\ \A i \in DOMAIN old : new[i] = old[i]
      /\ \A i \in DOMAIN new : i \notin DOMAIN old => new[i] \in mine
      /\ \A i, j \in DOMAIN new : i \notin DOMAIN old /\ j \notin DOMAIN old => (new[i] = new[j] => i = j)
      /\ \A p \in mine : \E i \in DOMAIN new : i \notin DOMAIN old /\ new[i] = p
  BY <1>b, ArrivalsAre
<1>2. /\ Places(id) = {i \in DOMAIN old : old[i].id = id} /\ Places(id)' = {i \in DOMAIN new : new[i].id = id}
  BY <1>c DEF Places
<1>3. /\ mine \subseteq flight /\ \A p \in mine : p.due <= frame'
      /\ CanReceive(peers[to].at) => \A p \in flight : p.id = id /\ p.due <= frame' => p \in mine
  <2>1. \A p \in flight : p.id = id => p.to = to
    BY <1>a, <1>b DEF WireFacts, FlightKnown, Known
  <2> QED
    BY <2>1 DEF Mine
<1> HIDE DEF old, new, mine
<1>4. Places(id)' = Places(id) \cup Landed /\ Places(id) \cap Landed = {}
  BY <1>1, <1>2
<1>5. /\ Copies(id)' \cup Gone \subseteq Copies(id) /\ Copies(id)' \cap Gone = {}
      /\ CanReceive(peers[to].at) => Copies(id) = Copies(id)' \cup Gone
  BY <1>3, <1>c DEF Copies
<1>6. IsFiniteSet(Landed) /\ IsFiniteSet(Places(id)) /\ IsFiniteSet(Copies(id))
  BY <1>1, FS_Subset, CountsAreNumbers
<1>7. IsFiniteSet(Gone) /\ IsFiniteSet(Copies(id)')
  BY <1>5, <1>6, FS_Subset
<1>8. Cardinality(Gone) = Cardinality(Landed)
  <2> DEFINE f == [i \in Landed |-> new[i]]
  <2>1. f \in [Landed -> Gone]
    BY <1>1
  <2>2. \A i, j \in Landed : f[i] = f[j] => i = j
    BY <1>1
  <2>3. \A p \in Gone : \E i \in Landed : f[i] = p
    <3> SUFFICES ASSUME NEW p \in Gone PROVE \E i \in Landed : new[i] = p
      OBVIOUS
    <3>1. PICK i \in DOMAIN new : i \notin DOMAIN old /\ new[i] = p
      BY <1>1
    <3> QED
      BY <3>1
  <2> HIDE DEF f
  <2>4. f \in Bijection(Landed, Gone)
    BY <2>1, <2>2, <2>3, Fun_IsBij
  <2> QED
    BY <1>6, <2>4, FS_Bijection DEF ExistsBijection
<1> HIDE DEF Landed, Gone
<1>9. /\ Cardinality(Landed) \in Nat /\ Cardinality(Places(id)) \in Nat /\ Cardinality(Copies(id)) \in Nat
      /\ Cardinality(Gone) \in Nat /\ Cardinality(Copies(id)') \in Nat
  BY <1>6, <1>7, FS_CardinalityType
<1>10. Cardinality(Places(id)') = Cardinality(Places(id)) + Cardinality(Landed)
  <2>1. Cardinality(Places(id) \cup Landed) =
          Cardinality(Places(id)) + Cardinality(Landed) - Cardinality(Places(id) \cap Landed)
    BY <1>6, FS_Union
  <2>2. Cardinality(Places(id) \cap Landed) = 0
    BY <1>4, FS_EmptySet
  <2>3. Cardinality(Places(id) \cup Landed) = Cardinality(Places(id)) + Cardinality(Landed)
    BY <1>9, <2>1, <2>2
  <2> QED
    BY <1>4, <2>3
<1>11. Cardinality(Copies(id)' \cup Gone) = Cardinality(Copies(id)') + Cardinality(Gone)
  <2>1. Cardinality(Copies(id)' \cup Gone) =
          Cardinality(Copies(id)') + Cardinality(Gone) - Cardinality(Copies(id)' \cap Gone)
    BY <1>7, FS_Union
  <2>2. Cardinality(Copies(id)' \cap Gone) = 0
    BY <1>5, FS_EmptySet
  <2> QED
    BY <1>9, <2>1, <2>2
<1>12. Cardinality(Copies(id)' \cup Gone) <= Cardinality(Copies(id))
  BY <1>5, <1>6, FS_Subset
<1>13. CanReceive(peers[to].at) => Cardinality(Copies(id)) = Cardinality(Copies(id)') + Cardinality(Gone)
  BY <1>5, <1>11
<1> HIDE DEF to
<1>14. PICK a \in Nat, b \in Nat, c \in Nat, d \in Nat, e \in Nat :
         /\ a = Cardinality(Places(id)) /\ b = Cardinality(Copies(id)) /\ c = Cardinality(Landed)
         /\ d = Cardinality(Gone) /\ e = Cardinality(Copies(id)')
  BY <1>9
<1>15. Cardinality(Places(id)') = a + c /\ c = d /\ e + d <= b /\ (CanReceive(peers[to].at) => b = e + d)
  BY <1>8, <1>10, <1>11, <1>12, <1>13, <1>14
<1>16. a + c \in Nat /\ a + b >= (a + c) + e /\ (CanReceive(peers[to].at) => a + b = (a + c) + e)
  BY <1>14, <1>15
<1> QED
  BY <1>14, <1>15, <1>16 DEF to

\* Time passes: what was under way has arrived, as often and in the order it should.
LEMMA AdvanceOnWire ==
  ASSUME IInv, WireInv, NEW frames \in 1..2, Advance(frames)
  PROVE  WireInv'
<1>a. WireTyped /\ WireFacts
  BY DEF WireInv
<1>b. /\ UNCHANGED <<peers, bounds, outbox, resolved, lastReliable, nextSeq, trace>>
      /\ frame \in Nat /\ frame' \in Nat /\ frame < frame'
      /\ flight' = {p \in flight : ~(p.due <= frame')}
      /\ \A p \in Ids \ Here : inbox'[p] = inbox[p]
      /\ DOMAIN inbox' = Ids
  BY <1>a DEF Advance, WireTyped, Due
<1>1. Here' = Here /\ Ids' = Ids /\ Links' = Links
  BY <1>b DEF Here, Ids, Links
<1>2. Encoded' = Encoded /\ Resolved' = Resolved /\ Flying' = Flying /\ Traced' = Traced
  BY <1>1 DEF Encoded, Resolved, Flying, Traced
<1>3. flight' \subseteq flight /\ \A p \in flight : p.due \in Nat /\ p.seq \in Nat /\ p.id \in Nat
  BY <1>a, <1>b, WireElements DEF Flying
<1>4. WireTyped'
  <2>1. inbox' = [p \in Ids |-> inbox'[p]]
    BY DEF Advance
  <2>2. \A p \in Ids : inbox'[p] \in Seq(Flying)
    BY ArrivalsAre
  <2>3. inbox' \in [Ids -> Seq(Flying)]
    BY <2>1, <2>2
  <2>4. flight' \in SUBSET Flying /\ IsFiniteSet(flight')
    BY <1>3, <1>a, FS_Subset DEF WireTyped
  <2> QED
    BY <1>1, <1>2, <1>a, <1>b, <2>3, <2>4 DEF WireTyped
<1>5. \A p : Known(p) <=> Known(p)'
  BY <1>b DEF Known
<1>6. FlightKnown' /\ FlightComing' /\ FlightNumbered' /\ FlightOrdered'
  <2>1. FlightKnown'
    BY <1>3, <1>5, <1>a, <1>b DEF WireFacts, FlightKnown
  <2>2. FlightComing'
    BY <1>3, <1>b DEF FlightComing
  <2>3. FlightNumbered' /\ FlightOrdered'
    BY <1>3, <1>a, <1>b DEF WireFacts, FlightNumbered, FlightOrdered
  <2> QED
    BY <2>1, <2>2, <2>3
<1>7. \A to \in Ids :
        /\ DOMAIN inbox[to] \subseteq DOMAIN inbox'[to]
        /\ \A i \in DOMAIN inbox[to] : i \in Nat /\ inbox'[to][i] = inbox[to][i] /\ i <= Len(inbox[to])
        /\ \A i \in DOMAIN inbox'[to] : i \in Nat /\
             (i \notin DOMAIN inbox[to] => i > Len(inbox[to]) /\ inbox'[to][i] \in Mine(frame', to))
        /\ \A i, j \in DOMAIN inbox'[to] : i \notin DOMAIN inbox[to] /\ j \notin DOMAIN inbox[to] =>
             /\ inbox'[to][i] = inbox'[to][j] => i = j
             /\ i < j => ~Before(inbox'[to][j], inbox'[to][i])
  BY ArrivalsAre
<1>8. \A to : \A p \in Mine(frame', to) : p \in flight /\ p.to = to /\ p.due <= frame'
  BY DEF Mine
<1>9. \A to \in Ids : \A i \in DOMAIN inbox'[to] : Known(inbox'[to][i]) /\ inbox'[to][i].to = to
  <2> SUFFICES ASSUME NEW to \in Ids, NEW i \in DOMAIN inbox'[to]
               PROVE  Known(inbox'[to][i]) /\ inbox'[to][i].to = to
    OBVIOUS
  <2>1. CASE i \in DOMAIN inbox[to]
    BY <1>7, <1>a, <2>1 DEF WireFacts, ArrivedKnown
  <2>2. CASE i \notin DOMAIN inbox[to]
    <3>1. inbox'[to][i] \in flight /\ inbox'[to][i].to = to
      BY <1>7, <1>8, <2>2
    <3> QED
      BY <1>a, <3>1 DEF WireFacts, FlightKnown
  <2> QED
    BY <2>1, <2>2
<1>10. ArrivedKnown'
  BY <1>1, <1>5, <1>9 DEF ArrivedKnown
<1>11. ArrivedOrdered'
  <2> SUFFICES ASSUME NEW to \in Ids, NEW i \in DOMAIN inbox'[to], Ordered(inbox'[to][i])
               PROVE  /\ \A j \in DOMAIN inbox'[to] :
                           i < j /\ Ordered(inbox'[to][j]) /\ inbox'[to][i].from = inbox'[to][j].from =>
                             inbox'[to][i].id < inbox'[to][j].id
                      /\ \A p \in flight' : Ordered(p) /\ SameWay(inbox'[to][i], p) => inbox'[to][i].id < p.id
    BY <1>1 DEF ArrivedOrdered, Ordered, SameWay
  <2> DEFINE a == inbox'[to][i]
  <2>1. i \in Nat /\ a.to = to
    BY <1>7, <1>9
  <2>2. CASE i \in DOMAIN inbox[to]
    <3>1. /\ a = inbox[to][i]
          /\ \A j \in DOMAIN inbox[to] : i < j /\ Ordered(inbox[to][j]) /\ a.from = inbox[to][j].from =>
               a.id < inbox[to][j].id
          /\ \A p \in flight : Ordered(p) /\ SameWay(a, p) => a.id < p.id
      BY <1>7, <1>a, <2>2 DEF WireFacts, ArrivedOrdered
    <3> HIDE DEF a
    <3>2. ASSUME NEW j \in DOMAIN inbox'[to], i < j, Ordered(inbox'[to][j]), a.from = inbox'[to][j].from
          PROVE  a.id < inbox'[to][j].id
      <4>1. CASE j \in DOMAIN inbox[to]
        BY <1>7, <3>1, <3>2, <4>1
      <4>2. CASE j \notin DOMAIN inbox[to]
        <5>1. inbox'[to][j] \in flight /\ inbox'[to][j].to = to
          BY <1>7, <1>8, <4>2
        <5> QED
          BY <2>1, <3>1, <3>2, <5>1 DEF SameWay
      <4> QED
        BY <4>1, <4>2
    <3> QED
      BY <1>3, <3>1, <3>2 DEF a
  <2>3. CASE i \notin DOMAIN inbox[to]
    <3>1. a \in flight /\ a.due <= frame' /\ a.due \in Nat /\ a.id \in Nat /\ a.seq \in Nat /\ i > Len(inbox[to])
      BY <1>3, <1>7, <1>8, <2>3
    <3>2. \A p, q \in flight : Ordered(p) /\ Ordered(q) /\ SameWay(p, q) =>
            (p.id = q.id => p = q) /\ (p.id < q.id => p.due <= q.due /\ p.seq < q.seq)
      BY <1>a DEF WireFacts, FlightOrdered
    <3>3. ASSUME NEW j \in DOMAIN inbox'[to], i < j, Ordered(inbox'[to][j]), a.from = inbox'[to][j].from
          PROVE  a.id < inbox'[to][j].id
      <4> DEFINE b == inbox'[to][j]
      <4>1. j \notin DOMAIN inbox[to]
        <5>1. Len(inbox[to]) \in Nat
          BY <1>a, WireElements
        <5>2. j \in Nat /\ j > Len(inbox[to])
          BY <1>7, <2>1, <3>1, <3>3, <5>1
        <5> QED
          BY <1>7, <5>1, <5>2
      <4>2. b \in flight /\ b.to = to /\ b.due \in Nat /\ b.id \in Nat /\ b.seq \in Nat
        BY <1>3, <1>7, <1>8, <4>1
      <4>3. a # b /\ ~Before(b, a)
        <5>1. i # j /\ j \in Nat
          BY <1>7, <2>1, <3>3
        <5> QED
          BY <1>7, <2>3, <3>3, <4>1, <5>1
      <4>4. Ordered(a) /\ Ordered(b) /\ SameWay(a, b) /\ SameWay(b, a)
        BY <2>1, <3>3, <4>2 DEF SameWay
      <4>5. a.from = b.from
        BY <3>3
      <4> HIDE DEF a, b
      <4>6. a.id # b.id
        BY <3>1, <3>2, <4>2, <4>3, <4>4
      <4>7. ~(b.id < a.id)
        BY <3>1, <3>2, <4>2, <4>3, <4>4, <4>5 DEF Before
      <4>8. a.id < b.id
        BY <3>1, <4>2, <4>6, <4>7
      <4> QED
        BY <4>8 DEF a, b
    <3>4. ASSUME NEW p \in flight', Ordered(p), SameWay(a, p) PROVE a.id < p.id
      <4>1. p \in flight /\ p.due \in Nat /\ ~(p.due <= frame') /\ p.id \in Nat
        BY <1>3, <1>b
      <4>2. Ordered(a) /\ SameWay(p, a)
        BY <3>4 DEF SameWay
      <4> HIDE DEF a
      <4>3. a.id # p.id
        BY <3>1, <3>2, <3>4, <4>1, <4>2
      <4>4. ~(p.id < a.id)
        BY <1>b, <3>1, <3>2, <3>4, <4>1, <4>2
      <4> QED
        BY <3>1, <4>1, <4>3, <4>4
    <3> QED
      BY <3>3, <3>4
  <2> QED
    BY <2>2, <2>3
<1>12. Counted'
  <2> SUFFICES ASSUME NEW id \in DOMAIN trace
               PROVE  /\ Cardinality(Places(id)') + Cardinality(Copies(id)') <= Times(trace[id].fate)
                      /\ ~trace[id].cut =>
                           Cardinality(Places(id)') + Cardinality(Copies(id)') = Times(trace[id].fate)
    BY <1>b DEF Counted, Times
  <2>1. PICK a \in Nat, b \in Nat, c \in Nat, d \in Nat :
          /\ a = Cardinality(Places(id)) /\ b = Cardinality(Copies(id))
          /\ c = Cardinality(Places(id)') /\ d = Cardinality(Copies(id)')
          /\ a + b >= c + d /\ (CanReceive(peers[trace[id].to].at) => a + b = c + d)
    BY AdvanceCounts
  <2>2. a + b <= Times(trace[id].fate) /\ (~trace[id].cut => a + b = Times(trace[id].fate))
    BY <1>a, <2>1 DEF WireFacts, Counted
  <2>3. Times(trace[id].fate) \in Nat
    BY DEF Times
  <2>4. ~trace[id].cut /\ ~CanReceive(peers[trace[id].to].at) => Times(trace[id].fate) = 0
    BY <1>a DEF WireFacts, WaysOpen, Times
  <2> HIDE DEF Times
  <2>5. c + d <= Times(trace[id].fate)
    BY <2>1, <2>2, <2>3
  <2>6. ASSUME ~trace[id].cut PROVE c + d = Times(trace[id].fate)
    <3>1. CASE CanReceive(peers[trace[id].to].at)
      BY <2>1, <2>2, <2>6, <3>1
    <3>2. CASE ~CanReceive(peers[trace[id].to].at)
      <4>1. a + b = 0 /\ Times(trace[id].fate) = 0
        BY <2>2, <2>4, <2>6, <3>2
      <4>2. c + d \in Nat /\ c + d <= a + b
        BY <2>1
      <4>3. c + d = 0
        BY <4>1, <4>2
      <4> QED
        BY <4>1, <4>3
    <3> QED
      BY <3>1, <3>2
  <2> QED
    BY <2>1, <2>5, <2>6
<1>13. WaysOpen'
  BY <1>a, <1>b DEF WireFacts, WaysOpen
<1> QED
  BY <1>4, <1>6, <1>10, <1>11, <1>12, <1>13 DEF WireInv, WireFacts

------------------------------------------------------------------------------
\* The theorems about the wire

\* The invariant of the wire holds at first.
LEMMA WireInitially == Init => WireInv
<1> SUFFICES ASSUME Init PROVE WireInv
  OBVIOUS
<1>1. /\ Here = {} /\ trace = <<>> /\ flight = {} /\ resolved = <<>>
      /\ outbox = [p \in Ids |-> <<>>] /\ inbox = [p \in Ids |-> <<>>]
      /\ lastReliable = [l \in Links |-> 0] /\ nextSeq = [l \in Links |-> 0] /\ frame = 0
  BY DEF Init, Here
<1>2. WireTyped
  BY <1>1, FS_EmptySet DEF WireTyped
<1>3. DOMAIN trace = {} /\ \A to \in Ids : DOMAIN inbox[to] = {}
  BY <1>1
<1>4. WireFacts
  BY <1>1, <1>3 DEF WireFacts, FlightKnown, FlightComing, FlightNumbered, FlightOrdered, ArrivedKnown,
     ArrivedOrdered, Counted, WaysOpen
<1> QED
  BY <1>2, <1>4 DEF WireInv

\* Every call, app and wire step keeps it.
LEMMA WireStep ==
  ASSUME IInv, WireInv, [Next]_vars
  PROVE  WireInv'
<1>1. ASSUME NEW p \in Here,
             \/ Promote(p) \/ Disconnect(p) \/ BreakLink(p) \/ HalfOpen(p) \/ Reconnect(p)
             \/ Leave(p) \/ Rejoin(p) \/ Rehost(p) \/ NameHost(p)
      PROVE  WireInv'
  BY <1>1, PromoteOnWire, DisconnectOnWire, BreakLinkOnWire, HalfOpenOnWire, ReconnectOnWire, LeaveOnWire,
     RejoinOnWire, RehostOnWire, NameHostOnWire
<1>2. CASE AddHost \/ AddClient \/ AddPendingClient
  BY <1>2, AddOnWire
<1>3. ASSUME NEW how \in {"Quits", "Crashes", "FallsSilent"}, LoseHost(how)
      PROVE  WireInv'
  BY <1>3, LoseHostOnWire
<1>4. ASSUME NEW from \in Here, NEW to \in Here, DropNext(from, to)
      PROVE  WireInv'
  BY <1>4, DropNextOnWire
<1>5. CASE Calls
  BY <1>1, <1>2, <1>3, <1>4, <1>5 DEF Calls
<1>6. CASE Apps
  <2>1. ASSUME NEW p \in Here, NEW mode \in Modes, NEW big \in May(bounds.link.limit), Encode(p, mode, big)
        PROVE  WireInv'
    BY <2>1, EncodeOnWire
  <2>2. ASSUME NEW p \in Here, NEW seat \in peers[p].seats, Kick(p, seat)
        PROVE  WireInv'
    BY <2>2, KickOnWire
  <2>3. ASSUME NEW p \in Here, LeaveOnRequest(p) \/ Resumes(p) \/ GivesUp(p)
        PROVE  WireInv'
    BY <2>3, AppOnWire
  <2> QED
    BY <1>6, <2>1, <2>2, <2>3 DEF Apps
<1>7. CASE Wire
  <2>1. ASSUME NEW from \in Here, NEW to \in Here, DeliverRaw(from, to)
        PROVE  WireInv'
    BY <2>1, DeliverRawOnWire
  <2>2. ASSUME NEW frames \in 1..2, Advance(frames)
        PROVE  WireInv'
    BY <2>2, AdvanceOnWire
  <2> QED
    BY <1>7, <2>1, <2>2, CollectOnWire, ScheduleOnWire DEF Wire
<1>8. CASE UNCHANGED vars
  BY <1>8, WireSame, OutboxStays DEF vars, wire, apps, WireInv, WireTyped
<1> QED
  BY <1>5, <1>6, <1>7, <1>8 DEF Next

\* What is sent and what becomes of it stays so, whatever the instance.
THEOREM WireStaysRight == Spec => [](IInv /\ WireInv)
<1>1. Init => IInv /\ WireInv
  BY SeatsInitially, WireInitially
<1>2. IInv /\ WireInv /\ [Next]_vars => (IInv /\ WireInv)'
  BY SeatsStep, WireStep
<1> QED
  BY <1>1, <1>2, PTL DEF Spec

\* The invariant says what the property does.
LEMMA WireIsTraced ==
  ASSUME IInv, WireInv
  PROVE  ArrivesAsTraced
<1>a. WireTyped /\ WireFacts /\ Here \subseteq Ids
  BY HereIs DEF WireInv, IInv
<1>1. \A p \in flight : p.due > frame
  BY <1>a DEF WireFacts, FlightComing
<1>2. \A id \in DOMAIN trace :
        /\ Cardinality(Places(id)) + Cardinality(Copies(id)) <= Times(trace[id].fate)
        /\ ~trace[id].cut => Cardinality(Places(id)) + Cardinality(Copies(id)) = Times(trace[id].fate)
  BY <1>a DEF WireFacts, Counted
<1>3. \A to \in Here : \A i, j \in DOMAIN inbox[to] :
        i < j /\ inbox[to][i].from = inbox[to][j].from
              /\ inbox[to][i].mode = "reliable" /\ inbox[to][j].mode = "reliable"
              /\ inbox[to][i].id # 0 /\ inbox[to][j].id # 0
          => inbox[to][i].id < inbox[to][j].id
  BY <1>a DEF WireFacts, ArrivedOrdered, Ordered
<1> QED
  BY <1>1, <1>2, <1>3 DEF ArrivesAsTraced, Places, Copies, Times

\* Delayed, sent again, overtaken, duplicated, or cut off: each packet arrives as its
\* trace says, and the reliable ones of a sender in the order they were sent.
THEOREM PacketsArriveAsTraced == Spec => []ArrivesAsTraced
<1>1. IInv /\ WireInv => ArrivesAsTraced
  BY WireIsTraced
<1> QED
  BY <1>1, WireStaysRight, PTL

\* Only an advance hands packets over.
LEMMA OnlyTimeHandsOver ==
  ASSUME [Next]_vars
  PROVE  inbox' = inbox \/ (\E frames \in 1..2 : Advance(frames))
<1>1. ASSUME NEW p \in Here,
             \/ Promote(p) \/ Disconnect(p) \/ BreakLink(p) \/ HalfOpen(p) \/ Reconnect(p)
             \/ Leave(p) \/ Rejoin(p) \/ Rehost(p) \/ NameHost(p)
      PROVE  inbox' = inbox
  BY <1>1 DEF Promote, Disconnect, BreakLink, HalfOpen, Reconnect, Leave, Rejoin, Rehost, NameHost, Unchanged, apps
<1>2. CASE AddHost \/ AddClient \/ AddPendingClient
  BY <1>2 DEF AddHost, AddClient, AddPendingClient, AddedPeer, apps
<1>3. CASE \E how \in {"Quits", "Crashes", "FallsSilent"} : LoseHost(how)
  BY <1>3 DEF LoseHost, Unchanged, apps
<1>4. CASE \E from, to \in Here : DropNext(from, to)
  BY <1>4 DEF DropNext, apps
<1>5. CASE Apps
  BY <1>5 DEF Apps, Encode, Kick, LeaveOnRequest, Resumes, GivesUp, InApp
<1>6. CASE Wire
  <2>1. CASE Collect
    BY <2>1 DEF Collect
  <2>2. CASE Schedule
    BY <2>2 DEF Schedule, apps
  <2>3. ASSUME NEW from \in Here, NEW to \in Here, DeliverRaw(from, to)
        PROVE  inbox' = inbox
    BY <2>3 DEF DeliverRaw, apps
  <2> QED
    BY <1>6, <2>1, <2>2, <2>3 DEF Wire
<1>7. CASE UNCHANGED vars
  BY <1>7 DEF vars, apps
<1> QED
  BY <1>1, <1>2, <1>3, <1>4, <1>5, <1>6, <1>7 DEF Next, Calls

\* What it hands over belongs to the attachment it was sent in.
LEMMA HandedWasNotCut ==
  ASSUME IInv, WireInv, [Next]_vars, NEW p \in Here, NEW i \in DOMAIN inbox'[p],
         i > Len(inbox[p]), inbox'[p][i].id # 0
  PROVE  ~trace[inbox'[p][i].id].missed
<1>a. p \in Ids /\ WireTyped /\ FlightKnown
  BY HereIs DEF WireInv, WireFacts, IInv
<1>b. DOMAIN inbox[p] = 1..Len(inbox[p]) /\ Len(inbox[p]) \in Nat
  BY <1>a, WireElements
<1>1. i \notin DOMAIN inbox[p]
  BY <1>b
<1>2. PICK frames \in 1..2 : Advance(frames)
  BY <1>1, OnlyTimeHandsOver
<1>3. inbox'[p][i] \in Mine(frame', p)
  BY <1>a, <1>1, <1>2, ArrivalsAre
<1>4. inbox'[p][i] \in flight
  BY <1>3 DEF Mine
<1> QED
  BY <1>4, <1>a DEF FlightKnown

\* A packet never arrives at a peer that was cut off since it was sent.
THEOREM NothingComesFromBefore == Spec => NothingFromBeforeTheCut
<1> DEFINE Fresh ==
      \A p \in Here : \A i \in DOMAIN inbox'[p] :
        i > Len(inbox[p]) /\ inbox'[p][i].id # 0 => ~trace[inbox'[p][i].id].missed
<1>1. IInv /\ WireInv /\ [Next]_vars => [Fresh]_vars
  BY HandedWasNotCut
<1>2. [][Fresh]_vars => NothingFromBeforeTheCut
  BY DEF NothingFromBeforeTheCut
<1> QED
  BY <1>1, <1>2, WireStaysRight, PTL DEF Spec

==============================================================================
