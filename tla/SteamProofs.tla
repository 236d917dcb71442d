------------------------------ MODULE SteamProofs ------------------------------
(***************************************************************************)
(* Theorems about the Steam backend, for every number of peers, lobbies,   *)
(* requests and upsets.                                                    *)
(*                                                                         *)
(* A frame of a peer is a pipeline of functions on what its app holds.     *)
(* Goes says what each of them keeps, and survives one after the other;    *)
(* Brings says what a batch of callbacks keeps, in which the answer to a   *)
(* request may stand, and so a frame.  The inductive invariant, IInv, ties *)
(* the requests and the answers under way to the stage of the lobby        *)
(* entity, and the membership that Steam keeps to either; Moves is what a  *)
(* step makes of the session of any peer, from which the action properties *)
(* follow.  StayInv says why a peer that holds a lobby is listed in it or  *)
(* will hear that it is not, which NobodyIsStuck needs besides, and        *)
(* CloseInv why a cache that names its peer the owner also says whether    *)
(* the lobby is closed, which ClosedIsNotTakenOver needs.                  *)
(***************************************************************************)
EXTENDS Steam, SequenceProofs

------------------------------------------------------------------------------
\* The values of the variables

\* Callbacks that may be waiting, requests under way, seats, packets; what an app
\* holds, and what a step of it works on.
Callback == [kind : {"created", "enter", "left", "entered", "failed"}, id : {None} \cup Lobbies,
             who : Peers, ok : BOOLEAN]
Asked == [kind : {"create"}, id : {None}] \cup [kind : {"join"}, id : Lobbies]
Seat == [of : Peers, connected : BOOLEAN]
Packets == [kind : {"ready", "hosts", "removed"}, from : Peers, to : Peers]
Entity == Entities(Lobbies, Peers)
Worlds == [entity : Entity, seats : Seq(Seat), current : {None} \cup Lobbies,
           believes : {None} \cup Peers]
Works == [entity : Entity, seats : Seq(Seat), current : {None} \cup Lobbies, believes : {None} \cup Peers,
          me : Peers, words : Nat, leaves : {None} \cup Lobbies, sends : SUBSET Packets]

\* No entity is a value of the entity.
LEMMA NoEntityIs == NoEntity \in Entity
BY DEF NoEntity, Entity, Entities, Stages, None

\* The fields of what a step works on.
LEMMA WorkFields ==
  ASSUME NEW w \in Works
  PROVE  /\ w.entity \in Entity /\ w.seats \in Seq(Seat) /\ w.current \in {None} \cup Lobbies
         /\ w.believes \in {None} \cup Peers /\ w.me \in Peers /\ w.words \in Nat
         /\ w.leaves \in {None} \cup Lobbies /\ w.sends \in SUBSET Packets
BY DEF Works

\* A step begins with what the app holds.
LEMMA WorkingIs ==
  ASSUME NEW p \in Peers, world[p] \in Worlds
  PROVE  /\ Working(p) \in Works
         /\ Working(p).entity = world[p].entity /\ Working(p).seats = world[p].seats
         /\ Working(p).current = world[p].current /\ Working(p).believes = world[p].believes
         /\ Working(p).me = p /\ Working(p).words = 0 /\ Working(p).leaves = None /\ Working(p).sends = {}
BY DEF Working, Worlds, Works, None

\* Forgetting a lobby leaves it, and takes the trust that went with it.
LEMMA ForgetIs ==
  ASSUME NEW w \in Works
  PROVE  LET d == forget_lobby(w)
         IN /\ d \in Works /\ d.entity = w.entity /\ d.seats = w.seats /\ d.me = w.me /\ d.words = w.words
            /\ w.entity.id = None => d = w
            /\ w.entity.id # None => d.leaves = w.entity.id /\ d.believes = None
            /\ w.entity.id # None /\ w.current = w.entity.id => d.current = None
<1>1. w.entity.id \in {None} \cup Lobbies
  BY DEF Works, Entity, Entities
<1> QED
BY <1>1 DEF forget_lobby, Works

\* The entity is gone, with its seats and its lobby.
LEMMA DespawnIs ==
  ASSUME NEW w \in Works
  PROVE  LET d == Despawn(w)
         IN /\ d \in Works /\ d.entity = NoEntity /\ d.seats = <<>> /\ d.me = w.me /\ d.words = w.words
            /\ w.entity.id = None => d.leaves = w.leaves /\ d.believes = w.believes /\ d.current = w.current
            /\ w.entity.id # None => d.leaves = w.entity.id /\ d.believes = None
            /\ w.entity.id # None /\ w.current = w.entity.id => d.current = None
<1> DEFINE f == forget_lobby(w)
<1>1. Despawn(w) = [f EXCEPT !.entity = NoEntity, !.seats = <<>>]
  BY DEF Despawn
<1>2. /\ f \in Works /\ f.me = w.me /\ f.words = w.words
      /\ w.entity.id = None => f = w
      /\ w.entity.id # None => f.leaves = w.entity.id /\ f.believes = None
      /\ w.entity.id # None /\ w.current = w.entity.id => f.current = None
  BY ForgetIs
<1> HIDE DEF f
<1>3. <<>> \in Seq(Seat)
  OBVIOUS
<1> QED
  BY <1>1, <1>2, <1>3, NoEntityIs DEF Works

\* So it is when a session ends, and the game is told.
LEMMA EndedIs ==
  ASSUME NEW w \in Works
  PROVE  LET d == Ended(w)
         IN /\ d \in Works /\ d.entity = NoEntity /\ d.seats = <<>> /\ d.me = w.me /\ d.words = w.words + 1
            /\ w.entity.id = None => d.leaves = w.leaves /\ d.believes = w.believes /\ d.current = w.current
            /\ w.entity.id # None => d.leaves = w.entity.id /\ d.believes = None
            /\ w.entity.id # None /\ w.current = w.entity.id => d.current = None
<1> DEFINE f == Despawn(w)
<1>1. Ended(w) = [f EXCEPT !.words = @ + 1]
  BY DEF Ended
<1>2. /\ f \in Works /\ f.entity = NoEntity /\ f.seats = <<>> /\ f.me = w.me /\ f.words = w.words
      /\ w.entity.id = None => f.leaves = w.leaves /\ f.believes = w.believes /\ f.current = w.current
      /\ w.entity.id # None => f.leaves = w.entity.id /\ f.believes = None
      /\ w.entity.id # None /\ w.current = w.entity.id => f.current = None
  BY DespawnIs
<1> HIDE DEF f
<1> QED
  BY <1>1, <1>2 DEF Works

------------------------------------------------------------------------------
\* The seats

\* The first of some places can be chosen.
LEMMA FoundLeast ==
  ASSUME NEW T \in SUBSET Nat, T # {}
  PROVE  (CHOOSE i \in T : \A j \in T : i <= j) \in T
BY LeastNumber

\* There are finitely many peers.
LEMMA PeersFinite ==
  ASSUME bounds \in Instances
  PROVE  IsFiniteSet(Peers) /\ bounds.peers \in Nat /\ bounds.lobbies \in Nat
BY BoundAssumption, FS_Interval, SMTT(30) DEF Peers

\* Only the seats differ, and the packets to send.
SeatsOnly(w, v) ==
  /\ v \in Works /\ v.entity = w.entity /\ v.current = w.current /\ v.believes = w.believes
  /\ v.me = w.me /\ v.words = w.words /\ v.leaves = w.leaves

\* A change to the seats, and a packet, is only that.
LEMMA OnlySeats ==
  ASSUME NEW w \in Works, NEW s \in Seq(Seat), NEW x \in SUBSET Packets
  PROVE  /\ SeatsOnly(w, w)
         /\ SeatsOnly(w, [w EXCEPT !.seats = s])
         /\ SeatsOnly(w, [w EXCEPT !.seats = s, !.sends = x])
BY DEF SeatsOnly, Works

\* A pending seat is only a seat.
LEMMA EnsureIs ==
  ASSUME NEW asked, NEW w \in Works, NEW q \in Peers
  PROVE  SeatsOnly(w, ensure_pending(asked, w, q))
<1>1. w.seats \in Seq(Seat)
  BY WorkFields
<1>2. NewSeat(q) \in Seat
  BY DEF NewSeat, Seat
<1> DEFINE s == Append(w.seats, NewSeat(q))
<1>3. s \in Seq(Seat)
  BY <1>1, <1>2
<1>4. ensure_pending(asked, w, q) \in {w, [w EXCEPT !.seats = s]}
  BY DEF ensure_pending
<1> HIDE DEF s
<1> QED
  BY <1>3, <1>4, OnlySeats

\* The seats of a peer are places of the sequence of seats.
LEMMA SeatsNumbered ==
  ASSUME NEW w \in Works, NEW q
  PROVE  /\ SeatOf(w, q) \in SUBSET (1..Len(w.seats)) /\ SeatOf(w, q) \in SUBSET Nat
         /\ IsFiniteSet(SeatOf(w, q))
         /\ SeatOf(w, q) = {} <=> Cardinality(SeatOf(w, q)) = 0
<1>1. w.seats \in Seq(Seat)
  BY WorkFields
<1>2. SeatOf(w, q) \in SUBSET (1..Len(w.seats))
  BY <1>1 DEF SeatOf
<1>3. IsFiniteSet(1..Len(w.seats))
  BY <1>1, FS_Interval
<1>4. IsFiniteSet(SeatOf(w, q))
  BY <1>2, <1>3, FS_Subset
<1> QED
  BY <1>1, <1>2, <1>4, FS_EmptySet

\* What is left of a sequence is one of the same elements.
LEMMA RemoveAtIs ==
  ASSUME NEW S, NEW s \in Seq(S), NEW i \in 1..Len(s)
  PROVE  RemoveAt(s, i) \in Seq(S)
<1>1. SubSeq(s, 1, i - 1) \in Seq(S) /\ SubSeq(s, i + 1, Len(s)) \in Seq(S)
  OBVIOUS
<1> QED
  BY <1>1 DEF RemoveAt

\* A seat that goes is only a seat, and a packet.
LEMMA UnseatedIs ==
  ASSUME NEW asked \in Works, NEW w \in Works, NEW q \in Peers
  PROVE  SeatsOnly(w, Unseated(asked, w, q))
<1> DEFINE A == SeatOf(asked, q)
           B == SeatOf(w, q)
           i == CHOOSE n \in B : \A j \in B : n <= j
           s == RemoveAt(w.seats, i)
           x == w.sends \cup {Packet("removed", w.me, q)}
           y == IF w.seats[i].connected THEN x ELSE w.sends
<1>1. CASE A = {} \/ Cardinality(B) < Cardinality(A)
  BY <1>1, OnlySeats, WorkFields DEF Unseated
<1>2. CASE ~(A = {} \/ Cardinality(B) < Cardinality(A))
  <2>1. Unseated(asked, w, q) = [w EXCEPT !.seats = s, !.sends = y]
    BY <1>2 DEF Unseated
  <2>2. B # {} /\ B \in SUBSET Nat /\ B \in SUBSET (1..Len(w.seats))
    <3>1. Cardinality(A) \in Nat /\ Cardinality(A) # 0
      BY <1>2, SeatsNumbered, FS_CardinalityType
    <3>2. Cardinality(B) \in Nat
      BY SeatsNumbered, FS_CardinalityType
    <3>3. Cardinality(B) # 0
      <4> HIDE DEF A, B
      <4> QED BY <1>2, <3>1, <3>2
    <3> QED
      BY <3>3, SeatsNumbered
  <2>3. i \in B
    <3> HIDE DEF B
    <3> QED BY <2>2, FoundLeast
  <2>4. s \in Seq(Seat)
    <3> HIDE DEF i
    <3> QED BY <2>2, <2>3, RemoveAtIs, WorkFields
  <2>5. y \in SUBSET Packets
    <3>1. Packet("removed", w.me, q) \in Packets
      BY WorkFields DEF Packet, Packets
    <3>2. x \in SUBSET Packets
      BY <3>1, WorkFields
    <3> HIDE DEF x, i
    <3> QED
      BY <3>2, WorkFields
  <2> HIDE DEF s, y
  <2>6. SeatsOnly(w, [w EXCEPT !.seats = s, !.sends = y])
    BY <2>4, <2>5, OnlySeats
  <2> QED
    BY <2>1, <2>6
<1> QED
  BY <1>1, <1>2

\* An element of a sequence can be another.
LEMMA OneElse ==
  ASSUME NEW S, NEW s \in Seq(S), NEW i \in 1..Len(s), NEW x \in S
  PROVE  [s EXCEPT ![i] = x] \in Seq(S)
OBVIOUS

\* A seat that is connected is only a seat.
LEMMA SeatedIs ==
  ASSUME NEW w \in Works, NEW q
  PROVE  SeatsOnly(w, Seated(w, q))
<1> DEFINE T == {i \in SeatOf(w, q) : ~w.seats[i].connected}
           i == CHOOSE n \in T : \A j \in T : n <= j
           s == [w.seats EXCEPT ![i].connected = TRUE]
<1>1. CASE T = {}
  BY <1>1, OnlySeats, WorkFields DEF Seated
<1>2. CASE T # {}
  <2>1. Seated(w, q) = [w EXCEPT !.seats = s]
    BY <1>2 DEF Seated
  <2>2. T \in SUBSET Nat /\ T \in SUBSET (1..Len(w.seats))
    BY SeatsNumbered
  <2>3. i \in 1..Len(w.seats)
    <3> HIDE DEF T
    <3> QED BY <1>2, <2>2, FoundLeast
  <2>4. s \in Seq(Seat)
    <3> HIDE DEF i
    <3>1. w.seats \in Seq(Seat) /\ w.seats[i] \in Seat
      BY <2>3, WorkFields
    <3> DEFINE t == [w.seats[i] EXCEPT !.connected = TRUE]
    <3>2. t \in Seat
      BY <3>1 DEF Seat
    <3>3. s = [w.seats EXCEPT ![i] = t]
      OBVIOUS
    <3> HIDE DEF t
    <3> QED
      BY <2>3, <3>1, <3>2, <3>3, OneElse
  <2> HIDE DEF s
  <2> QED
    BY <2>1, <2>4, OnlySeats, WorkFields
<1> QED
  BY <1>1, <1>2

------------------------------------------------------------------------------
\* What every function keeps

\* The stages of a lobby entity, and the callbacks that answer a request.
InALobby == {"pending", "client", "host"}
Open == {"client", "host"}
IsAnswer(c) == c.kind \in {"created", "enter"}

\* The parts of the entity go together.
Whole(w) ==
  /\ w.entity.id # None <=> w.entity.stage \in InALobby
  /\ w.entity.stage # "host" => w.seats = <<>>
  /\ w.entity.waits # "no" => w.entity.stage \in InALobby
  /\ w.entity.closing => w.entity.stage = "host"
\* Its trust is that of its lobby.
Trusts(w, p) ==
  /\ w.current = w.entity.id
  /\ w.believes = IF Hosts(w) THEN p ELSE IF IsClient(w) THEN w.entity.pin ELSE None
Good(w) == Whole(w) /\ Trusts(w, w.me)
\* It is in the lobby and stays, or leaves it.
Keeps(w, l) ==
  \/ w.entity.id = l /\ w.leaves = None
  \/ w.leaves = l /\ w.entity.id = None

\* Its cache gives it an open lobby to host.
MayTake(p, l) == ~lobby_is_closed(p, l) /\ lobby_owner(p, l) = p
\* The lobby is the same as long as there is one.
Stays(u, w) ==
  /\ w \in Works /\ w.me = u.me
  /\ Whole(u) => Whole(w)
  /\ u.entity.stage = "none" => w.entity.stage = "none"
  /\ u.entity.id # None /\ w.entity.stage # "none" =>
       /\ w.entity.id = u.entity.id
       /\ Hosts(u) => Hosts(w)
       /\ Hosts(w) => Hosts(u) \/ MayTake(u.me, u.entity.id)
\* A lobby that goes is told of once if it was open, and at most once if not.
Turns(u, w) ==
  \/ /\ u.entity.stage = "none" <=> w.entity.stage = "none"
     /\ w.words = u.words
     /\ u.entity.stage \in Open => w.entity.stage \in Open
  \/ u.entity.stage # "none" /\ w.entity.stage = "none" /\ w.words = u.words + 1
  \/ u.entity.stage \notin {"none"} \cup Open /\ w.entity.stage = "none" /\ w.words = u.words
\* What every function of a step keeps, and what most do.
Lasts(u, w) ==
  /\ Stays(u, w)
  /\ Good(u) => Good(w)
  /\ \A l \in Lobbies : Keeps(u, l) => Keeps(w, l)
Goes(u, w) == Lasts(u, w) /\ Turns(u, w)

\* The fields of an entity, and what its stage tells.
LEMMA StageIs ==
  ASSUME NEW w \in Works
  PROVE  /\ w.entity.stage \in Stages /\ w.entity.id \in {None} \cup Lobbies /\ w.words \in Nat
         /\ w.entity.pin \in {None} \cup Peers
         /\ IsClient(w) => ~Hosts(w) /\ w.entity.stage # "none"
         /\ Hosts(w) => w.entity.stage # "none"
BY DEF Works, Entity, Entities, IsClient, Hosts

\* What functions keep, one after the other keep.
LEMMA Onward ==
  ASSUME NEW u \in Works, NEW v \in Works, NEW w \in Works
  PROVE  /\ Stays(u, u) /\ Goes(u, u)
         /\ Stays(u, v) /\ Stays(v, w) => Stays(u, w)
         /\ Lasts(u, v) /\ Lasts(v, w) => Lasts(u, w)
         /\ Goes(u, v) /\ Goes(v, w) => Goes(u, w)
<1>1. Turns(u, u) /\ (Turns(u, v) /\ Turns(v, w) => Turns(u, w))
  BY StageIs DEF Turns, Open
<1>2. Stays(u, u) /\ (Stays(u, v) /\ Stays(v, w) => Stays(u, w))
  BY StageIs DEF Stays, Hosts
<1> QED
  BY <1>1, <1>2 DEF Goes, Lasts

\* A change to the seats keeps everything else.
LEMMA SeatsGo ==
  ASSUME NEW w \in Works, NEW v, SeatsOnly(w, v), Hosts(w) \/ (Whole(w) => Whole(v))
  PROVE  Goes(w, v) /\ (Hosts(w) <=> Hosts(v))
<1>1. /\ v \in Works /\ v.entity = w.entity /\ v.current = w.current /\ v.believes = w.believes
      /\ v.me = w.me /\ v.words = w.words /\ v.leaves = w.leaves
  BY DEF SeatsOnly
<1>2. Hosts(w) <=> Hosts(v)
  BY <1>1 DEF Hosts
<1>3. Whole(w) => Whole(v)
  BY <1>1 DEF Whole, Hosts
<1>4. Good(w) => Good(v)
  BY <1>1, <1>3 DEF Good, Trusts, Hosts, IsClient
<1>5. Stays(w, v) /\ Turns(w, v)
  BY <1>1, <1>2, <1>3 DEF Stays, Turns
<1> QED
  BY <1>1, <1>2, <1>4, <1>5 DEF Goes, Lasts, Keeps

\* The entity is gone and its lobby is left.
Gone(w, d) ==
  /\ d \in Works /\ d.entity = NoEntity /\ d.seats = <<>> /\ d.me = w.me
  /\ w.entity.id = None => d.leaves = w.leaves /\ d.believes = w.believes /\ d.current = w.current
  /\ w.entity.id # None => d.leaves = w.entity.id /\ d.believes = None
  /\ w.entity.id # None /\ w.current = w.entity.id => d.current = None

\* An entity that is gone is trusted with nothing, and has left its lobby.
LEMMA GoneGoes ==
  ASSUME NEW w \in Works, NEW d, Gone(w, d)
  PROVE  Lasts(w, d) /\ Stays(w, d) /\ Whole(d) /\ d.entity.stage = "none" /\ (Good(w) => Good(d))
<1>1. d.entity.stage = "none" /\ d.entity.id = None /\ d.entity.waits = "no" /\ ~d.entity.closing /\ d.seats = <<>> /\ d \in Works /\ d.me = w.me
  BY DEF Gone, NoEntity
<1>2. Whole(d) /\ ~Hosts(d) /\ ~IsClient(d)
  BY <1>1 DEF Whole, InALobby, Hosts, IsClient
<1>3. Stays(w, d)
  BY <1>1, <1>2 DEF Stays
<1>4. Good(w) => Good(d)
  <2> SUFFICES ASSUME Good(w) PROVE Good(d)
    OBVIOUS
  <2>1. w.current = w.entity.id
    BY DEF Good, Trusts
  <2>2. CASE w.entity.id = None
    <3>1. w.entity.stage \notin InALobby
      BY <2>2 DEF Good, Whole
    <3>2. w.believes = None
      BY <3>1 DEF Good, Trusts, Hosts, IsClient, InALobby
    <3> QED
      BY <1>1, <1>2, <2>1, <2>2, <3>2 DEF Good, Trusts, Gone
  <2>3. CASE w.entity.id # None
    BY <1>1, <1>2, <2>1, <2>3 DEF Good, Trusts, Gone
  <2> QED
    BY <2>2, <2>3
<1>5. ASSUME NEW l \in Lobbies, Keeps(w, l)
      PROVE  Keeps(d, l)
  <2>1. l # None
    BY PeersFinite DEF Lobbies, None
  <2> QED
    BY <1>1, <1>5, <2>1 DEF Keeps, Gone
<1> QED
  BY <1>1, <1>2, <1>3, <1>4, <1>5 DEF Lasts

\* So a session may end with a word, and one that never opened without.
LEMMA EndedGoes ==
  ASSUME NEW w \in Works
  PROVE  /\ Gone(w, Ended(w)) /\ Gone(w, Despawn(w))
         /\ Ended(w).words = w.words + 1 /\ Despawn(w).words = w.words
         /\ Lasts(w, Ended(w)) /\ Lasts(w, Despawn(w))
         /\ w.entity.stage # "none" => Goes(w, Ended(w))
         /\ w.entity.stage \notin {"none"} \cup Open => Goes(w, Despawn(w))
<1> DEFINE e == Ended(w)
           d == Despawn(w)
<1>1. Gone(w, e) /\ Gone(w, d)
  BY EndedIs, DespawnIs DEF Gone
<1>2. e.words = w.words + 1 /\ d.words = w.words
  BY EndedIs, DespawnIs
<1> HIDE DEF e, d
<1>3. e.entity.stage = "none" /\ d.entity.stage = "none" /\ Lasts(w, e) /\ Lasts(w, d)
  BY <1>1, GoneGoes
<1>4. w.entity.stage # "none" => Goes(w, e)
  BY <1>2, <1>3 DEF Turns, Goes
<1>5. w.entity.stage \notin {"none"} \cup Open => Goes(w, d)
  <2>1. w.entity.stage \notin {"none"} \cup Open => Turns(w, d)
    BY <1>2, <1>3 DEF Turns
  <2> QED
    BY <1>3, <2>1 DEF Goes
<1> QED
  BY <1>1, <1>2, <1>3, <1>4, <1>5 DEF e, d

\* tear_down_client_lobby keeps what every function keeps.
LEMMA TearDownGoes ==
  ASSUME NEW w \in Works
  PROVE  Goes(w, tear_down_client_lobby(w))
BY EndedGoes, Onward DEF tear_down_client_lobby

\* A wait is nothing to the lobby it is for.
LEMMA SameLobby ==
  ASSUME NEW w \in Works, NEW x \in {"no", "successor", "named"}, w.entity.stage \in InALobby
  PROVE  Goes(w, [w EXCEPT !.entity.waits = x])
<1> DEFINE e == [w.entity EXCEPT !.waits = x]
           v == [w EXCEPT !.entity = e]
<1>1. /\ e \in Entity /\ e.stage = w.entity.stage /\ e.id = w.entity.id /\ e.pin = w.entity.pin
      /\ e.closing = w.entity.closing
  BY WorkFields DEF Entity, Entities
<1>2. [w EXCEPT !.entity.waits = x] = v
  OBVIOUS
<1> HIDE DEF e
<1>3. /\ v \in Works /\ v.entity = e /\ v.seats = w.seats /\ v.current = w.current /\ v.believes = w.believes
      /\ v.me = w.me /\ v.words = w.words /\ v.leaves = w.leaves
  BY <1>1 DEF Works
<1> HIDE DEF v
<1>4. (Whole(w) => Whole(v)) /\ (Good(w) => Good(v))
  BY <1>1, <1>3 DEF Good, Whole, Trusts, Hosts, IsClient
<1>5. Stays(w, v) /\ Turns(w, v)
  BY <1>1, <1>3, <1>4 DEF Stays, Turns, Hosts
<1>6. Goes(w, v)
  BY <1>1, <1>3, <1>4, <1>5 DEF Goes, Lasts, Keeps
<1> QED
  BY <1>2, <1>6

\* host_lost keeps what every function keeps.
LEMMA HostLostGoes ==
  ASSUME NEW w \in Works
  PROVE  Goes(w, HostLost(w))
<1>1. IsClient(w) => w.entity.stage # "none" /\ w.entity.stage \in InALobby
  BY DEF IsClient, InALobby
<1> QED
  BY <1>1, EndedGoes, Onward, SameLobby DEF HostLost

\* What Steam and the caches hold.
SeenOf == [members : SUBSET Peers, owner : {None} \cup Peers, closed : BOOLEAN]
SteamShape ==
  /\ bounds \in Instances
  /\ steam \in [Lobbies -> [members : SUBSET Peers, owner : {None} \cup Peers, closed : BOOLEAN]]
  /\ seen \in [Peers -> [Lobbies -> SeenOf]]

\* What a peer's cache answers.
LEMMA CacheIs ==
  ASSUME SteamShape, NEW p \in Peers, NEW l \in {None} \cup Lobbies
  PROVE  /\ lobby_members(p, l) \in SUBSET Peers
         /\ l # None => lobby_owner(p, l) \in {None} \cup Peers
<1>1. l # None => seen[p][l] \in SeenOf
  BY DEF SteamShape
<1> QED
  BY <1>1 DEF lobby_members, lobby_owner, SeenOf

\* A finite set can be listed.
LEMMA ListedOnce ==
  ASSUME NEW S, IsFiniteSet(S)
  PROVE  SetToSeq(S) \in [1..Cardinality(S) -> S] /\ Cardinality(S) \in Nat
<1>1. Cardinality(S) \in Nat /\ \E f : ExistsBijection(1..Cardinality(S), S)
  BY FS_NatBijection, FS_CardinalityType
<1>2. PICK f : f \in Bijection(1..Cardinality(S), S)
  BY <1>1 DEF ExistsBijection
<1>3. f \in [1..Cardinality(S) -> S] /\ IsInjective(f)
  BY <1>2 DEF Bijection, Injection, IsInjective
<1>4. \E g \in [1..Cardinality(S) -> S] : IsInjective(g)
  BY <1>3
<1> QED
  BY <1>1, <1>4 DEF SetToSeq

\* Whoever Steam hands an open lobby to may host it.
LEMMA PromotedGoes ==
  ASSUME SteamShape, NEW u \in Works, NEW w \in Works, IsClient(w), MayTake(w.me, w.entity.id), w.entity.id # None
  PROVE  Goes(w, Promoted(u, w))
<1> DEFINE others == {x \in lobby_members(w.me, u.entity.id) \ {u.entity.pin, w.me} : SeatOf(u, x) = {}}
           ordered == SetToSeq(others)
           new == [i \in DOMAIN ordered |-> NewSeat(ordered[i])]
           s == w.seats \o new
           e == [w.entity EXCEPT !.stage = "host", !.pin = None, !.waits = "no"]
           v == [w EXCEPT !.entity = e, !.believes = w.me, !.seats = s]
<1>1. Promoted(u, w) = v
  BY DEF Promoted
<1>2. s \in Seq(Seat)
  <2>1. others \in SUBSET Peers
    BY CacheIs, WorkFields, StageIs
  <2>2. IsFiniteSet(others)
    BY <2>1, PeersFinite, FS_Subset DEF SteamShape
  <2>3. ordered \in [1..Cardinality(others) -> others] /\ Cardinality(others) \in Nat
    <3> HIDE DEF others
    <3> QED BY <2>2, ListedOnce
  <2>4. \A i \in 1..Cardinality(others) : NewSeat(ordered[i]) \in Seat
    <3> HIDE DEF others, ordered
    <3> QED BY <2>1, <2>3 DEF NewSeat, Seat
  <2>5. new \in Seq(Seat)
    <3> HIDE DEF others, ordered
    <3> QED BY <2>3, <2>4
  <2> HIDE DEF new
  <2> QED
    BY <2>5, WorkFields
<1>3. /\ e \in Entity /\ e.stage = "host" /\ e.id = w.entity.id /\ e.waits = "no"
      /\ e.closing = w.entity.closing
  BY WorkFields DEF Entity, Entities, Stages
<1> HIDE DEF e, s
<1>4. /\ v \in Works /\ v.entity = e /\ v.current = w.current /\ v.believes = w.me
      /\ v.me = w.me /\ v.words = w.words /\ v.leaves = w.leaves
  BY <1>2, <1>3, WorkFields DEF Works
<1> HIDE DEF v
<1>5. Whole(v) /\ Hosts(v)
  BY <1>3, <1>4 DEF Whole, InALobby, Hosts
<1>6. Good(w) => Good(v)
  BY <1>3, <1>4, <1>5 DEF Good, Trusts
<1>7. w.entity.stage # "none" /\ ~Hosts(w)
  BY StageIs
<1>8. Stays(w, v) /\ Turns(w, v)
  BY <1>3, <1>4, <1>5, <1>7 DEF Stays, Turns, Open
<1> QED
  BY <1>1, <1>3, <1>4, <1>6, <1>8 DEF Goes, Lasts, Keeps

\* Following another owner pins it and believes in it.
LEMMA FollowingGoes ==
  ASSUME NEW w \in Works, NEW q \in Peers, IsClient(w)
  PROVE  Goes(w, Following(w, q))
<1> DEFINE x == IF w.entity.stage = "pending" THEN w.entity.waits ELSE "named"
           e == [w.entity EXCEPT !.pin = q, !.waits = x]
           v == [w EXCEPT !.entity = e, !.believes = q]
<1>1. Following(w, q) = v
  BY DEF Following
<1>2. /\ e \in Entity /\ e.stage = w.entity.stage /\ e.id = w.entity.id /\ e.pin = q
      /\ e.closing = w.entity.closing
  BY WorkFields DEF Entity, Entities
<1> HIDE DEF e
<1>3. /\ v \in Works /\ v.entity = e /\ v.seats = w.seats /\ v.current = w.current /\ v.believes = q
      /\ v.me = w.me /\ v.words = w.words /\ v.leaves = w.leaves
  BY <1>2 DEF Works
<1> HIDE DEF v
<1>4. (Whole(w) => Whole(v)) /\ (Good(w) => Good(v))
  BY <1>2, <1>3 DEF Good, Whole, Trusts, Hosts, IsClient, InALobby
<1>5. Stays(w, v) /\ Turns(w, v)
  BY <1>2, <1>3, <1>4 DEF Stays, Turns, Hosts
<1> QED
  BY <1>1, <1>2, <1>3, <1>4, <1>5 DEF Goes, Lasts, Keeps

\* follow_lobby_owner keeps what every function keeps: it takes over open lobbies
\* only, and what has gone since it looked stays gone.
LEMMA FollowedGoes ==
  ASSUME SteamShape, NEW u \in Works, NEW w \in Works, Stays(u, w), Hosts(u) => Hosts(w),
         IsClient(u) => IsClient(w) \/ w.entity.stage = "none"
  PROVE  Goes(w, follow_lobby_owner(u, w))
<1> DEFINE owner == IF u.entity.id = None THEN None ELSE lobby_owner(u.me, u.entity.id)
<1>1. owner \in {None} \cup Peers /\ w.me = u.me
  BY StageIs, WorkFields, CacheIs DEF Stays
<1>2. CASE owner_change(u) \in {"promote", "follow"} /\ lobby_is_closed(w.me, u.entity.id)
  BY <1>2, TearDownGoes DEF follow_lobby_owner
<1>3. CASE owner_change(u) \in {"promote", "follow"} /\ w.entity.stage = "none" /\ ~lobby_is_closed(w.me, u.entity.id)
  BY <1>3, Onward DEF follow_lobby_owner, Followed
<1>4. CASE owner_change(u) = "promote" /\ w.entity.stage # "none" /\ ~lobby_is_closed(w.me, u.entity.id)
  <2>1. IsClient(u) /\ u.entity.id # None /\ owner = u.me
    BY <1>4 DEF owner_change, Hosts, IsClient
  <2>2. IsClient(w) /\ w.entity.id = u.entity.id
    BY <1>4, <2>1 DEF Stays
  <2>3. MayTake(w.me, w.entity.id)
    BY <1>1, <1>4, <2>1, <2>2 DEF MayTake
  <2>4. follow_lobby_owner(u, w) = Promoted(u, w)
    BY <1>4 DEF follow_lobby_owner, Followed
  <2> QED
    BY <2>1, <2>2, <2>3, <2>4, PromotedGoes
<1>5. CASE owner_change(u) = "follow" /\ w.entity.stage # "none" /\ ~lobby_is_closed(w.me, u.entity.id)
  <2>1. IsClient(u) /\ u.entity.id # None /\ owner # None
    BY <1>5 DEF owner_change, Hosts, IsClient
  <2>2. IsClient(w)
    BY <1>5, <2>1
  <2>3. follow_lobby_owner(u, w) = Following(w, owner)
    BY <1>1, <1>5, <2>1 DEF follow_lobby_owner, Followed
  <2> QED
    BY <1>1, <2>1, <2>2, <2>3, FollowingGoes
<1>6. CASE owner_change(u) = "replaced"
  <2>1. Hosts(w) /\ w.entity.stage # "none"
    BY <1>6 DEF owner_change, Hosts, IsClient
  <2> QED
    BY <1>6, <2>1, EndedGoes DEF follow_lobby_owner, Followed
<1>7. CASE owner_change(u) \notin {"promote", "follow", "replaced"}
  BY <1>7, Onward DEF follow_lobby_owner, Followed
<1> QED
  BY <1>2, <1>3, <1>4, <1>5, <1>6, <1>7

\* leave_lobby leaves or ends whatever stands.
LEMMA LeaveLasts ==
  ASSUME NEW u \in Works, NEW w \in Works, NEW wanted \in BOOLEAN
  PROVE  Lasts(w, leave_lobby(u, w, wanted))
<1>1. u.entity.stage \in Stages
  BY StageIs
<1>2. CASE ~wanted \/ u.entity.stage = "none"
  BY <1>2, Onward DEF leave_lobby, Goes
<1>3. CASE wanted /\ u.entity.stage \in {"requested", "joining", "pending"}
  BY <1>3, EndedGoes DEF leave_lobby
<1>4. CASE wanted /\ u.entity.stage \in {"host", "client"}
  BY <1>4, EndedGoes DEF leave_lobby
<1> QED
  BY <1>1, <1>2, <1>3, <1>4 DEF Stages

------------------------------------------------------------------------------
\* What a frame hears

\* The stages before there is a lobby; and what a system may find to do.
Waiting == {"none", "requested", "joining"}
Orders == {"seat", "open", "end", "lose", "nothing"}

\* A host seats whoever it hears, and nobody else does anything yet.
LEMMA ReadGoes ==
  ASSUME SteamShape, NEW w \in Works, NEW n, n.from \in Peers
  PROVE  /\ Goes(w, read_messages(w, n)) /\ SeatsOnly(w, read_messages(w, n))
         /\ ~Hosts(w) => read_messages(w, n) = w
<1>1. CASE read_messages(w, n) = w
  BY <1>1, Onward, OnlySeats, WorkFields
<1>2. CASE Hosts(w) /\ read_messages(w, n) = ensure_pending(w, w, n.from)
  BY <1>2, EnsureIs, SeatsGo
<1> QED
  BY <1>1, <1>2 DEF read_messages

\* What is found to do is for a host to seat a peer, or for a client.
LEMMA OrderedIs ==
  ASSUME NEW w, NEW n
  PROVE  /\ Ordered(w, n).do \in Orders
         /\ Hosts(w) => Ordered(w, n).do \in {"seat", "nothing"}
         /\ w.entity.stage \in Waiting => Ordered(w, n) = NoOrder
<1> USE DEF Order
<1>1. NoOrder.do = "nothing"
  BY DEF NoOrder
<1>2. CASE Hosts(w)
  <2>1. ~IsClient(w) /\ w.entity.stage \notin Waiting /\ w.entity.stage # "pending"
    BY <1>2 DEF Hosts, IsClient, Waiting
  <2> QED
    BY <1>1, <1>2, <2>1 DEF Ordered, Orders
<1>3. CASE ~Hosts(w)
  <2>1. w.entity.stage \in Waiting => ~IsClient(w) /\ w.entity.stage # "pending"
    BY DEF IsClient, Waiting
  <2> QED
    BY <1>1, <1>3, <2>1 DEF Ordered, Orders
<1> QED
  BY <1>2, <1>3

\* A host's word opens a pending lobby.
Opened(w) == [w EXCEPT !.entity.stage = "client"]
LEMMA OpenGoes ==
  ASSUME NEW w \in Works, w.entity.stage = "pending"
  PROVE  Goes(w, Opened(w)) /\ IsClient(Opened(w))
<1> DEFINE e == [w.entity EXCEPT !.stage = "client"]
           v == [w EXCEPT !.entity = e]
<1>1. Opened(w) = v
  BY DEF Opened
<1>2. e \in Entity /\ e.stage = "client" /\ e.id = w.entity.id /\ e.pin = w.entity.pin
       /\ e.waits = w.entity.waits /\ e.closing = w.entity.closing
  BY WorkFields DEF Entity, Entities, Stages
<1> HIDE DEF e
<1>3. /\ v \in Works /\ v.entity = e /\ v.seats = w.seats /\ v.current = w.current /\ v.believes = w.believes
      /\ v.me = w.me /\ v.words = w.words /\ v.leaves = w.leaves
  BY <1>2 DEF Works
<1> HIDE DEF v
<1>4. (Whole(w) => Whole(v)) /\ (Good(w) => Good(v)) /\ IsClient(v)
  BY <1>2, <1>3 DEF Good, Whole, Trusts, Hosts, IsClient, InALobby
<1>5. Stays(w, v) /\ Turns(w, v)
  BY <1>2, <1>3, <1>4 DEF Stays, Turns, Hosts, Open
<1> QED
  BY <1>1, <1>2, <1>3, <1>4, <1>5 DEF Goes, Lasts, Keeps

\* Whatever is carried out, and when, keeps what every function keeps.
LEMMA OrderGoes ==
  ASSUME NEW w \in Works, NEW o, o.do \in Orders
  PROVE  LET x == CarriedOut(w, o)
         IN /\ Goes(w, x)
            /\ IsClient(w) => IsClient(x) \/ x.entity.stage = "none"
            /\ Hosts(w) /\ o.do \in {"seat", "nothing"} => Hosts(x)
<1> DEFINE x == CarriedOut(w, o)
           Fine(v) == /\ Goes(w, v)
                      /\ IsClient(w) => IsClient(v) \/ v.entity.stage = "none"
                      /\ Hosts(w) /\ o.do \in {"seat", "nothing"} => Hosts(v)
<1> SUFFICES Fine(x)
  OBVIOUS
<1>1. Fine(w)
  BY Onward
<1>2. CASE o.do = "seat"
  <2>1. SeatsOnly(w, Seated(w, o.of))
    BY SeatedIs
  <2>2. Whole(w) => Hosts(w) \/ Seated(w, o.of) = w
    <3> SUFFICES ASSUME Whole(w), ~Hosts(w) PROVE Seated(w, o.of) = w
      OBVIOUS
    <3>1. SeatOf(w, o.of) = {}
      BY DEF Whole, Hosts, SeatOf
    <3> QED
      BY <3>1 DEF Seated
  <2>3. Hosts(w) \/ (Whole(w) => Whole(Seated(w, o.of)))
    BY <2>2
  <2>4. Goes(w, Seated(w, o.of)) /\ (Hosts(w) <=> Hosts(Seated(w, o.of)))
    BY <2>1, <2>3, SeatsGo
  <2>5. IsClient(w) => IsClient(Seated(w, o.of))
    BY <2>1 DEF SeatsOnly, IsClient
  <2>6. x = w \/ x = Seated(w, o.of)
    BY <1>2 DEF CarriedOut
  <2> HIDE DEF x
  <2> QED
    BY <1>1, <2>4, <2>5, <2>6
<1>3. CASE o.do = "open"
  <2>1. x = IF w.entity.stage = "pending" THEN Opened(w) ELSE w
    BY <1>3 DEF CarriedOut, Opened
  <2> HIDE DEF x
  <2> QED
    BY <1>1, <1>3, <2>1, OpenGoes
<1>4. CASE o.do = "end"
  <2>1. x = tear_down_client_lobby(w)
    BY <1>4 DEF CarriedOut
  <2>2. tear_down_client_lobby(w) \in {w, Ended(w)} /\ Ended(w).entity.stage = "none"
    BY EndedIs DEF tear_down_client_lobby, NoEntity
  <2> HIDE DEF x
  <2> QED
    BY <1>4, <2>1, <2>2, TearDownGoes
<1>5. CASE o.do = "lose"
  <2>1. x = HostLost(w)
    BY <1>5 DEF CarriedOut
  <2>2. HostLost(w) \in {w, Ended(w), [w EXCEPT !.entity.waits = "successor"]}
    BY DEF HostLost
  <2>3. Ended(w).entity.stage = "none"
    BY EndedIs DEF NoEntity
  <2>4. IsClient(w) => IsClient([w EXCEPT !.entity.waits = "successor"])
    <3>1. w.entity \in Entity
      BY WorkFields
    <3> QED
      BY <3>1 DEF Works, Entity, Entities, IsClient
  <2> HIDE DEF x
  <2> QED
    BY <1>5, <2>1, <2>2, <2>3, <2>4, HostLostGoes
<1>6. CASE o.do = "nothing"
  BY <1>1, <1>6 DEF CarriedOut
<1> QED
  BY <1>2, <1>3, <1>4, <1>5, <1>6 DEF Orders

------------------------------------------------------------------------------
\* A batch of callbacks

\* An answer names a lobby or fails.
Right(c) == IsAnswer(c) => (c.ok <=> c.id # None)
\* The answer that a stage waits for.
Wanted(stage) == IF stage = "requested" THEN "created" ELSE "enter"
Awaited(w, c) == w.entity.stage \in {"requested", "joining"} /\ c.kind = Wanted(w.entity.stage)

\* Callbacks that answer no request keep what every function keeps, and are
\* nothing to a peer that waits for an answer.
LEMMA OtherNews ==
  ASSUME NEW u \in Works, NEW w \in Works, NEW c \in Callback, ~IsAnswer(c), Hosts(u) => Hosts(w)
  PROVE  /\ Goes(w, Handle(u, w, c))
         /\ Hosts(u) => Hosts(Handle(u, w, c))
         /\ u.entity.stage \in Waiting => Handle(u, w, c) = w
<1> DEFINE h == Handle(u, w, c)
<1>1. c.kind \in {"left", "entered", "failed"} /\ c.who \in Peers
  BY DEF Callback, IsAnswer
<1>2. CASE Hosts(u)
  <2>1. u.entity.stage = "host" /\ ~IsClient(u)
    BY <1>2, StageIs DEF Hosts
  <2>2. h \in {w, Unseated(u, w, c.who), ensure_pending(u, w, c.who)}
    BY <1>1, <1>2, <2>1 DEF Handle, MemberLeft, MemberEntered, SessionFailed
  <2>3. SeatsOnly(w, Unseated(u, w, c.who)) /\ SeatsOnly(w, ensure_pending(u, w, c.who))
    BY <1>1, UnseatedIs, EnsureIs
  <2>4. Goes(w, h) /\ Hosts(h)
    <3> HIDE DEF h
    <3> QED BY <1>2, <2>2, <2>3, SeatsGo, Onward
  <2> QED
    BY <1>2, <2>1, <2>4 DEF Waiting
<1>3. CASE ~Hosts(u)
  <2>1. h \in {w, tear_down_client_lobby(w), HostLost(w)}
    BY <1>1, <1>3 DEF Handle, MemberLeft, MemberEntered, SessionFailed
  <2>2. Goes(w, h)
    <3> HIDE DEF h
    <3> QED BY <2>1, TearDownGoes, HostLostGoes, Onward
  <2>3. u.entity.stage \in Waiting => h = w
    BY <1>1, <1>3 DEF Handle, MemberLeft, MemberEntered, SessionFailed, Waiting, IsClient
  <2> QED
    BY <1>3, <2>2, <2>3
<1> QED
  BY <1>2, <1>3

\* The entity of a host.
LEMMA HostIs ==
  ASSUME NEW l \in Lobbies
  PROVE  LET e == [NoEntity EXCEPT !.stage = "host", !.id = l]
         IN e \in Entity /\ e.stage = "host" /\ e.id = l /\ e.waits = "no" /\ ~e.closing
BY DEF NoEntity, Entity, Entities, Stages, None

\* The entity of a peer that has entered.
LEMMA PendingIs ==
  ASSUME NEW l \in Lobbies, NEW q \in {None} \cup Peers
  PROVE  LET e == [NoEntity EXCEPT !.stage = "pending", !.id = l, !.pin = q]
         IN e \in Entity /\ e.stage = "pending" /\ e.id = l /\ e.pin = q /\ e.waits = "no" /\ ~e.closing
BY DEF NoEntity, Entity, Entities, Stages, None

\* What an answer comes to.
CreatedIn(u, w, c, h) ==
  /\ h \in Works /\ h.me = w.me
  /\ c.ok => /\ h.believes = w.me /\ h.current = c.id /\ h.words = w.words /\ h.leaves = w.leaves
             /\ h.seats = w.seats
             /\ \/ u.entity.stage = "requested" /\ w.entity.stage # "none"
                   /\ h.entity.stage = "host" /\ h.entity.id = c.id /\ h.entity.waits = "no"
                   /\ ~h.entity.closing
                \/ ~(u.entity.stage = "requested" /\ w.entity.stage # "none") /\ h.entity = w.entity
  /\ ~c.ok /\ u.entity.stage = "requested" => Gone(w, h) /\ h.words = w.words + 1
  /\ ~c.ok /\ u.entity.stage # "requested" =>
       h.entity = w.entity /\ h.seats = w.seats /\ h.leaves = w.leaves
\* LobbyEnter takes a join to a pending lobby, or to nothing.
EnteredIn(u, w, c, h) ==
  /\ h \in Works /\ h.me = w.me
  /\ u.entity.stage # "joining" => h = w
  /\ u.entity.stage = "joining" /\ c.ok =>
       /\ h.current = c.id /\ h.words = w.words /\ h.leaves = w.leaves /\ h.seats = w.seats
       /\ \/ w.entity.stage # "none" /\ h.entity.stage = "pending" /\ h.entity.id = c.id /\ h.entity.waits = "no"
             /\ h.entity.pin = h.believes /\ ~h.entity.closing
          \/ w.entity.stage = "none" /\ h.entity = w.entity
  /\ u.entity.stage = "joining" /\ ~c.ok => Gone(w, h) /\ h.words = w.words + 1

\* A word to the game is only that.
LEMMA OneWord ==
  ASSUME NEW w \in Works
  PROVE  LET h == [w EXCEPT !.words = @ + 1]
         IN h \in Works /\ h.me = w.me /\ h.entity = w.entity /\ h.seats = w.seats /\ h.leaves = w.leaves
BY DEF Works

\* What LobbyCreated makes of the world.
LEMMA CreatedIs ==
  ASSUME NEW u \in Works, NEW w \in Works, NEW c \in Callback, Right(c), IsAnswer(c)
  PROVE  CreatedIn(u, w, c, LobbyCreated(u, w, c))
<1> DEFINE h == LobbyCreated(u, w, c)
<1>1. CASE c.ok
  <2> DEFINE n == [NoEntity EXCEPT !.stage = "host", !.id = c.id]
             e == IF u.entity.stage = "requested" /\ w.entity.stage # "none" THEN n ELSE w.entity
             v == [w EXCEPT !.believes = w.me, !.current = c.id, !.entity = e]
  <2>1. h = v
    BY <1>1 DEF LobbyCreated
  <2>2. c.id \in Lobbies
    BY <1>1 DEF Right, Callback
  <2>3. n \in Entity /\ n.stage = "host" /\ n.id = c.id /\ n.waits = "no" /\ ~n.closing
    BY <2>2, HostIs
  <2> HIDE DEF n
  <2>4. e \in Entity
    BY <2>3, WorkFields
  <2>5. \/ u.entity.stage = "requested" /\ w.entity.stage # "none" /\ e = n
        \/ ~(u.entity.stage = "requested" /\ w.entity.stage # "none") /\ e = w.entity
    OBVIOUS
  <2> HIDE DEF e
  <2>6. /\ v \in Works /\ v.entity = e /\ v.me = w.me /\ v.believes = w.me /\ v.current = c.id
        /\ v.words = w.words /\ v.leaves = w.leaves /\ v.seats = w.seats
    BY <2>2, <2>4, WorkFields DEF Works
  <2> HIDE DEF v, h
  <2> QED
    BY <1>1, <2>1, <2>3, <2>5, <2>6 DEF h, CreatedIn
<1>2. CASE ~c.ok /\ u.entity.stage = "requested"
  <2>1. h = Ended(w)
    BY <1>2 DEF LobbyCreated, Ended
  <2> HIDE DEF h, CreatedIn
  <2>2. Gone(w, h) /\ h.words = w.words + 1
    BY <2>1, EndedGoes
  <2> QED
    BY <1>2, <2>2 DEF Gone, h, CreatedIn
<1>3. CASE ~c.ok /\ u.entity.stage # "requested"
  <2>1. h = [w EXCEPT !.words = @ + 1]
    BY <1>3 DEF LobbyCreated
  <2>2. h \in Works /\ h.me = w.me /\ h.entity = w.entity /\ h.seats = w.seats /\ h.leaves = w.leaves
    <3> HIDE DEF h, CreatedIn
    <3> QED BY <2>1, OneWord
  <2> HIDE DEF h, CreatedIn
  <2> QED
    BY <1>3, <2>2 DEF h, CreatedIn
<1> QED
  BY <1>1, <1>2, <1>3

\* What LobbyEnter makes of the world.
LEMMA EnterIs ==
  ASSUME SteamShape, NEW u \in Works, NEW w \in Works, NEW c \in Callback, Right(c), IsAnswer(c)
  PROVE  EnteredIn(u, w, c, LobbyEnter(u, w, c))
<1> DEFINE h == LobbyEnter(u, w, c)
<1>1. CASE u.entity.stage # "joining"
  BY <1>1 DEF LobbyEnter, EnteredIn
<1>2. CASE u.entity.stage = "joining" /\ ~c.ok
  <2>1. h = Ended(w)
    BY <1>2 DEF LobbyEnter, Ended
  <2> HIDE DEF h, EnteredIn
  <2>2. Gone(w, h) /\ h.words = w.words + 1
    BY <2>1, EndedGoes
  <2> QED
    BY <1>2, <2>2 DEF Gone, h, EnteredIn
<1>3. CASE u.entity.stage = "joining" /\ c.ok
  <2> DEFINE owner == lobby_owner(w.me, c.id)
             n == [NoEntity EXCEPT !.stage = "pending", !.id = c.id, !.pin = owner]
             e == IF w.entity.stage = "none" THEN w.entity ELSE n
             v == [w EXCEPT !.believes = owner, !.current = c.id, !.entity = e]
  <2>1. h = v
    BY <1>3 DEF LobbyEnter
  <2>2. c.id \in Lobbies /\ c.id # None
    BY <1>3 DEF Right, Callback
  <2>3. owner \in {None} \cup Peers
    BY <2>2, CacheIs, WorkFields
  <2> HIDE DEF owner
  <2>4. n \in Entity /\ n.stage = "pending" /\ n.id = c.id /\ n.pin = owner /\ n.waits = "no" /\ ~n.closing
    BY <2>2, <2>3, PendingIs, ZenonT(40)
  <2> HIDE DEF n
  <2>5. e \in Entity
    BY <2>4, WorkFields
  <2>6. \/ w.entity.stage # "none" /\ e = n
        \/ w.entity.stage = "none" /\ e = w.entity
    OBVIOUS
  <2> HIDE DEF e
  <2>7. /\ v \in Works /\ v.entity = e /\ v.me = w.me /\ v.believes = owner /\ v.current = c.id
        /\ v.words = w.words /\ v.leaves = w.leaves /\ v.seats = w.seats
    BY <2>2, <2>3, <2>5, WorkFields DEF Works
  <2> HIDE DEF v, h
  <2> QED
    BY <1>3, <2>1, <2>4, <2>6, <2>7 DEF h, EnteredIn
<1> QED
  BY <1>1, <1>2, <1>3

\* What reading so much may leave, whoever reads.
Reads(u, v) ==
  /\ v \in Works /\ v.me = u.me /\ Whole(v)
  /\ u.entity.id # None =>
       Stays(u, v) /\ (Hosts(u) => Hosts(v)) /\ \A l \in Lobbies : Keeps(u, l) => Keeps(v, l)
  /\ u.entity.stage \in Waiting => v.seats = <<>>

\* Whoever keeps its entity stays.
LEMMA NoAnswerGoes ==
  ASSUME NEW w \in Works, NEW h \in Works, h.me = w.me, h.entity = w.entity, h.seats = w.seats,
         h.leaves = w.leaves
  PROVE  /\ Stays(w, h) /\ (Whole(w) => Whole(h)) /\ (Hosts(w) => Hosts(h))
         /\ \A l \in Lobbies : Keeps(w, l) => Keeps(h, l)
<1>1. (Whole(w) => Whole(h)) /\ (Hosts(w) => Hosts(h))
  BY DEF Whole, Hosts
<1> QED
  BY <1>1 DEF Stays, Hosts, Keeps

\* Every callback that is read keeps the shape of the world, whatever it answers.
LEMMA HandleReads ==
  ASSUME SteamShape, NEW u \in Works, Whole(u), NEW v, Reads(u, v), NEW c \in Callback, Right(c)
  PROVE  Reads(u, Handle(u, v, c))
<1> DEFINE h == Handle(u, v, c)
<1>1. u.entity.id # None <=> u.entity.stage \in InALobby
  BY DEF Whole
<1>2. v \in Works /\ v.me = u.me /\ Whole(v)
  BY DEF Reads
<1>3. u.entity.stage \in Waiting <=> u.entity.id = None
  BY <1>1, StageIs DEF Waiting, InALobby, Stages
<1>4. Hosts(u) => u.entity.id # None
  BY <1>1 DEF Hosts, InALobby
<1>5. CASE ~IsAnswer(c)
  <2>1. Hosts(u) => Hosts(v)
    BY <1>4 DEF Reads
  <2>2. Goes(v, h) /\ (Hosts(u) => Hosts(h)) /\ (u.entity.stage \in Waiting => h = v)
    BY <1>2, <1>5, <2>1, OtherNews
  <2> HIDE DEF h
  <2>3. /\ Stays(v, h) /\ h \in Works /\ h.me = v.me /\ Whole(h)
        /\ \A l \in Lobbies : Keeps(v, l) => Keeps(h, l)
    BY <1>2, <2>2 DEF Goes, Lasts, Stays
  <2>4. u.entity.id # None => Stays(u, h) /\ \A l \in Lobbies : Keeps(u, l) => Keeps(h, l)
    BY <1>2, <2>3, Onward DEF Reads
  <2> QED
    BY <1>2, <2>2, <2>3, <2>4 DEF Reads, h
<1>6. CASE c.kind = "created"
  <2>1. IsAnswer(c) /\ CreatedIn(u, v, c, h)
    <3>1. h = LobbyCreated(u, v, c) /\ IsAnswer(c)
      BY <1>6 DEF Handle, IsAnswer
    <3> HIDE DEF h
    <3> QED
      BY <1>2, <3>1, CreatedIs
  <2> HIDE DEF h
  <2>2. h \in Works /\ h.me = v.me
    BY <1>2, <2>1 DEF CreatedIn
  <2>3. CASE u.entity.id # None
    <3>1. u.entity.stage # "requested"
      BY <1>3, <2>3 DEF Waiting
    <3>2. h.entity = v.entity /\ h.seats = v.seats /\ h.leaves = v.leaves
      BY <1>2, <2>1, <3>1 DEF CreatedIn
    <3>3. /\ Stays(v, h) /\ Whole(h) /\ (Hosts(v) => Hosts(h))
          /\ \A l \in Lobbies : Keeps(v, l) => Keeps(h, l)
      BY <1>2, <2>2, <3>2, NoAnswerGoes
    <3> QED
      BY <1>2, <1>3, <2>2, <2>3, <3>3, Onward DEF Reads, h
  <2>4. CASE u.entity.id = None
    <3>1. v.seats = <<>>
      BY <1>3, <2>4 DEF Reads
    <3>2. CASE h.entity = v.entity /\ h.seats = v.seats /\ h.leaves = v.leaves
      BY <1>2, <2>2, <2>4, <3>1, <3>2, NoAnswerGoes DEF Reads, h
    <3>3. CASE ~c.ok /\ u.entity.stage = "requested"
      <4>1. Gone(v, h)
        BY <1>2, <2>1, <3>3 DEF CreatedIn
      <4>2. Whole(h) /\ h.seats = <<>>
        BY <1>2, <4>1, GoneGoes DEF Gone
      <4> QED
        BY <1>2, <2>2, <2>4, <4>2 DEF Reads, h
    <3>4. CASE c.ok /\ u.entity.stage = "requested" /\ v.entity.stage # "none"
      <4>1. /\ h.entity.stage = "host" /\ h.entity.id = c.id /\ h.entity.waits = "no" /\ ~h.entity.closing
            /\ h.seats = v.seats
        BY <1>2, <2>1, <3>4 DEF CreatedIn
      <4>2. Whole(h)
        BY <2>1, <3>4, <4>1 DEF Whole, InALobby, Right
      <4> QED
        BY <1>2, <2>2, <2>4, <3>1, <4>1, <4>2 DEF Reads, h
    <3> QED
      BY <1>2, <2>1, <3>2, <3>3, <3>4 DEF CreatedIn
  <2> QED
    BY <2>3, <2>4
<1>7. CASE c.kind = "enter"
  <2>1. IsAnswer(c) /\ EnteredIn(u, v, c, h)
    <3>1. h = LobbyEnter(u, v, c) /\ IsAnswer(c)
      BY <1>7 DEF Handle, IsAnswer
    <3> HIDE DEF h
    <3> QED
      BY <1>2, <3>1, EnterIs
  <2> HIDE DEF h
  <2>2. h \in Works /\ h.me = v.me
    BY <1>2, <2>1 DEF EnteredIn
  <2>3. CASE u.entity.stage # "joining"
    <3>1. h = v
      BY <1>2, <2>1, <2>3 DEF EnteredIn
    <3> QED
      BY <3>1 DEF h
  <2>4. CASE u.entity.stage = "joining"
    <3>1. v.seats = <<>> /\ u.entity.id = None
      BY <1>3, <2>4 DEF Reads, Waiting
    <3>2. CASE ~c.ok
      <4>1. Gone(v, h)
        BY <1>2, <2>1, <2>4, <3>2 DEF EnteredIn
      <4>2. Whole(h) /\ h.seats = <<>>
        BY <1>2, <4>1, GoneGoes DEF Gone
      <4> QED
        BY <1>2, <2>2, <3>1, <4>2 DEF Reads, h
    <3>3. CASE c.ok
      <4>1. /\ h.seats = v.seats
            /\ \/ v.entity.stage # "none" /\ h.entity.stage = "pending" /\ h.entity.id = c.id /\ h.entity.waits = "no"
                  /\ ~h.entity.closing
               \/ v.entity.stage = "none" /\ h.entity = v.entity
        BY <1>2, <2>1, <2>4, <3>3 DEF EnteredIn
      <4>2. Whole(h)
        BY <1>2, <2>1, <3>1, <3>3, <4>1 DEF Whole, InALobby, Right
      <4> QED
        BY <1>2, <2>2, <3>1, <4>1, <4>2 DEF Reads, h
    <3> QED
      BY <3>2, <3>3
  <2> QED
    BY <2>3, <2>4
<1> QED
  BY <1>5, <1>6, <1>7 DEF IsAnswer

\* A stay in a lobby that is trusted hears no answer, and goes on.
LEMMA NoAnswerReads ==
  ASSUME NEW u \in Works, NEW v, Goes(u, v), Hosts(u) => Hosts(v), NEW c \in Callback, ~IsAnswer(c)
  PROVE  Goes(u, Handle(u, v, c)) /\ (Hosts(u) => Hosts(Handle(u, v, c)))
<1> DEFINE h == Handle(u, v, c)
<1>1. v \in Works
  BY DEF Goes, Lasts, Stays
<1>2. Goes(v, h) /\ (Hosts(u) => Hosts(h))
  BY <1>1, OtherNews
<1> HIDE DEF h
<1>3. Goes(u, h)
  <2>1. h \in Works
    BY <1>2 DEF Goes, Lasts, Stays
  <2> QED
    BY <1>1, <1>2, <2>1, Onward
<1> QED
  BY <1>2, <1>3 DEF h

\* The answer that is waited for, whatever it is.
LEMMA AnswerReads ==
  ASSUME SteamShape, NEW u \in Works, NEW c \in Callback, Right(c), Awaited(u, c), Good(u), u.leaves = None
  PROVE  LET h == Handle(u, u, c)
         IN /\ Stays(u, h) /\ Good(h) /\ Turns(u, h)
            /\ \A l \in Lobbies : c.id = l => Keeps(h, l)
<1> DEFINE h == Handle(u, u, c)
<1>1. Whole(u) /\ u.entity.stage \in {"requested", "joining"} /\ u.entity.id = None
  BY DEF Good, Whole, Awaited, InALobby
<1>2. u.entity.stage \in Waiting
  BY <1>1 DEF Waiting
<1>3. Reads(u, u)
  BY <1>1, <1>2 DEF Reads, Whole
<1>4. Reads(u, h)
  BY <1>1, <1>3, HandleReads
<1>5. \/ u.entity.stage = "requested" /\ CreatedIn(u, u, c, h)
      \/ u.entity.stage = "joining" /\ EnteredIn(u, u, c, h)
  <2>1. IsAnswer(c)
    BY DEF Awaited, Wanted, IsAnswer
  <2>2. CreatedIn(u, u, c, LobbyCreated(u, u, c)) /\ EnteredIn(u, u, c, LobbyEnter(u, u, c))
    BY <2>1, CreatedIs, EnterIs
  <2> QED
    BY <1>1, <2>2 DEF Awaited, Wanted, Handle
<1>6. h \in Works /\ h.me = u.me /\ Whole(h) /\ Stays(u, h)
  <2> HIDE DEF h
  <2> QED BY <1>1, <1>4 DEF Reads, Stays
<1> HIDE DEF h
<1>7. CASE ~c.ok
  <2>1. Gone(u, h) /\ h.words = u.words + 1
    BY <1>1, <1>5, <1>7 DEF CreatedIn, EnteredIn
  <2>2. Good(h) /\ h.entity.stage = "none"
    BY <2>1, GoneGoes
  <2>3. Turns(u, h)
    BY <1>1, <2>1, <2>2 DEF Turns
  <2>4. \A l \in Lobbies : c.id # l
    BY <1>7, PeersFinite DEF Right, Awaited, Wanted, IsAnswer, Lobbies, None
  <2> QED
    BY <1>6, <2>2, <2>3, <2>4 DEF h
<1>8. CASE c.ok
  <2>1. /\ h.current = c.id /\ h.words = u.words /\ h.leaves = u.leaves
        /\ h.entity.id = c.id
        /\ \/ h.entity.stage = "host" /\ h.believes = h.me
           \/ h.entity.stage = "pending" /\ h.believes = h.entity.pin
    BY <1>1, <1>5, <1>6, <1>8 DEF CreatedIn, EnteredIn
  <2>2. Good(h)
    BY <1>6, <2>1 DEF Good, Trusts, Hosts, IsClient
  <2>3. Turns(u, h)
    BY <1>1, <2>1 DEF Turns, Open
  <2> QED
    BY <1>6, <2>1, <2>2, <2>3 DEF h, Keeps
<1> QED
  BY <1>7, <1>8

\* What is true before any callback, and passes from each to the next, is true of all.
LEMMA ReactAlong ==
  ASSUME NEW u, NEW b, NEW S, b \in S, callbacks[u.me] \in Seq(Callback),
         \A v \in S, i \in 1..Len(callbacks[u.me]) : Handle(u, v, callbacks[u.me][i]) \in S,
         NEW J \in [0..Len(callbacks[u.me]) -> SUBSET S], b \in J[0],
         \A i \in 1..Len(callbacks[u.me]) : \A v \in J[i - 1] : Handle(u, v, callbacks[u.me][i]) \in J[i]
  PROVE  react_to_events(u, b) \in J[Len(callbacks[u.me])]
<1> DEFINE q == callbacks[u.me]
           k == Len(q)
           step == [i \in 1..k |-> [a \in S |-> Handle(u, a, q[i])]]
           so[i \in 0..Len(q)] == IF i = 0 THEN b ELSE Handle(u, so[i - 1], q[i])
<1>1. k \in Nat
  OBVIOUS
<1>2. step \in [1..k -> [S -> S]]
  OBVIOUS
<1>3. PICK f \in [0..k -> S] : f[0] = b /\ \A i \in 1..k : f[i] = step[i][f[i - 1]]
  <2> HIDE DEF step, k, so
  <2>1. \E f \in [0..k -> S] : Follows(f, b, k, step)
    BY <1>1, <1>2, Folds
  <2> QED BY <2>1 DEF Follows
<1>4. \A i \in 1..k : f[i] = Handle(u, f[i - 1], q[i])
  <2> SUFFICES ASSUME NEW i \in 1..k PROVE f[i] = Handle(u, f[i - 1], q[i])
    OBVIOUS
  <2>1. f[i - 1] \in S
    <3> HIDE DEF k, so, step
    <3> QED BY <1>1
  <2> QED
    BY <1>3, <2>1
<1> HIDE DEF step
<1>5. f = [i \in 0..k |-> IF i = 0 THEN b ELSE Handle(u, f[i - 1], q[i])]
  <2> HIDE DEF k
  <2>1. \A i \in 0..k : i # 0 => i \in 1..k
    BY <1>1
  <2> QED
    BY <1>3, <1>4, <2>1
<1>6. so = [i \in 0..k |-> IF i = 0 THEN b ELSE Handle(u, so[i - 1], q[i])]
  BY <1>5
<1>7. react_to_events(u, b) = so[k]
  BY DEF react_to_events
<1>8. \A i \in 1..k : \A v \in J[i - 1] : Handle(u, v, q[i]) \in J[i]
  OBVIOUS
<1>9. b \in J[0]
  OBVIOUS
<1> HIDE DEF so, k, q
<1>10. \A i \in 0..k : so[i] \in J[i]
  <2> DEFINE T == {i \in 0..k : so[i] \in J[i]}
  <2>1. 0 \in T
    BY <1>1, <1>6, <1>9
  <2>2. ASSUME NEW i \in 0..(k - 1), i \in T PROVE i + 1 \in T
    <3>1. i + 1 \in 1..k /\ i + 1 \in 0..k /\ i + 1 # 0 /\ (i + 1) - 1 = i
      BY <1>1
    <3>2. so[i + 1] = Handle(u, so[i], q[i + 1])
      BY <1>6, <3>1
    <3> QED
      BY <1>8, <2>2, <3>1, <3>2
  <2> HIDE DEF T
  <2>3. T \in SUBSET Nat
    BY <1>1 DEF T
  <2>4. 0..k \subseteq T
    BY <1>1, <2>1, <2>2, <2>3, UpTo
  <2> QED
    BY <2>4 DEF T
<1> QED
  BY <1>1, <1>7, <1>10 DEF k, q

\* What each callback leaves true.
LEMMA ReactWithin ==
  ASSUME NEW u, NEW b, NEW S, b \in S, callbacks[u.me] \in Seq(Callback),
         \A v \in S, i \in 1..Len(callbacks[u.me]) : Handle(u, v, callbacks[u.me][i]) \in S
  PROVE  react_to_events(u, b) \in S
<1> DEFINE k == Len(callbacks[u.me])
           J == [i \in 0..k |-> S]
<1>1. k \in Nat
  OBVIOUS
<1>2. J \in [0..k -> SUBSET S] /\ b \in J[0] /\ J[k] = S
  <2> HIDE DEF k
  <2> QED BY <1>1
<1>3. ASSUME NEW i \in 1..k PROVE J[i] = S /\ J[i - 1] = S
  <2> HIDE DEF k
  <2> QED BY <1>1
<1>4. \A i \in 1..k : \A v \in J[i - 1] : Handle(u, v, callbacks[u.me][i]) \in J[i]
  BY <1>3
<1> HIDE DEF J
<1>5. react_to_events(u, b) \in J[k]
  BY <1>2, <1>4, ReactAlong
<1> QED
  BY <1>2, <1>5

\* Callbacks that come to nothing but one, and that to what it would alone.
LEMMA ReactOnce ==
  ASSUME NEW u, NEW b, NEW S, b \in S, callbacks[u.me] \in Seq(Callback),
         \A v \in S, i \in 1..Len(callbacks[u.me]) : Handle(u, v, callbacks[u.me][i]) \in S,
         NEW k \in 1..Len(callbacks[u.me]),
         \A v \in S, i \in 1..Len(callbacks[u.me]) : i # k => Handle(u, v, callbacks[u.me][i]) = v
  PROVE  react_to_events(u, b) = Handle(u, b, callbacks[u.me][k])
<1> DEFINE n == Len(callbacks[u.me])
           h == Handle(u, b, callbacks[u.me][k])
           J == [i \in 0..n |-> {IF i < k THEN b ELSE h}]
<1>1. n \in Nat /\ h \in S /\ k \in 1..n
  OBVIOUS
<1>2. J \in [0..n -> SUBSET S] /\ b \in J[0] /\ J[n] = {h}
  <2> HIDE DEF n, h
  <2> QED BY <1>1
<1>3. ASSUME NEW i \in 1..n, NEW v \in J[i - 1] PROVE Handle(u, v, callbacks[u.me][i]) \in J[i]
  <2>1. J[i - 1] = {IF i - 1 < k THEN b ELSE h} /\ J[i] = {IF i < k THEN b ELSE h}
    <3> HIDE DEF n, h
    <3> QED BY <1>1
  <2> HIDE DEF J
  <2>2. CASE i = k
    <3>1. v = b /\ J[i] = {h}
      <4> HIDE DEF n, h
      <4> QED BY <1>1, <1>3, <2>1, <2>2
    <3> QED
      BY <2>2, <3>1
  <2>3. CASE i # k
    <3>1. v \in S
      <4> HIDE DEF n, h
      <4> QED BY <1>1, <1>3, <2>1
    <3>2. v \in J[i]
      <4> HIDE DEF n, h
      <4> QED BY <1>1, <1>3, <2>1, <2>3
    <3> QED
      BY <2>3, <3>1, <3>2
  <2> QED
    BY <2>2, <2>3
<1> HIDE DEF J
<1>4. react_to_events(u, b) \in J[n]
  <2> HIDE DEF h
  <2> QED BY <1>2, <1>3, ReactAlong
<1> QED
  BY <1>2, <1>4

\* What a peer has to read.
Calls(p) == callbacks[p] \in Seq(Callback) /\ \A i \in DOMAIN callbacks[p] : Right(callbacks[p][i])
\* One request is under way at most, and is answered while its entity waits for it.
Awaits(stage, a, q) ==
  /\ Len(a) <= 1
  /\ a # <<>> => stage = IF a[1].kind = "create" THEN "requested" ELSE "joining"
  /\ \A i \in DOMAIN q : IsAnswer(q[i]) =>
       /\ a = <<>> /\ stage \in {"requested", "joining"}
       /\ \E k \in DOMAIN q : q[k].kind = Wanted(stage) /\ q[k].id = q[i].id
       /\ stage = "joining" => q[i].kind = "enter"
       /\ \A j \in DOMAIN q : q[j].kind = q[i].kind => i = j

\* An answer that names the lobby is about to be read.
Answered(p, l) == \E i \in DOMAIN callbacks[p] : IsAnswer(callbacks[p][i]) /\ callbacks[p][i].id = l
\* What a frame that is trusted comes to.
Brings(u, w) ==
  /\ Stays(u, w) /\ Good(w)
  /\ \A l \in Lobbies : u.entity.id = l \/ Answered(u.me, l) => Keeps(w, l)
Comes(u, w) == Brings(u, w) /\ Turns(u, w)

\* A batch keeps the shape of the world, whatever is in it.
LEMMA ReactAny ==
  ASSUME SteamShape, NEW u \in Works, Whole(u), NEW b \in Works, Reads(u, b), Calls(u.me)
  PROVE  Reads(u, react_to_events(u, b))
<1> DEFINE S == {v \in Works : Reads(u, v)}
<1>1. b \in S
  OBVIOUS
<1>2. callbacks[u.me] \in Seq(Callback) /\ \A i \in 1..Len(callbacks[u.me]) : Right(callbacks[u.me][i])
  BY DEF Calls
<1>3. \A v \in S, i \in 1..Len(callbacks[u.me]) : Handle(u, v, callbacks[u.me][i]) \in S
  <2> SUFFICES ASSUME NEW v \in S, NEW i \in 1..Len(callbacks[u.me])
               PROVE  Handle(u, v, callbacks[u.me][i]) \in S
    OBVIOUS
  <2> DEFINE h == Handle(u, v, callbacks[u.me][i])
  <2>1. callbacks[u.me][i] \in Callback /\ Right(callbacks[u.me][i])
    BY <1>2
  <2>2. Reads(u, h)
    BY <2>1, HandleReads
  <2> HIDE DEF h
  <2>3. h \in S
    BY <2>2 DEF Reads
  <2> QED
    BY <2>3 DEF h
<1> HIDE DEF S
<1>4. react_to_events(u, b) \in S
  BY <1>1, <1>2, <1>3, ReactWithin
<1> QED
  BY <1>4 DEF S

\* A batch with the answer that is waited for, or with none, keeps the trust.
LEMMA ReactTrusted ==
  ASSUME SteamShape, NEW u \in Works, Good(u), u.leaves = None, Calls(u.me),
         NEW a, Awaits(u.entity.stage, a, callbacks[u.me]),
         NEW b \in Works, Goes(u, b), Hosts(u) => Hosts(b), u.entity.stage \in Waiting => b = u
  PROVE  Comes(u, react_to_events(u, b))
<1> DEFINE q == callbacks[u.me]
           w == react_to_events(u, b)
<1>1. Whole(u)
  BY DEF Good
<1>2. q \in Seq(Callback) /\ \A i \in 1..Len(q) : q[i] \in Callback /\ Right(q[i])
  BY DEF Calls
<1>3. DOMAIN q = 1..Len(q) /\ Len(q) \in Nat
  BY <1>2
<1>4. CASE \E i \in DOMAIN q : IsAnswer(q[i])
  <2>1. PICK n \in DOMAIN q : IsAnswer(q[n])
    BY <1>4
  <2>2. u.entity.stage \in {"requested", "joining"}
    BY <2>1 DEF Awaits
  <2>3. PICK k \in DOMAIN q : q[k].kind = Wanted(u.entity.stage) /\ q[k].id = q[n].id
    BY <2>1 DEF Awaits
  <2>4. IsAnswer(q[k]) /\ Awaited(u, q[k])
    BY <2>2, <2>3 DEF IsAnswer, Wanted, Awaited
  <2>5. ASSUME NEW v \in Works, NEW i \in 1..Len(q), i # k PROVE Handle(u, v, q[i]) = v
    <3>1. CASE ~IsAnswer(q[i])
      BY <1>2, <2>2, <3>1, OtherNews DEF Waiting, Hosts
    <3>2. CASE IsAnswer(q[i])
      <4>1. q[i].kind # q[k].kind /\ (u.entity.stage = "joining" => q[i].kind = "enter")
        BY <1>3, <2>4, <2>5, <3>2 DEF Awaits
      <4>2. u.entity.stage = "requested" /\ q[i].kind = "enter"
        BY <2>2, <2>3, <3>2, <4>1 DEF Wanted, IsAnswer
      <4> QED
        BY <4>2 DEF Handle, LobbyEnter
    <3> QED
      BY <3>1, <3>2
  <2> DEFINE S == {v \in Works : Reads(u, v)}
  <2>6. u \in S /\ b = u
    BY <1>1, <2>2, Onward, StageIs DEF Reads, Whole, Waiting
  <2>7. ASSUME NEW v \in S, NEW i \in 1..Len(q) PROVE Handle(u, v, q[i]) \in S
    <3> DEFINE h == Handle(u, v, q[i])
    <3>1. Reads(u, h)
      BY <1>1, <1>2, HandleReads
    <3> HIDE DEF h
    <3>2. h \in S
      BY <3>1 DEF Reads
    <3> QED
      BY <3>2 DEF h
  <2>8. w = Handle(u, u, q[k])
    <3>1. \A v \in S, i \in 1..Len(q) : i # k => Handle(u, v, q[i]) = v
      BY <2>5
    <3>2. k \in 1..Len(q)
      BY <1>3
    <3> HIDE DEF S
    <3> QED
      BY <1>2, <2>6, <2>7, <3>1, <3>2, ReactOnce
  <2>9. Stays(u, w) /\ Good(w) /\ Turns(u, w) /\ \A l \in Lobbies : q[k].id = l => Keeps(w, l)
    <3>1. q[k] \in Callback /\ Right(q[k])
      BY <1>2, <1>3
    <3> QED
      BY <2>4, <2>8, <3>1, AnswerReads
  <2>10. \A l \in Lobbies : Answered(u.me, l) => q[k].id = l
    <3> SUFFICES ASSUME NEW l \in Lobbies, NEW i \in DOMAIN q, IsAnswer(q[i]), q[i].id = l
                 PROVE  q[k].id = l
      BY DEF Answered
    <3>1. PICK j \in DOMAIN q : q[j].kind = Wanted(u.entity.stage) /\ q[j].id = q[i].id
      BY DEF Awaits
    <3>2. j = k
      BY <2>3, <2>4, <3>1 DEF Awaits
    <3> QED
      BY <3>1, <3>2
  <2>11. u.entity.id = None /\ \A l \in Lobbies : l # None
    BY <1>1, <2>2, PeersFinite DEF Whole, InALobby, Lobbies, None, SteamShape
  <2> HIDE DEF w
  <2> QED
    BY <2>9, <2>10, <2>11 DEF Comes, Brings, w
<1>5. CASE ~\E i \in DOMAIN q : IsAnswer(q[i])
  <2> DEFINE S == {v \in Works : Goes(u, v) /\ (Hosts(u) => Hosts(v))}
  <2>1. b \in S
    OBVIOUS
  <2>2. ASSUME NEW v \in S, NEW i \in 1..Len(q) PROVE Handle(u, v, q[i]) \in S
    <3> DEFINE h == Handle(u, v, q[i])
    <3>1. q[i] \in Callback /\ ~IsAnswer(q[i])
      BY <1>2, <1>3, <1>5
    <3>2. Goes(u, h) /\ (Hosts(u) => Hosts(h))
      BY <3>1, NoAnswerReads
    <3> HIDE DEF h
    <3>3. h \in S
      BY <3>2 DEF Goes, Lasts, Stays
    <3> QED
      BY <3>3 DEF h
  <2>3. w \in S
    <3> HIDE DEF S
    <3> QED BY <1>2, <2>1, <2>2, ReactWithin
  <2> HIDE DEF w
  <2>4. Goes(u, w)
    BY <2>3
  <2>5. \A l \in Lobbies : ~Answered(u.me, l) /\ (u.entity.id = l => Keeps(u, l))
    BY <1>5 DEF Answered, Keeps
  <2> QED
    BY <2>4, <2>5 DEF Goes, Lasts, Comes, Brings, w
<1> QED
  BY <1>4, <1>5

\* What comes of a batch, the systems after it keep.
LEMMA ComesOn ==
  ASSUME NEW u \in Works, NEW v \in Works, NEW w \in Works
  PROVE  /\ Brings(u, v) /\ Lasts(v, w) => Brings(u, w)
         /\ Comes(u, v) /\ Goes(v, w) => Comes(u, w)
<1>1. Brings(u, v) /\ Lasts(v, w) => Brings(u, w)
  BY Onward DEF Brings, Lasts
<1>2. Turns(u, v) /\ Turns(v, w) => Turns(u, w)
  BY StageIs DEF Turns, Open
<1> QED
  BY <1>1, <1>2 DEF Comes, Goes

------------------------------------------------------------------------------
\* The systems of Update, one after the other

\* An order that was found in w.
Apt(w, o) ==
  /\ o.do \in Orders
  /\ Hosts(w) => o.do \in {"seat", "nothing"}
  /\ w.entity.stage \in Waiting => o = NoOrder
\* A stretch of the frame: a system, and the order carried out before it or behind.
AfterReact(w, o, first) == Behind(o, first, react_to_events(w, Before(o, first, w)))
AfterFollow(w, o, first) == Behind(o, first, follow_lobby_owner(w, Before(o, first, w)))
AfterLeave(w, o, first, b) == Behind(o, first, leave_lobby(w, Before(o, first, w), b))
\* A frame says of a session that is over that it is, twice.
Twice(u, w) == u.entity.stage # "none" /\ w.entity.stage = "none" /\ w.words = u.words + 2

\* A frame is these stretches, with an order that was found in one of them.
LEMMA FramedIs ==
  ASSUME NEW p, NEW n, NEW b, NEW at, NEW first
  PROVE  LET w == read_messages(Working(p), n)
         IN \E o0, o1, o2 :
              LET w1 == AfterReact(w, o0, first)
                  w2 == AfterFollow(w1, o1, first)
              IN /\ Apt(w, o0) /\ Apt(w1, o1) /\ Apt(w2, o2)
                 /\ Framed(p, n, b, at, first) = AfterLeave(w2, o2, first, b)
<1> DEFINE heard == IF Admits(Working(p), n) THEN n ELSE Packet("nothing", p, p)
           OrderAt(i, x) == IF i = at THEN Ordered(x, heard) ELSE NoOrder
           w == read_messages(Working(p), n)
           w1 == AfterReact(w, OrderAt(0, w), first)
           w2 == AfterFollow(w1, OrderAt(1, w1), first)
<1>1. Framed(p, n, b, at, first) = AfterLeave(w2, OrderAt(2, w2), first, b)
  BY DEF Framed, AfterReact, AfterFollow, AfterLeave
<1>2. \A x, i : Apt(x, OrderAt(i, x))
  <2> HIDE DEF heard
  <2>1. NoOrder.do = "nothing"
    BY DEF NoOrder, Order
  <2>2. \A x : Apt(x, Ordered(x, heard)) /\ Apt(x, NoOrder)
    BY <2>1, OrderedIs DEF Apt, Orders
  <2> QED
    BY <2>2
<1> HIDE DEF OrderAt
<1> QED
  BY <1>1, <1>2

\* An order carried out before what it was found in is changed.
LEMMA BeforeIs ==
  ASSUME NEW w \in Works, NEW o, Apt(w, o), NEW first
  PROVE  LET v == Before(o, first, w)
         IN /\ v \in Works /\ v.me = w.me /\ Goes(w, v)
            /\ Hosts(w) => Hosts(v)
            /\ IsClient(w) => IsClient(v) \/ v.entity.stage = "none"
            /\ w.entity.stage \in Waiting => v = w
<1> DEFINE c == CarriedOut(w, o)
<1>1. /\ Goes(w, c) /\ (IsClient(w) => IsClient(c) \/ c.entity.stage = "none")
      /\ Hosts(w) => Hosts(c)
  BY OrderGoes DEF Apt
<1>2. w.entity.stage \in Waiting => c = w
  BY DEF Apt, CarriedOut, NoOrder, Order
<1> HIDE DEF c
<1>3. c \in Works /\ c.me = w.me
  BY <1>1 DEF Goes, Lasts, Stays
<1>4. Before(o, first, w) = IF first THEN c ELSE w
  BY DEF Before, c
<1> QED
  BY <1>1, <1>2, <1>3, <1>4, Onward

\* An order carried out behind whatever was changed.
LEMMA BehindIs ==
  ASSUME NEW w \in Works, NEW o, o.do \in Orders, NEW first
  PROVE  LET v == Behind(o, first, w) IN v \in Works /\ v.me = w.me /\ Goes(w, v)
<1> DEFINE c == CarriedOut(w, o)
<1>1. Goes(w, c)
  BY OrderGoes
<1> HIDE DEF c
<1>2. c \in Works /\ c.me = w.me
  BY <1>1 DEF Goes, Lasts, Stays
<1>3. Behind(o, first, w) = IF first THEN w ELSE c
  BY DEF Behind, c
<1> QED
  BY <1>1, <1>2, <1>3, Onward

\* The first stretch of a peer that is trusted.
LEMMA AfterReactTrusted ==
  ASSUME SteamShape, NEW u \in Works, Good(u), u.leaves = None, Calls(u.me),
         NEW a, Awaits(u.entity.stage, a, callbacks[u.me]), NEW o, Apt(u, o), NEW first
  PROVE  Comes(u, AfterReact(u, o, first))
<1> DEFINE v == Before(o, first, u)
           r == react_to_events(u, v)
           w == Behind(o, first, r)
<1>1. v \in Works /\ Goes(u, v) /\ (Hosts(u) => Hosts(v)) /\ (u.entity.stage \in Waiting => v = u)
  BY BeforeIs
<1> HIDE DEF v
<1>2. Comes(u, r)
  BY <1>1, ReactTrusted
<1> HIDE DEF r
<1>3. r \in Works
  BY <1>2 DEF Comes, Brings, Stays
<1>4. w \in Works /\ Goes(r, w)
  BY <1>3, BehindIs DEF Apt
<1>5. AfterReact(u, o, first) = w
  BY DEF AfterReact, w, r, v
<1> HIDE DEF w
<1> QED
  BY <1>2, <1>3, <1>4, <1>5, ComesOn

\* An order carried out before a batch is as if it had been read.
LEMMA BeforeReads ==
  ASSUME NEW u \in Works, Whole(u), NEW o, Apt(u, o), NEW first
  PROVE  LET v == Before(o, first, u) IN v \in Works /\ Reads(u, v)
<1> DEFINE v == Before(o, first, u)
<1>1. v \in Works /\ Goes(u, v) /\ (Hosts(u) => Hosts(v)) /\ (u.entity.stage \in Waiting => v = u)
  BY BeforeIs
<1> HIDE DEF v
<1>2. u.entity.stage \in Waiting => v.seats = <<>>
  BY <1>1 DEF Whole, Waiting
<1>3. v.me = u.me /\ Whole(v)
  BY <1>1 DEF Goes, Lasts, Stays
<1>4. Reads(u, v)
  BY <1>1, <1>2, <1>3 DEF Reads, Goes, Lasts
<1> QED
  BY <1>1, <1>4 DEF v

\* The first stretch of any peer.
LEMMA AfterReactAny ==
  ASSUME SteamShape, NEW u \in Works, Whole(u), Calls(u.me), NEW o, Apt(u, o), NEW first
  PROVE  LET w == AfterReact(u, o, first)
         IN /\ w \in Works /\ w.me = u.me /\ Whole(w)
            /\ u.entity.id # None => Stays(u, w) /\ \A l \in Lobbies : Keeps(u, l) => Keeps(w, l)
<1> DEFINE v == Before(o, first, u)
           r == react_to_events(u, v)
           w == Behind(o, first, r)
<1>1. v \in Works /\ Reads(u, v)
  BY BeforeReads
<1> HIDE DEF v
<1>3. Reads(u, r)
  BY <1>1, ReactAny
<1> HIDE DEF r
<1>4. r \in Works /\ r.me = u.me /\ Whole(r)
  BY <1>3 DEF Reads
<1>5. w \in Works /\ Goes(r, w)
  BY <1>4, BehindIs DEF Apt
<1>6. AfterReact(u, o, first) = w
  BY DEF AfterReact, w, r, v
<1> HIDE DEF w
<1>7. w.me = u.me /\ Whole(w) /\ Stays(r, w) /\ \A l \in Lobbies : Keeps(r, l) => Keeps(w, l)
  BY <1>4, <1>5 DEF Goes, Lasts, Stays
<1>8. u.entity.id # None => Stays(u, w) /\ \A l \in Lobbies : Keeps(u, l) => Keeps(w, l)
  BY <1>3, <1>4, <1>5, <1>7, Onward DEF Reads
<1> QED
  BY <1>5, <1>6, <1>7, <1>8

\* The second stretch keeps what every function keeps.
LEMMA AfterFollowGoes ==
  ASSUME SteamShape, NEW u \in Works, NEW o, Apt(u, o), NEW first
  PROVE  LET w == AfterFollow(u, o, first) IN w \in Works /\ Goes(u, w)
<1> DEFINE v == Before(o, first, u)
           f == follow_lobby_owner(u, v)
           w == Behind(o, first, f)
<1>1. /\ v \in Works /\ v.me = u.me /\ Goes(u, v) /\ (Hosts(u) => Hosts(v))
      /\ IsClient(u) => IsClient(v) \/ v.entity.stage = "none"
  BY BeforeIs
<1> HIDE DEF v
<1>2. Goes(v, f)
  BY <1>1, FollowedGoes DEF Goes, Lasts
<1> HIDE DEF f
<1>3. f \in Works
  BY <1>2 DEF Goes, Lasts, Stays
<1>4. w \in Works /\ Goes(f, w)
  BY <1>3, BehindIs DEF Apt
<1>5. AfterFollow(u, o, first) = w
  BY DEF AfterFollow, w, f, v
<1> HIDE DEF w
<1> QED
  BY <1>1, <1>2, <1>3, <1>4, <1>5, Onward

\* The last stretch, too, but a session may be said to be over by its order and
\* again by the game that leaves.
LEMMA AfterLeaveGoes ==
  ASSUME NEW u \in Works, NEW o, Apt(u, o), NEW first, NEW b \in BOOLEAN
  PROVE  LET w == AfterLeave(u, o, first, b)
         IN w \in Works /\ Lasts(u, w) /\ (Turns(u, w) \/ (b /\ ~Hosts(u) /\ Twice(u, w)))
<1> DEFINE v == Before(o, first, u)
           d == leave_lobby(u, v, b)
           w == Behind(o, first, d)
<1>1. v \in Works /\ Goes(u, v) /\ (Hosts(u) => Hosts(v)) /\ (u.entity.stage \in Waiting => v = u)
  BY BeforeIs
<1> HIDE DEF v
<1>2. Lasts(v, d) /\ d \in Works
  <2>1. Lasts(v, d)
    BY <1>1, LeaveLasts
  <2> HIDE DEF d
  <2> QED BY <2>1 DEF Lasts, Stays
<1>3. \/ (~b \/ u.entity.stage = "none") /\ d = v
      \/ b /\ u.entity.stage \in {"requested", "joining", "pending"} /\ d.entity.stage = "none" /\ d.words = v.words
      \/ b /\ u.entity.stage \in Open /\ d.entity.stage = "none" /\ d.words = v.words + 1
  <2>1. u.entity.stage \in Stages
    BY StageIs
  <2>2. /\ Despawn(v).entity.stage = "none" /\ Despawn(v).words = v.words
        /\ Ended(v).entity.stage = "none" /\ Ended(v).words = v.words + 1
    BY <1>1, DespawnIs, EndedIs DEF NoEntity
  <2> QED
    BY <2>1, <2>2 DEF leave_lobby, Stages, Open
<1> HIDE DEF d
<1>4. w \in Works /\ Goes(d, w)
  BY <1>2, BehindIs DEF Apt
<1>5. AfterLeave(u, o, first, b) = w
  BY DEF AfterLeave, w, d, v
<1> HIDE DEF w
<1>6. Lasts(u, w)
  BY <1>1, <1>2, <1>4, Onward DEF Goes
<1>7. Turns(u, w) \/ (b /\ ~Hosts(u) /\ Twice(u, w))
  <2>1. Turns(u, v) /\ Turns(d, w)
    BY <1>1, <1>4 DEF Goes
  <2>2. v.words \in Nat /\ u.words \in Nat /\ d.words \in Nat /\ w.words \in Nat
    BY <1>1, <1>2, <1>4, WorkFields
  <2>3. Hosts(v) => v.entity.stage # "none"
    BY <1>1, StageIs
  <2> QED
    BY <1>1, <1>3, <2>1, <2>2, <2>3 DEF Turns, Twice, Open
<1> QED
  BY <1>4, <1>5, <1>6, <1>7

\* A frame of a peer that is trusted.
LEMMA FrameTrusted ==
  ASSUME SteamShape, NEW p, NEW n, n.from \in Peers, NEW at, NEW first, NEW b \in BOOLEAN,
         Working(p) \in Works, Good(Working(p)), Working(p).leaves = None, Calls(Working(p).me),
         NEW a, Awaits(Working(p).entity.stage, a, callbacks[Working(p).me])
  PROVE  LET u == Working(p)
             w == Framed(p, n, b, at, first)
         IN Brings(u, w) /\ (Turns(u, w) \/ (b /\ ~Hosts(u) /\ Twice(u, w)))
<1> DEFINE u == Working(p)
           w0 == read_messages(u, n)
<1>1. Goes(u, w0) /\ SeatsOnly(u, w0)
  BY ReadGoes
<1>2. PICK o0, o1, o2 : LET w1 == AfterReact(w0, o0, first)
                            w2 == AfterFollow(w1, o1, first)
                        IN /\ Apt(w0, o0) /\ Apt(w1, o1) /\ Apt(w2, o2)
                           /\ Framed(p, n, b, at, first) = AfterLeave(w2, o2, first, b)
  BY FramedIs
<1> DEFINE w1 == AfterReact(w0, o0, first)
           w2 == AfterFollow(w1, o1, first)
           w == AfterLeave(w2, o2, first, b)
<1>3. Apt(w0, o0) /\ Apt(w1, o1) /\ Apt(w2, o2) /\ Framed(p, n, b, at, first) = w
  BY <1>2
<1> HIDE <1>2 DEF w0
<1>4. /\ w0 \in Works /\ w0.me = u.me /\ w0.entity = u.entity /\ w0.leaves = u.leaves /\ w0.words = u.words
      /\ Good(w0) /\ Stays(u, w0)
  BY <1>1 DEF SeatsOnly, Goes, Lasts
<1>5. Comes(w0, w1)
  BY <1>3, <1>4, AfterReactTrusted
<1> HIDE DEF w1
<1>6. w1 \in Works
  BY <1>5 DEF Comes, Brings, Stays
<1>7. w2 \in Works /\ Goes(w1, w2)
  BY <1>3, <1>6, AfterFollowGoes
<1> HIDE DEF w2
<1>8. w \in Works /\ Lasts(w2, w) /\ (Turns(w2, w) \/ (b /\ ~Hosts(w2) /\ Twice(w2, w)))
  BY <1>3, <1>7, AfterLeaveGoes
<1> HIDE DEF w
<1>9. Comes(w0, w2)
  BY <1>4, <1>5, <1>6, <1>7, ComesOn
<1>10. Brings(w0, w)
  BY <1>4, <1>7, <1>8, <1>9, ComesOn DEF Comes
<1>11. Turns(w0, w) \/ (b /\ ~Hosts(u) /\ Twice(w0, w))
  <2>1. Turns(w0, w2)
    BY <1>9 DEF Comes
  <2>2. /\ w0.words \in Nat /\ w2.words \in Nat /\ w.words \in Nat
        /\ w0.entity.stage \in Stages /\ w2.entity.stage \in Stages /\ w.entity.stage \in Stages
    BY <1>4, <1>7, <1>8, StageIs
  <2>3. CASE Turns(w2, w)
    BY <2>1, <2>2, <2>3 DEF Turns, Open
  <2>4. CASE b /\ ~Hosts(w2) /\ Twice(w2, w)
    <3>1. w0.entity.stage # "none" /\ w2.words = w0.words
      BY <2>1, <2>2, <2>4 DEF Turns, Twice
    <3>2. ~Hosts(u)
      BY <1>4, <1>9, <2>4 DEF Comes, Brings, Stays, Twice, Good, Whole, Hosts, InALobby
    <3> QED
      BY <2>2, <2>4, <3>1, <3>2 DEF Twice
  <2> QED
    BY <1>8, <2>3, <2>4
<1>12. Stays(u, w)
  BY <1>4, <1>8, <1>10, Onward DEF Brings
<1>13. Brings(u, w)
  BY <1>4, <1>10, <1>12 DEF Brings
<1>14. Turns(u, w) \/ (b /\ ~Hosts(u) /\ Twice(u, w))
  BY <1>4, <1>11 DEF Turns, Twice
<1> QED
  BY <1>3, <1>13, <1>14

\* A frame of any peer.
LEMMA FrameAny ==
  ASSUME SteamShape, NEW p, NEW n, n.from \in Peers, NEW at, NEW first, NEW b \in BOOLEAN,
         Working(p) \in Works, Whole(Working(p)), Calls(Working(p).me)
  PROVE  LET u == Working(p)
             w == Framed(p, n, b, at, first)
         IN /\ w \in Works /\ w.me = u.me /\ Whole(w)
            /\ u.entity.id # None => Stays(u, w) /\ \A l \in Lobbies : Keeps(u, l) => Keeps(w, l)
<1> DEFINE u == Working(p)
           w0 == read_messages(u, n)
<1>1. Goes(u, w0) /\ SeatsOnly(u, w0)
  BY ReadGoes
<1>2. PICK o0, o1, o2 : LET w1 == AfterReact(w0, o0, first)
                            w2 == AfterFollow(w1, o1, first)
                        IN /\ Apt(w0, o0) /\ Apt(w1, o1) /\ Apt(w2, o2)
                           /\ Framed(p, n, b, at, first) = AfterLeave(w2, o2, first, b)
  BY FramedIs
<1> DEFINE w1 == AfterReact(w0, o0, first)
           w2 == AfterFollow(w1, o1, first)
           w == AfterLeave(w2, o2, first, b)
<1>3. Apt(w0, o0) /\ Apt(w1, o1) /\ Apt(w2, o2) /\ Framed(p, n, b, at, first) = w
  BY <1>2
<1> HIDE <1>2 DEF w0
<1>4. w0 \in Works /\ w0.me = u.me /\ w0.entity = u.entity /\ Whole(w0) /\ Lasts(u, w0)
  BY <1>1 DEF SeatsOnly, Goes, Lasts, Stays
<1>5. /\ w1 \in Works /\ w1.me = u.me /\ Whole(w1)
      /\ u.entity.id # None => Stays(w0, w1) /\ \A l \in Lobbies : Keeps(w0, l) => Keeps(w1, l)
  BY <1>3, <1>4, AfterReactAny
<1> HIDE DEF w1
<1>6. w2 \in Works /\ Goes(w1, w2)
  BY <1>3, <1>5, AfterFollowGoes
<1> HIDE DEF w2
<1>7. w \in Works /\ Lasts(w2, w)
  BY <1>3, <1>6, AfterLeaveGoes
<1> HIDE DEF w
<1>8. Lasts(w1, w)
  BY <1>5, <1>6, <1>7, Onward DEF Goes
<1>9. w.me = u.me /\ Whole(w)
  BY <1>5, <1>8 DEF Lasts, Stays
<1>10. u.entity.id # None => Stays(u, w) /\ \A l \in Lobbies : Keeps(u, l) => Keeps(w, l)
  BY <1>4, <1>5, <1>7, <1>8, Onward DEF Lasts
<1> QED
  BY <1>3, <1>7, <1>9, <1>10

------------------------------------------------------------------------------
\* The inductive invariant

\* The shape of every state.
Counts == [requests : Nat, upsets : Nat, lobbies : 0..bounds.lobbies]
Shape ==
  /\ SteamShape
  /\ online \subseteq Peers /\ abandoned \subseteq Peers
  /\ asks \in [Peers -> Seq(Asked)] /\ callbacks \in [Peers -> Seq(Callback)]
  /\ world \in [Peers -> Worlds]
  /\ wire \subseteq Packets
  /\ told \in [Peers -> Nat]
  /\ used \in Counts

\* Where Steam lists a peer that is trusted.
Listed(p) ==
  \A l \in Lobbies : p \in steam[l].members =>
    p \in online /\ (world[p].entity.id = l \/ Answered(p, l))
\* One peer's part in the invariant.
Fits(p) ==
  /\ \A i \in DOMAIN callbacks[p] : Right(callbacks[p][i])
  /\ Whole(world[p])
  /\ p \notin abandoned =>
       /\ Trusts(world[p], p)
       /\ Awaits(world[p].entity.stage, asks[p], callbacks[p])
       /\ Listed(p)
\* The inductive invariant.
IInv == Shape /\ \A p \in Peers : Fits(p)

\* The game leaves in the frame in which its session ends otherwise.
Again(q, w) == Twice(Working(q), w) /\ \E n \in News(q) : Leaves(q, n)
\* What a step may make of a peer's stay.
Moves(q) ==
  \/ world'[q].entity.stage = world[q].entity.stage /\ told'[q] = 0
  \/ /\ world[q].entity.stage = "none" /\ world'[q].entity.stage \in {"requested", "joining"}
     /\ told'[q] = 0
  \/ \E w \in Works :
       /\ Whole(w) /\ world'[q] = Held(w) /\ told'[q] = w.words
       /\ world[q].entity.id # None => Stays(Working(q), w)
       /\ q \notin abandoned' => Turns(Working(q), w) \/ Again(q, w)

\* A run has the same peers and lobbies throughout.
LEMMA SameBounds ==
  ASSUME UNCHANGED bounds
  PROVE  /\ Peers' = Peers /\ Lobbies' = Lobbies /\ Worlds' = Worlds /\ Callback' = Callback
         /\ Asked' = Asked /\ Packets' = Packets /\ Works' = Works /\ Counts' = Counts /\ SeenOf' = SeenOf
<1>1. Peers' = Peers /\ Lobbies' = Lobbies
  BY DEF Peers, Lobbies
<1>2. Entity' = Entity /\ Seat' = Seat /\ Packets' = Packets
  BY <1>1 DEF Entity, Entities, Seat, Packets
<1> QED
  BY <1>1, <1>2 DEF Worlds, Callback, Asked, Works, Counts, SeenOf

------------------------------------------------------------------------------
\* Peers that only hear of a step

\* News that answers nothing leaves a request as it is.
LEMMA AwaitsMore ==
  ASSUME NEW stage, NEW a, NEW q \in Seq(Callback), NEW c \in Callback, ~IsAnswer(c), Awaits(stage, a, q)
  PROVE  Awaits(stage, a, Append(q, c))
<1> DEFINE r == Append(q, c)
<1>1. /\ DOMAIN q = 1..Len(q) /\ DOMAIN r = 1..(Len(q) + 1) /\ Len(q) \in Nat
      /\ \A i \in DOMAIN q : i \in DOMAIN r /\ r[i] = q[i]
      /\ r[Len(q) + 1] = c
  OBVIOUS
<1> HIDE DEF r
<1>2. \A i \in DOMAIN r : IsAnswer(r[i]) => i \in DOMAIN q /\ r[i] = q[i]
  BY <1>1
<1>3. ASSUME NEW i \in DOMAIN r, IsAnswer(r[i])
      PROVE  /\ a = <<>> /\ stage \in {"requested", "joining"}
             /\ \E k \in DOMAIN r : r[k].kind = Wanted(stage) /\ r[k].id = r[i].id
             /\ stage = "joining" => r[i].kind = "enter"
             /\ \A j \in DOMAIN r : r[j].kind = r[i].kind => i = j
  <2>1. i \in DOMAIN q /\ r[i] = q[i] /\ IsAnswer(q[i])
    BY <1>2, <1>3
  <2>2. /\ a = <<>> /\ stage \in {"requested", "joining"}
        /\ stage = "joining" => q[i].kind = "enter"
        /\ \A j \in DOMAIN q : q[j].kind = q[i].kind => i = j
    BY <2>1 DEF Awaits
  <2>3. PICK k \in DOMAIN q : q[k].kind = Wanted(stage) /\ q[k].id = q[i].id
    BY <2>1 DEF Awaits
  <2>4. \A j \in DOMAIN r : r[j].kind = r[i].kind => i = j
    <3> SUFFICES ASSUME NEW j \in DOMAIN r, r[j].kind = r[i].kind PROVE i = j
      OBVIOUS
    <3>1. IsAnswer(r[j])
      BY <1>3 DEF IsAnswer
    <3> QED
      BY <1>2, <2>1, <2>2, <3>1
  <2> QED
    BY <1>1, <2>1, <2>2, <2>3, <2>4
<1> QED
  BY <1>3 DEF Awaits, r

\* A request that is answered is no longer asked.
LEMMA AwaitsAnswered ==
  ASSUME NEW stage \in {"requested", "joining"}, NEW a, a # <<>>, NEW q \in Seq(Callback), NEW c \in Callback,
         c.kind = Wanted(stage), Awaits(stage, a, q)
  PROVE  Awaits(stage, <<>>, Append(q, c))
<1> DEFINE r == Append(q, c)
           n == Len(q) + 1
<1>1. /\ DOMAIN q = 1..Len(q) /\ DOMAIN r = 1..n /\ Len(q) \in Nat /\ n \in DOMAIN r
      /\ \A i \in DOMAIN q : r[i] = q[i]
      /\ \A i \in DOMAIN r : i # n => i \in DOMAIN q
      /\ r[n] = c
  OBVIOUS
<1> HIDE DEF r, n
<1>2. \A i \in DOMAIN q : ~IsAnswer(q[i])
  BY DEF Awaits
<1>3. \A i \in DOMAIN r : IsAnswer(r[i]) => i = n
  BY <1>1, <1>2
<1>4. IsAnswer(c) /\ (stage = "joining" => c.kind = "enter")
  BY DEF Wanted, IsAnswer
<1>5. ASSUME NEW i \in DOMAIN r, IsAnswer(r[i])
      PROVE  /\ \E k \in DOMAIN r : r[k].kind = Wanted(stage) /\ r[k].id = r[i].id
             /\ stage = "joining" => r[i].kind = "enter"
             /\ \A j \in DOMAIN r : r[j].kind = r[i].kind => i = j
  <2>1. i = n
    BY <1>3, <1>5
  <2>2. \A j \in DOMAIN r : r[j].kind = r[i].kind => i = j
    BY <1>1, <1>3, <1>4, <2>1 DEF IsAnswer
  <2> QED
    BY <1>1, <1>4, <2>1, <2>2
<1>6. Len(<<>>) <= 1
  OBVIOUS
<1> QED
  BY <1>5, <1>6 DEF Awaits, r

\* Its creator hears that a lobby is there, and that it has entered it.
LEMMA AwaitsCreated ==
  ASSUME NEW a, a # <<>>, NEW q \in Seq(Callback), NEW c \in Callback, NEW d \in Callback,
         c.kind = "created", d.kind = "enter", c.id = d.id, Awaits("requested", a, q)
  PROVE  Awaits("requested", <<>>, q \o <<c, d>>)
<1> DEFINE r == q \o <<c, d>>
           n == Len(q) + 1
           m == Len(q) + 2
<1>1. /\ DOMAIN q = 1..Len(q) /\ DOMAIN r = 1..m /\ Len(q) \in Nat /\ n \in DOMAIN r /\ m \in DOMAIN r
      /\ \A i \in DOMAIN q : r[i] = q[i]
      /\ \A i \in DOMAIN r : i # n /\ i # m => i \in DOMAIN q
      /\ r[n] = c /\ r[m] = d
  OBVIOUS
<1> HIDE DEF r, n, m
<1>2. \A i \in DOMAIN q : ~IsAnswer(q[i])
  BY DEF Awaits
<1>3. \A i \in DOMAIN r : IsAnswer(r[i]) => i = n \/ i = m
  BY <1>1, <1>2
<1>4. IsAnswer(c) /\ IsAnswer(d) /\ Wanted("requested") = "created"
  BY DEF Wanted, IsAnswer
<1>5. ASSUME NEW i \in DOMAIN r, IsAnswer(r[i])
      PROVE  /\ \E k \in DOMAIN r : r[k].kind = Wanted("requested") /\ r[k].id = r[i].id
             /\ \A j \in DOMAIN r : r[j].kind = r[i].kind => i = j
  <2>1. i = n \/ i = m
    BY <1>3, <1>5
  <2>2. \A j \in DOMAIN r : r[j].kind = r[i].kind => i = j
    BY <1>1, <1>3, <1>4, <2>1 DEF IsAnswer
  <2>3. r[n].kind = Wanted("requested") /\ r[n].id = r[i].id
    BY <1>1, <1>4, <2>1
  <2> QED
    BY <1>1, <2>2, <2>3
<1>6. Len(<<>>) <= 1
  OBVIOUS
<1> QED
  BY <1>5, <1>6 DEF Awaits, r

\* Whoever waits for nothing hears no answer, whatever its stage.
LEMMA NothingAwaited ==
  ASSUME NEW stage, stage \notin {"requested", "joining"}, NEW a, NEW q, Awaits(stage, a, q)
  PROVE  /\ a = <<>> /\ \A i \in DOMAIN q : ~IsAnswer(q[i])
         /\ \A s : Awaits(s, <<>>, q)
         /\ \A x : Awaits("requested", <<[kind |-> "create", id |-> x]>>, q)
         /\ \A x : Awaits("joining", <<[kind |-> "join", id |-> x]>>, q)
<1>1. a = <<>> /\ \A i \in DOMAIN q : ~IsAnswer(q[i])
  BY DEF Awaits
<1>2. Len(<<>>) <= 1 /\ \A x : Len(<<x>>) <= 1 /\ <<x>>[1] = x
  OBVIOUS
<1> QED
  BY <1>1, <1>2 DEF Awaits

\* A peer to whom nothing happens but some news of others.
Hears(q, calls) ==
  \/ callbacks'[q] = calls[q]
  \/ \E c \in Callback : ~IsAnswer(c) /\ callbacks'[q] = Append(calls[q], c)

\* News of others is added to what a peer has to read.
LEMMA HearsMore ==
  ASSUME NEW q, NEW calls, calls[q] \in Seq(Callback), \A i \in DOMAIN calls[q] : Right(calls[q][i]), Hears(q, calls)
  PROVE  /\ callbacks'[q] \in Seq(Callback)
         /\ \A i \in DOMAIN callbacks'[q] : Right(callbacks'[q][i])
         /\ \A i \in DOMAIN calls[q] : i \in DOMAIN callbacks'[q] /\ callbacks'[q][i] = calls[q][i]
         /\ \A stage, a : Awaits(stage, a, calls[q]) => Awaits(stage, a, callbacks'[q])
<1>1. CASE callbacks'[q] = calls[q]
  BY <1>1
<1>2. CASE \E c \in Callback : ~IsAnswer(c) /\ callbacks'[q] = Append(calls[q], c)
  <2>1. PICK c \in Callback : ~IsAnswer(c) /\ callbacks'[q] = Append(calls[q], c)
    BY <1>2
  <2>2. Right(c)
    BY <2>1 DEF Right
  <2> DEFINE s == calls[q]
  <2>3. s \in Seq(Callback)
    OBVIOUS
  <2>4. \A i \in DOMAIN s : Right(s[i])
    OBVIOUS
  <2>5. callbacks'[q] = Append(s, c)
    BY <2>1
  <2>6. \A stage, a : Awaits(stage, a, s) => Awaits(stage, a, Append(s, c))
    BY <2>1, AwaitsMore
  <2> HIDE DEF s
  <2>7. /\ \A i \in DOMAIN s : i \in DOMAIN Append(s, c) /\ Append(s, c)[i] = s[i]
        /\ \A i \in DOMAIN Append(s, c) : i \in DOMAIN s \/ Append(s, c)[i] = c
        /\ Append(s, c) \in Seq(Callback)
    BY <2>3
  <2>8. \A i \in DOMAIN Append(s, c) : Right(Append(s, c)[i])
    BY <2>2, <2>4, <2>7
  <2> QED
    BY <2>5, <2>6, <2>7, <2>8 DEF s
<1> QED
  BY <1>1, <1>2 DEF Hears

\* A peer that only hears of others, and is listed nowhere else, fits as before.
LEMMA Unmoved ==
  ASSUME Shape, UNCHANGED bounds, NEW q \in Peers, Fits(q),
         world'[q] = world[q], asks'[q] = asks[q], Hears(q, callbacks), abandoned \subseteq abandoned',
         \A l \in Lobbies : q \in steam'[l].members => q \in steam[l].members /\ (q \in online => q \in online')
  PROVE  Fits(q)'
<1>1. /\ callbacks[q] \in Seq(Callback) /\ Lobbies' = Lobbies
      /\ \A i \in DOMAIN callbacks[q] : Right(callbacks[q][i])
  BY SameBounds DEF Shape, Fits
<1>2. /\ \A i \in DOMAIN callbacks'[q] : Right(callbacks'[q][i])
      /\ \A i \in DOMAIN callbacks[q] : i \in DOMAIN callbacks'[q] /\ callbacks'[q][i] = callbacks[q][i]
      /\ \A stage, a : Awaits(stage, a, callbacks[q]) => Awaits(stage, a, callbacks'[q])
  BY <1>1, HearsMore
<1>3. Whole(world'[q])
  BY DEF Fits
<1>4. CASE q \in abandoned'
  BY <1>2, <1>3, <1>4 DEF Fits
<1>5. CASE q \notin abandoned'
  <2>1. q \notin abandoned
    BY <1>5
  <2>2. Trusts(world'[q], q) /\ Awaits(world'[q].entity.stage, asks'[q], callbacks'[q])
    BY <1>2, <2>1 DEF Fits
  <2>3. \A l \in Lobbies : Answered(q, l) => Answered(q, l)'
    BY <1>2 DEF Answered
  <2>4. ASSUME NEW l \in Lobbies, q \in steam'[l].members
        PROVE  q \in online' /\ (world'[q].entity.id = l \/ Answered(q, l)')
    BY <2>1, <2>3, <2>4 DEF Fits, Listed
  <2>5. Listed(q)'
    BY <1>1, <2>4 DEF Listed
  <2> QED
    BY <1>2, <1>3, <2>2, <2>5 DEF Fits
<1> QED
  BY <1>4, <1>5

\* No peer that is trusted is in two lobbies.
LEMMA OneLobby ==
  ASSUME Shape, NEW p \in Peers, Fits(p), p \notin abandoned,
         NEW l \in Lobbies, NEW m \in Lobbies, p \in steam[l].members, p \in steam[m].members
  PROVE  l = m
<1> DEFINE e == world[p].entity
<1>1. Awaits(e.stage, asks[p], callbacks[p]) /\ Whole(world[p])
  BY DEF Fits
<1>2. (e.id = l \/ Answered(p, l)) /\ (e.id = m \/ Answered(p, m))
  BY DEF Fits, Listed
<1>3. l # None /\ m # None
  BY PeersFinite DEF Lobbies, None, Shape, SteamShape
<1>4. ASSUME NEW x, Answered(p, x) PROVE e.id = None
  <2>1. e.stage \in {"requested", "joining"}
    BY <1>1, <1>4 DEF Answered, Awaits
  <2> QED
    BY <1>1, <2>1 DEF Whole, InALobby
<1>5. CASE e.id = l \/ e.id = m
  BY <1>2, <1>3, <1>4, <1>5
<1>6. CASE e.id # l /\ e.id # m
  <2>1. PICK i \in DOMAIN callbacks[p] : IsAnswer(callbacks[p][i]) /\ callbacks[p][i].id = l
    BY <1>2, <1>6 DEF Answered
  <2>2. PICK j \in DOMAIN callbacks[p] : IsAnswer(callbacks[p][j]) /\ callbacks[p][j].id = m
    BY <1>2, <1>6 DEF Answered
  <2>3. PICK k \in DOMAIN callbacks[p] : callbacks[p][k].kind = Wanted(e.stage) /\ callbacks[p][k].id = l
    BY <1>1, <2>1 DEF Awaits
  <2>4. PICK n \in DOMAIN callbacks[p] : callbacks[p][n].kind = Wanted(e.stage) /\ callbacks[p][n].id = m
    BY <1>1, <2>2 DEF Awaits
  <2>5. IsAnswer(callbacks[p][k])
    BY <2>3 DEF IsAnswer, Wanted
  <2>6. k = n
    BY <1>1, <2>3, <2>4, <2>5 DEF Awaits
  <2> QED
    BY <2>3, <2>4, <2>6
<1> QED
  BY <1>5, <1>6

\* Every cache learns who the members are.
LEMMA CachesHear ==
  ASSUME Shape, NEW l \in Lobbies, NEW ms \in SUBSET Peers
  PROVE  Members(l, ms) \in [Peers -> [Lobbies -> SeenOf]]
<1> DEFINE S == Others(None, l)
           Heard(q) == [seen[q] EXCEPT ![l].members = ms, ![l].closed = steam[l].closed]
<1>1. seen \in [Peers -> [Lobbies -> SeenOf]] /\ steam[l].closed \in BOOLEAN
  BY DEF Shape, SteamShape
<1>2. ASSUME NEW q \in Peers PROVE Heard(q) \in [Lobbies -> SeenOf]
  <2>1. seen[q][l] \in SeenOf
    BY <1>1
  <2> DEFINE x == [seen[q][l] EXCEPT !.members = ms, !.closed = steam[l].closed]
  <2>2. x \in SeenOf
    BY <1>1, <2>1 DEF SeenOf
  <2>3. Heard(q) = [seen[q] EXCEPT ![l] = x]
    BY <1>1
  <2> HIDE DEF x
  <2> QED
    BY <1>1, <2>2, <2>3
<1> HIDE DEF S
<1>3. \A q \in Peers : (IF q \in S THEN Heard(q) ELSE seen[q]) \in [Lobbies -> SeenOf]
  BY <1>1, <1>2
<1> QED
  BY <1>3 DEF Members, S

\* p is out of l, and those who are left hear of it.
LEMMA DepartsIs ==
  ASSUME Shape, UNCHANGED bounds, NEW p \in Peers, NEW l \in Lobbies, NEW mine \in SeenOf,
         NEW calls \in [Peers -> Seq(Callback)], Departs(p, l, mine, calls)
  PROVE  /\ SteamShape' /\ callbacks' \in [Peers -> Seq(Callback)]
         /\ \A q \in Peers : Hears(q, calls)
         /\ callbacks'[p] = calls[p]
         /\ \A m \in Lobbies : steam'[m].members = IF m = l THEN steam[m].members \ {p} ELSE steam[m].members
<1> DEFINE left == steam[l].members \ {p}
           c == [kind |-> "left", id |-> l, who |-> p, ok |-> TRUE]
<1> DEFINE Lobby == [members : SUBSET Peers, owner : {None} \cup Peers, closed : BOOLEAN]
<1>1. steam \in [Lobbies -> Lobby] /\ steam[l] \in Lobby /\ left \in SUBSET Peers
  BY DEF Shape, SteamShape
<1>2. PICK heir \in {None} \cup Peers :
        /\ steam' = [steam EXCEPT ![l].members = left, ![l].owner = heir]
        /\ seen' = [Members(l, left) EXCEPT ![p][l] = mine]
        /\ callbacks' = Tell(Others(p, l), calls, c)
  BY <1>1 DEF Departs
<1>3. c \in Callback /\ ~IsAnswer(c)
  BY DEF Callback, IsAnswer
<1>4. steam' \in [Lobbies -> Lobby] /\ \A m \in Lobbies : steam'[m].members = IF m = l THEN left ELSE steam[m].members
  <2> DEFINE x == [steam[l] EXCEPT !.members = left, !.owner = heir]
  <2>1. steam' = [steam EXCEPT ![l] = x]
    BY <1>1, <1>2
  <2>2. x \in Lobby /\ x.members = left
    BY <1>1
  <2> HIDE DEF x, Lobby, left
  <2> QED
    BY <1>1, <2>1, <2>2
<1>5. seen' \in [Peers -> [Lobbies -> SeenOf]]
  <2> DEFINE f == Members(l, left)
             x == [f[p] EXCEPT ![l] = mine]
  <2>1. f \in [Peers -> [Lobbies -> SeenOf]]
    BY <1>1, CachesHear
  <2>2. seen' = [f EXCEPT ![p] = x]
    BY <1>2
  <2> HIDE DEF f
  <2>3. x \in [Lobbies -> SeenOf]
    BY <2>1
  <2> HIDE DEF x
  <2> QED
    BY <2>1, <2>2, <2>3
<1>6. SteamShape'
  BY <1>4, <1>5, SameBounds DEF SteamShape, Shape, SeenOf
<1> HIDE DEF c
<1>7. \A q \in Peers : callbacks'[q] = IF q \in Others(p, l) THEN Append(calls[q], c) ELSE calls[q]
  BY <1>2 DEF Tell
<1>8. p \notin Others(p, l)
  BY DEF Others
<1>9. callbacks' \in [Peers -> Seq(Callback)]
  <2>1. \A q \in Peers : (IF q \in Others(p, l) THEN Append(calls[q], c) ELSE calls[q]) \in Seq(Callback)
    BY <1>3
  <2> QED
    BY <1>2, <2>1 DEF Tell
<1> QED
  BY <1>3, <1>4, <1>6, <1>7, <1>8, <1>9 DEF Hears

------------------------------------------------------------------------------
\* Steps of a peer

\* What is left of a step's work is what the app holds.
LEMMA HeldIs ==
  ASSUME NEW w \in Works
  PROVE  /\ Held(w) \in Worlds /\ Held(w).entity = w.entity /\ Held(w).seats = w.seats
         /\ Held(w).current = w.current /\ Held(w).believes = w.believes
         /\ Whole(Held(w)) <=> Whole(w)
         /\ \A p : Trusts(Held(w), p) <=> Trusts(w, p)
<1>1. /\ Held(w) \in Worlds /\ Held(w).entity = w.entity /\ Held(w).seats = w.seats
      /\ Held(w).current = w.current /\ Held(w).believes = w.believes
  BY DEF Works, Worlds, Held
<1> HIDE DEF Held
<1> QED
  BY <1>1 DEF Whole, Trusts, Hosts, IsClient

\* A peer about to take a step.
LEMMA Begins ==
  ASSUME Shape, NEW p \in Peers, Fits(p)
  PROVE  /\ Working(p) \in Works /\ Working(p).me = p /\ Working(p).words = 0 /\ Working(p).leaves = None
         /\ Working(p).entity = world[p].entity /\ Working(p).seats = world[p].seats
         /\ Working(p).sends = {}
         /\ Whole(Working(p)) /\ Calls(p)
         /\ p \notin abandoned => Good(Working(p)) /\ Awaits(Working(p).entity.stage, asks[p], callbacks[p])
         /\ Hosts(Working(p)) <=> Hosts(world[p])
         /\ IsClient(Working(p)) <=> IsClient(world[p])
<1>1. world[p] \in Worlds
  BY DEF Shape
<1> DEFINE w == Working(p)
<1>2. /\ w \in Works /\ w.entity = world[p].entity /\ w.seats = world[p].seats
      /\ w.current = world[p].current /\ w.believes = world[p].believes
      /\ w.me = p /\ w.words = 0 /\ w.leaves = None /\ w.sends = {}
  BY <1>1, WorkingIs
<1> HIDE DEF w
<1>3. Whole(w) /\ (p \notin abandoned => Good(w) /\ Awaits(w.entity.stage, asks[p], callbacks[p]))
  BY <1>2 DEF Fits, Whole, Good, Trusts, Hosts, IsClient
<1>4. Calls(p)
  BY DEF Calls, Fits, Shape
<1>5. (Hosts(w) <=> Hosts(world[p])) /\ (IsClient(w) <=> IsClient(world[p]))
  BY <1>2 DEF Hosts, IsClient
<1> QED
  BY <1>2, <1>3, <1>4, <1>5 DEF w

\* What p's step has come to.
LEMMA CommitIs ==
  ASSUME Shape, NEW p \in Peers, NEW w \in Works, NEW calls \in [Peers -> Seq(Callback)], Commit(p, w, calls)
  PROVE  /\ SteamShape' /\ callbacks' \in [Peers -> Seq(Callback)] /\ UNCHANGED <<online, bounds>>
         /\ world' \in [Peers -> Worlds] /\ world'[p] = Held(w)
         /\ \A q \in Peers : q # p => world'[q] = world[q] /\ told'[q] = 0
         /\ told' \in [Peers -> Nat] /\ told'[p] = w.words
         /\ \A q \in Peers : Hears(q, calls)
         /\ callbacks'[p] = calls[p]
         /\ \A l \in Lobbies : steam'[l].members \subseteq steam[l].members
         /\ \A l \in Lobbies : p \in steam'[l].members /\ p \in online => w.leaves # l
<1>1. /\ world' = [world EXCEPT ![p] = Held(w)]
      /\ told' = [q \in Peers |-> IF q = p THEN w.words ELSE 0]
      /\ UNCHANGED <<online, bounds>>
  BY DEF Commit
<1>2. Held(w) \in Worlds /\ w.words \in Nat /\ w.leaves \in {None} \cup Lobbies
  BY HeldIs, WorkFields
<1>3. /\ world' \in [Peers -> Worlds] /\ world'[p] = Held(w)
      /\ \A q \in Peers : q # p => world'[q] = world[q] /\ told'[q] = 0
      /\ told' \in [Peers -> Nat] /\ told'[p] = w.words
  BY <1>1, <1>2 DEF Shape
<1>4. CASE w.leaves = None \/ p \notin online \/ p \notin steam[w.leaves].members
  <2>1. steam' = steam /\ callbacks' = calls /\ seen' = seen
    BY <1>4 DEF Commit
  <2>2. SteamShape'
    BY <1>1, <2>1, SameBounds DEF Shape, SteamShape, SeenOf
  <2>3. \A l \in Lobbies : l # None
    BY PeersFinite DEF Lobbies, None, Shape, SteamShape
  <2> QED
    BY <1>1, <1>3, <1>4, <2>1, <2>2, <2>3 DEF Hears
<1>5. CASE ~(w.leaves = None \/ p \notin online \/ p \notin steam[w.leaves].members)
  <2>1. Departs(p, w.leaves, Nothing, calls) /\ w.leaves \in Lobbies
    BY <1>2, <1>5 DEF Commit
  <2>2. Nothing \in SeenOf
    BY DEF Nothing, SeenOf
  <2>3. /\ SteamShape' /\ callbacks' \in [Peers -> Seq(Callback)]
        /\ \A q \in Peers : Hears(q, calls)
        /\ callbacks'[p] = calls[p]
        /\ \A m \in Lobbies : steam'[m].members = IF m = w.leaves THEN steam[m].members \ {p} ELSE steam[m].members
    BY <1>1, <2>1, <2>2, DepartsIs, ZenonT(40)
  <2> QED
    BY <1>1, <1>3, <2>3
<1> QED
  BY <1>4, <1>5

\* What a peer's step has come to fits, if its work does, and every other peer
\* only hears of it.
LEMMA CommitKeeps ==
  ASSUME IInv, NEW p \in Peers, NEW w \in Works, NEW calls \in [Peers -> Seq(Callback)], Commit(p, w, calls),
         Whole(w), w.me = p, UNCHANGED asks, used' \in Counts, wire' \subseteq Packets,
         abandoned \subseteq abandoned', abandoned' \subseteq Peers,
         world[p].entity.id # None => Stays(Working(p), w),
         \A q \in Peers : q # p => calls[q] = callbacks[q],
         \A i \in DOMAIN calls[p] : Right(calls[p][i]),
         p \notin abandoned' =>
           /\ Good(w) /\ (Turns(Working(p), w) \/ Again(p, w))
           /\ Awaits(w.entity.stage, asks[p], calls[p])
           /\ \A l \in Lobbies : world[p].entity.id = l \/ Answered(p, l) =>
                Keeps(w, l) \/ (calls[p] = callbacks[p] /\ Answered(p, l))
  PROVE  IInv' /\ \A q \in Peers : Moves(q)
<1>1. /\ SteamShape' /\ callbacks' \in [Peers -> Seq(Callback)] /\ UNCHANGED <<online, bounds>>
      /\ world' \in [Peers -> Worlds] /\ world'[p] = Held(w)
      /\ \A q \in Peers : q # p => world'[q] = world[q] /\ told'[q] = 0
      /\ told' \in [Peers -> Nat] /\ told'[p] = w.words
      /\ \A q \in Peers : Hears(q, calls)
      /\ callbacks'[p] = calls[p]
      /\ \A l \in Lobbies : steam'[l].members \subseteq steam[l].members
      /\ \A l \in Lobbies : p \in steam'[l].members /\ p \in online => w.leaves # l
  BY CommitIs DEF IInv
<1>2. Shape'
  BY <1>1, SameBounds DEF Shape, IInv
<1>3. \A q \in Peers : Moves(q)
  BY <1>1 DEF Moves
<1>4. ASSUME NEW q \in Peers, q # p PROVE Fits(q)'
  <2>1. Hears(q, callbacks)
    BY <1>1, <1>4 DEF Hears
  <2> QED
    BY <1>1, <1>4, <2>1, Unmoved DEF IInv
<1>5. Fits(p)'
  <2>1. Whole(world'[p]) /\ \A i \in DOMAIN callbacks'[p] : Right(callbacks'[p][i])
    BY <1>1, HeldIs
  <2>2. ASSUME p \notin abandoned'
        PROVE  /\ Trusts(world'[p], p) /\ Awaits(world'[p].entity.stage, asks'[p], callbacks'[p])
               /\ Listed(p)'
    <3>1. Trusts(world'[p], p)
      BY <1>1, <2>2, HeldIs DEF Good
    <3>2. world'[p].entity = w.entity
      BY <1>1, HeldIs
    <3>3. Awaits(world'[p].entity.stage, asks'[p], callbacks'[p])
      BY <1>1, <2>2, <3>2
    <3>4. ASSUME NEW l \in Lobbies, p \in steam'[l].members
          PROVE  p \in online' /\ (world'[p].entity.id = l \/ Answered(p, l)')
      <4>1. p \in online /\ (world[p].entity.id = l \/ Answered(p, l))
        BY <1>1, <2>2, <3>4 DEF IInv, Fits, Listed
      <4>2. Keeps(w, l) \/ (calls[p] = callbacks[p] /\ Answered(p, l))
        BY <2>2, <4>1
      <4>3. CASE Keeps(w, l)
        BY <1>1, <3>2, <3>4, <4>1, <4>3 DEF Keeps
      <4>4. CASE calls[p] = callbacks[p] /\ Answered(p, l)
        BY <1>1, <4>1, <4>4 DEF Answered
      <4> QED
        BY <4>2, <4>3, <4>4
    <3>5. Listed(p)'
      BY <1>1, <3>4, SameBounds DEF Listed
    <3> QED
      BY <3>1, <3>3, <3>5
  <2> QED
    BY <2>1, <2>2 DEF Fits
<1>6. \A q \in Peers' : Fits(q)'
  BY <1>1, <1>4, <1>5, SameBounds
<1> QED
  BY <1>2, <1>3, <1>6 DEF IInv

\* Handshakes are packets between peers.
LEMMA HandshakesAre ==
  ASSUME Shape
  PROVE  Handshakes \subseteq Packets
<1> SUFFICES ASSUME NEW p \in Peers
             PROVE  send_client_handshakes(p) \subseteq Packets /\ send_host_handshakes(p) \subseteq Packets
  BY DEF Handshakes
<1>1. world[p] \in Worlds /\ world[p].entity.pin \in {None} \cup Peers /\ world[p].entity.id \in {None} \cup Lobbies
  BY DEF Shape, Worlds, Entity, Entities
<1>2. lobby_members(p, world[p].entity.id) \in SUBSET Peers
  BY <1>1, CacheIs DEF Shape
<1>3. \A kind \in {"ready", "hosts", "removed"}, q \in Peers : Packet(kind, p, q) \in Packets
  BY DEF Packet, Packets
<1>4. send_client_handshakes(p) \subseteq Packets
  BY <1>1, <1>3 DEF send_client_handshakes
<1>5. send_host_handshakes(p) \subseteq Packets
  BY <1>2, <1>3 DEF send_host_handshakes
<1> QED
  BY <1>4, <1>5

\* Whatever a frame reads is of a peer.
LEMMA NewsIs ==
  ASSUME Shape, NEW p \in Peers, NEW n \in News(p)
  PROVE  n.from \in Peers
<1>1. n \in Packets \/ \E word \in OwnWords : n = Packet(word, p, p)
  BY HandshakesAre DEF News, OwnWords, Shape
<1> QED
  BY <1>1 DEF Packets, Packet

\* Whoever waits for an answer and hears none in a frame waits on.
LEMMA FrameIdle ==
  ASSUME NEW p, NEW n, NEW at, NEW first, NEW b \in BOOLEAN, ~b, Working(p) \in Works, Whole(Working(p)), Calls(Working(p).me),
         Working(p).entity.stage \in Waiting,
         \A i \in DOMAIN callbacks[Working(p).me] : ~IsAnswer(callbacks[Working(p).me][i])
  PROVE  Framed(p, n, b, at, first) = Working(p)
<1> DEFINE u == Working(p)
<1>1. u.entity.id = None /\ ~Hosts(u)
  BY StageIs DEF Whole, Waiting, InALobby, Hosts
<1>2. read_messages(u, n) = u
  BY <1>1 DEF read_messages
<1>3. \A o : Apt(u, o) => Before(o, first, u) = u /\ Behind(o, first, u) = u
  <2>1. NoOrder.do = "nothing"
    BY DEF NoOrder, Order
  <2> HIDE DEF u
  <2>2. CarriedOut(u, NoOrder) = u
    BY <2>1 DEF CarriedOut
  <2>3. \A o : Apt(u, o) => o = NoOrder
    BY DEF Apt, u
  <2> QED
    BY <2>2, <2>3 DEF Before, Behind
<1>4. react_to_events(u, u) = u
  <2>1. callbacks[u.me] \in Seq(Callback)
    BY DEF Calls
  <2>2. ASSUME NEW i \in 1..Len(callbacks[u.me]) PROVE Handle(u, u, callbacks[u.me][i]) = u
    <3>1. callbacks[u.me][i] \in Callback /\ ~IsAnswer(callbacks[u.me][i])
      BY <2>1
    <3> HIDE DEF u
    <3> QED
      BY <3>1, OtherNews DEF u
  <2> HIDE DEF u
  <2> DEFINE S == {u}
  <2>3. \A v \in S, i \in 1..Len(callbacks[u.me]) : Handle(u, v, callbacks[u.me][i]) \in S
    BY <2>2
  <2>4. u \in S
    OBVIOUS
  <2> HIDE DEF S
  <2>5. react_to_events(u, u) \in S
    BY <2>1, <2>3, <2>4, ReactWithin
  <2> QED
    BY <2>5 DEF S
<1>5. follow_lobby_owner(u, u) = u
  BY <1>1 DEF follow_lobby_owner, Followed, owner_change
<1>6. leave_lobby(u, u, b) = u
  BY DEF leave_lobby
<1>7. PICK o0, o1, o2 : LET w0 == read_messages(u, n)
                            w1 == AfterReact(w0, o0, first)
                            w2 == AfterFollow(w1, o1, first)
                        IN /\ Apt(w0, o0) /\ Apt(w1, o1) /\ Apt(w2, o2)
                           /\ Framed(p, n, b, at, first) = AfterLeave(w2, o2, first, b)
  BY FramedIs
<1> DEFINE w0 == read_messages(u, n)
           w1 == AfterReact(w0, o0, first)
           w2 == AfterFollow(w1, o1, first)
           w == AfterLeave(w2, o2, first, b)
<1>8. Apt(w0, o0) /\ Apt(w1, o1) /\ Apt(w2, o2) /\ Framed(p, n, b, at, first) = w
  BY <1>7
<1>9. w0 = u
  BY <1>2
<1> HIDE <1>7 DEF u, w0
<1>10. w1 = u
  BY <1>3, <1>4, <1>8, <1>9 DEF AfterReact
<1> HIDE DEF w1
<1>11. w2 = u
  BY <1>3, <1>5, <1>8, <1>10 DEF AfterFollow
<1> HIDE DEF w2
<1>12. w = u
  BY <1>3, <1>6, <1>8, <1>11 DEF AfterLeave
<1> HIDE DEF w
<1> QED
  BY <1>8, <1>12 DEF u

\* An upset is counted.
LEMMA SpendIs ==
  ASSUME Shape, NEW op, Spend(op)
  PROVE  used' \in Counts
<1>1. used.upsets + 1 \in Nat /\ used' = [used EXCEPT !.upsets = @ + 1] /\ used \in Counts
  BY DEF Spend, Shape, Counts
<1> QED
  BY <1>1 DEF Counts

\* A frame, with or without a wish to leave in it.
LEMMA UpdateMoves ==
  ASSUME IInv, NEW p \in Peers, NEW n \in News(p), NEW wanted \in BOOLEAN, Update(p, n, wanted),
         wanted => Leaves(p, n), used' \in Counts,
         abandoned \subseteq abandoned', abandoned' \subseteq Peers,
         wanted /\ world[p].entity.stage \in {"requested", "joining"} => p \in abandoned'
  PROVE  IInv' /\ \A q \in Peers : Moves(q)
<1> DEFINE u == Working(p)
           e == world[p].entity
           b == wanted \/ e.closing
           calls == [callbacks EXCEPT ![p] = <<>>]
<1>1. /\ u \in Works /\ u.me = p /\ u.leaves = None /\ u.entity = e
      /\ Whole(u) /\ Calls(p)
      /\ p \notin abandoned => Good(u) /\ Awaits(e.stage, asks[p], callbacks[p])
  BY Begins DEF IInv
<1>2. e.closing \in BOOLEAN /\ b \in BOOLEAN
  <2>1. world[p] \in Worlds
    BY DEF IInv, Shape
  <2> QED
    BY <2>1 DEF Worlds, Entity, Entities
<1>3. PICK s \in Schedules(p, n) :
        LET w == Framed(p, n, b, s[1], s[2])
        IN Commit(p, w, calls) /\ wire' = (wire \ {n}) \cup w.sends /\ UNCHANGED asks
  BY DEF Update
<1> DEFINE w == Framed(p, n, b, s[1], s[2])
<1>9. Commit(p, w, calls) /\ wire' = (wire \ {n}) \cup w.sends /\ UNCHANGED asks
  BY <1>3
<1>10. SteamShape /\ n.from \in Peers
  BY NewsIs DEF IInv, Shape
<1> HIDE <1>3 DEF u
<1>4. w \in Works /\ w.me = p /\ Whole(w) /\ (e.id # None => Stays(u, w))
  <2> HIDE DEF b, e
  <2> QED
    BY <1>1, <1>2, <1>10, FrameAny DEF u
<1>5. wire' \subseteq Packets
  <2> HIDE DEF w
  <2>1. w.sends \in SUBSET Packets
    BY <1>4, WorkFields
  <2> QED
    BY <1>9, <2>1 DEF IInv, Shape
<1>6. /\ calls \in [Peers -> Seq(Callback)] /\ calls[p] = <<>>
      /\ \A q \in Peers : q # p => calls[q] = callbacks[q]
  <2>1. callbacks \in [Peers -> Seq(Callback)] /\ <<>> \in Seq(Callback)
    BY DEF IInv, Shape
  <2> QED
    BY <2>1
<1> HIDE DEF calls
<1>7. ASSUME p \notin abandoned'
      PROVE  /\ Good(w) /\ (Turns(u, w) \/ Again(p, w)) /\ Awaits(w.entity.stage, asks[p], calls[p])
             /\ \A l \in Lobbies : e.id = l \/ Answered(p, l) => Keeps(w, l)
  <2>1. p \notin abandoned
    BY <1>7
  <2>2. Brings(u, w) /\ (Turns(u, w) \/ Again(p, w))
    <3>1. Awaits(u.entity.stage, asks[p], callbacks[u.me])
      BY <1>1, <2>1
    <3>2. Brings(u, w) /\ (Turns(u, w) \/ (b /\ ~Hosts(u) /\ Twice(u, w)))
      <4> HIDE DEF b, e
      <4> QED BY <1>1, <1>2, <1>10, <2>1, <3>1, FrameTrusted DEF u
    <3> HIDE DEF w
    <3>3. ~Hosts(u) => ~e.closing
      BY <1>1 DEF Whole, Hosts
    <3> QED
      BY <3>2, <3>3 DEF Again, u
  <2>3. CASE asks[p] = <<>>
    <3>1. Len(<<>>) <= 1
      OBVIOUS
    <3>2. Awaits(w.entity.stage, asks[p], calls[p])
      BY <1>6, <2>3, <3>1 DEF Awaits
    <3> QED
      BY <1>1, <2>2, <3>2 DEF Brings
  <2>4. CASE asks[p] # <<>>
    <3>1. /\ e.stage \in {"requested", "joining"}
          /\ \A i \in DOMAIN callbacks[p] : ~IsAnswer(callbacks[p][i])
          /\ Len(asks[p]) <= 1 /\ e.stage = IF asks[p][1].kind = "create" THEN "requested" ELSE "joining"
      BY <1>1, <2>1, <2>4 DEF Awaits
    <3>2. ~b
      <4>1. ~e.closing
        BY <1>1, <3>1 DEF Whole, InALobby
      <4> QED
        BY <1>7, <3>1, <4>1
    <3>3. w = u
      <4>1. u.entity.stage \in Waiting
        BY <1>1, <3>1 DEF Waiting
      <4> QED
        BY <1>1, <3>1, <3>2, <4>1, FrameIdle DEF u
    <3>4. Awaits(w.entity.stage, asks[p], calls[p])
      <4> HIDE DEF w
      <4> QED BY <1>1, <1>6, <3>1, <3>3 DEF Awaits
    <3> QED
      BY <1>1, <2>2, <3>4 DEF Brings
  <2> QED
    BY <2>3, <2>4
<1>8. \A i \in DOMAIN calls[p] : Right(calls[p][i])
  BY <1>6
<1> HIDE DEF w
<1> QED
  BY <1>4, <1>5, <1>6, <1>7, <1>8, <1>9, CommitKeeps DEF u

\* A frame.
LEMMA RunsMoves ==
  ASSUME IInv, NEW p \in Peers, NEW n \in News(p), Runs(p, n)
  PROVE  IInv' /\ \A q \in Peers : Moves(q)
<1>1. Update(p, n, FALSE) /\ UNCHANGED <<used, abandoned>>
  BY DEF Runs
<1>2. bounds' = bounds
  BY <1>1 DEF Update, Commit
<1> QED
  BY <1>1, <1>2, UpdateMoves DEF IInv, Shape

\* A frame in which the game leaves.
LEMMA LeavesMoves ==
  ASSUME IInv, NEW p \in Peers, NEW n \in News(p), Leaves(p, n)
  PROVE  IInv' /\ \A q \in Peers : Moves(q)
<1>1. Update(p, n, TRUE)
  BY DEF Leaves
<1>2. /\ abandoned \subseteq abandoned' /\ abandoned' \subseteq Peers
      /\ world[p].entity.stage \in {"requested", "joining"} => p \in abandoned'
  BY DEF Leaves, IInv, Shape
<1>3. used' \in Counts
  BY SpendIs DEF Leaves, IInv
<1> QED
  BY <1>1, <1>2, <1>3, UpdateMoves

\* Only the entity is another.
LEMMA Entering ==
  ASSUME Shape, NEW p \in Peers, NEW e \in Entity, world' = [world EXCEPT ![p].entity = e]
  PROVE  /\ world' \in [Peers -> Worlds] /\ world'[p].entity = e /\ world'[p].seats = world[p].seats
         /\ world'[p].current = world[p].current /\ world'[p].believes = world[p].believes
         /\ \A q \in Peers : q # p => world'[q] = world[q]
<1> DEFINE w == [world[p] EXCEPT !.entity = e]
<1>1. world \in [Peers -> Worlds] /\ world[p] \in Worlds
  BY DEF Shape
<1>2. w \in Worlds /\ w.entity = e /\ w.seats = world[p].seats /\ w.current = world[p].current /\ w.believes = world[p].believes
  BY <1>1 DEF Worlds
<1>3. world' = [world EXCEPT ![p] = w]
  OBVIOUS
<1> HIDE DEF w
<1> QED
  BY <1>1, <1>2, <1>3

\* Nothing is said to any game.
LEMMA QuietIs ==
  ASSUME Quiet
  PROVE  /\ \A q \in Peers : told'[q] = 0
         /\ told' \in [Peers -> Nat]
         /\ abandoned' = abandoned /\ bounds' = bounds
BY DEF Quiet

\* The lobby entity is marked, and no more.
LEMMA Marks ==
  ASSUME IInv, NEW p \in Peers, NEW e \in Entity, world' = [world EXCEPT ![p].entity = e],
         e.stage = world[p].entity.stage, e.id = world[p].entity.id, e.pin = world[p].entity.pin,
         world[p].entity.stage \in InALobby, e.closing => Hosts(world[p]),
         Quiet, UNCHANGED <<callbacks, asks, online>>, SteamShape',
         \A l \in Lobbies : steam'[l].members = steam[l].members, used' \in Counts, wire' \subseteq Packets
  PROVE  IInv' /\ \A q \in Peers : Moves(q)
<1>1. Shape /\ Fits(p)
  BY DEF IInv
<1>2. /\ world' \in [Peers -> Worlds] /\ world'[p].entity = e /\ world'[p].seats = world[p].seats
      /\ world'[p].current = world[p].current /\ world'[p].believes = world[p].believes
      /\ \A q \in Peers : q # p => world'[q] = world[q]
  BY <1>1, Entering
<1>3. /\ \A q \in Peers : told'[q] = 0
      /\ told' \in [Peers -> Nat] /\ abandoned' = abandoned /\ bounds' = bounds
  BY QuietIs
<1>4. Shape'
  BY <1>1, <1>2, <1>3, SameBounds DEF Shape
<1>5. \A q \in Peers : Moves(q)
  BY <1>2, <1>3 DEF Moves
<1>6. ASSUME NEW q \in Peers, q # p PROVE Fits(q)'
  <2>1. Hears(q, callbacks)
    BY DEF Hears
  <2>2. Fits(q)
    BY DEF IInv
  <2> QED
    BY <1>1, <1>2, <1>3, <1>6, <2>1, <2>2, Unmoved
<1>7. Fits(p)'
  <2>1. Whole(world'[p])
    BY <1>1, <1>2 DEF Fits, Whole, Hosts
  <2>2. Trusts(world[p], p) => Trusts(world'[p], p)
    BY <1>2 DEF Trusts, Hosts, IsClient
  <2>3. Listed(p) => Listed(p)'
    BY <1>2, <1>3, SameBounds DEF Listed, Answered
  <2> QED
    BY <1>1, <1>2, <1>3, <2>1, <2>2, <2>3 DEF Fits
<1>8. \A q \in Peers' : Fits(q)'
  BY <1>3, <1>6, <1>7, SameBounds
<1> QED
  BY <1>4, <1>5, <1>8 DEF IInv

\* A host that closes its lobby.
LEMMA ClosesMoves ==
  ASSUME IInv, NEW p \in Peers, close_lobby(p)
  PROVE  IInv' /\ \A q \in Peers : Moves(q)
<1> DEFINE e == [world[p].entity EXCEPT !.closing = TRUE]
<1>1. Shape /\ world[p] \in Worlds /\ world[p].entity \in Entity
  BY DEF IInv, Shape, Worlds
<1>2. /\ e \in Entity /\ e.stage = world[p].entity.stage /\ e.id = world[p].entity.id /\ e.pin = world[p].entity.pin
  BY <1>1 DEF Entity, Entities
<1>3. world' = [world EXCEPT ![p].entity = e]
  BY DEF close_lobby
<1>4. world[p].entity.stage \in InALobby /\ Hosts(world[p])
  BY DEF close_lobby, Hosts, InALobby
<1>5. used' \in Counts
  BY <1>1, SpendIs DEF close_lobby
<1>6. wire' \subseteq Packets
  <2>1. world[p].seats \in Seq(Seat)
    BY <1>1 DEF Worlds
  <2>2. ToSet(world[p].seats) \subseteq Seat
    BY <2>1 DEF ToSet
  <2>3. \A s \in Seat : Packet("removed", p, s.of) \in Packets
    BY DEF Seat, Packet, Packets
  <2>4. wire' = wire \cup {Packet("removed", p, s.of) : s \in {x \in ToSet(world[p].seats) : x.connected}}
    BY DEF close_lobby
  <2> QED
    BY <1>1, <2>2, <2>3, <2>4 DEF Shape
<1>7. Quiet /\ UNCHANGED <<seen, online, asks, callbacks>>
  BY DEF close_lobby
<1>8. SteamShape' /\ \A l \in Lobbies : steam'[l].members = steam[l].members
  <2> DEFINE l == world[p].entity.id
             Lobby == [members : SUBSET Peers, owner : {None} \cup Peers, closed : BOOLEAN]
  <2>1. steam' \in {steam, [steam EXCEPT ![l].closed = TRUE]}
    BY DEF close_lobby
  <2>2. steam \in [Lobbies -> Lobby] /\ l \in Lobbies
    <3>1. l \in {None} \cup Lobbies
      BY <1>1 DEF Entity, Entities
    <3>2. l # None
      BY <1>4 DEF IInv, Fits, Whole
    <3> QED
      BY <1>1, <3>1, <3>2 DEF Shape, SteamShape
  <2> DEFINE x == [steam[l] EXCEPT !.closed = TRUE]
             f == [steam EXCEPT ![l] = x]
  <2>3. x \in Lobby /\ x.members = steam[l].members
    BY <2>2
  <2>4. steam' \in {steam, f}
    BY <2>1
  <2> HIDE DEF x, Lobby, l
  <2>5. f \in [Lobbies -> Lobby] /\ \A m \in Lobbies : f[m].members = steam[m].members
    BY <2>2, <2>3
  <2> HIDE DEF f
  <2>6. steam' \in [Lobbies -> Lobby] /\ \A m \in Lobbies : steam'[m].members = steam[m].members
    BY <2>2, <2>4, <2>5
  <2>7. bounds' = bounds
    BY <1>7, QuietIs
  <2> QED
    BY <1>1, <1>7, <2>6, <2>7, SameBounds DEF Shape, SteamShape, Lobby
<1> HIDE DEF e
<1> QED
  BY <1>2, <1>3, <1>4, <1>5, <1>6, <1>7, <1>8, Marks

\* A host that is reached.
LEMMA ReachedMoves ==
  ASSUME IInv, NEW p \in Peers, Reached(p)
  PROVE  IInv' /\ \A q \in Peers : Moves(q)
<1> DEFINE e == [world[p].entity EXCEPT !.waits = "no"]
<1>1. Shape /\ world[p] \in Worlds /\ world[p].entity \in Entity
  BY DEF IInv, Shape, Worlds
<1>2. /\ e \in Entity /\ e.stage = world[p].entity.stage /\ e.id = world[p].entity.id /\ e.pin = world[p].entity.pin
  BY <1>1 DEF Entity, Entities
<1>3. world' = [world EXCEPT ![p].entity = e]
  BY DEF Reached
<1>4. world[p].entity.stage \in InALobby /\ (e.closing => Hosts(world[p]))
  BY <1>1 DEF Reached, IInv, Fits, Whole, Hosts, Entity, Entities
<1>5. Quiet /\ UNCHANGED <<steam, seen, online, asks, callbacks, wire, used>>
  BY DEF Reached, services
<1>6. SteamShape' /\ used' \in Counts /\ wire' \subseteq Packets
  BY <1>1, <1>5, QuietIs, SameBounds DEF Shape, SteamShape
<1> HIDE DEF e
<1> QED
  BY <1>2, <1>3, <1>4, <1>5, <1>6, Marks

\* Seats of a host come and go.
LEMMA Reseats ==
  ASSUME IInv, NEW p \in Peers, NEW w, SeatsOnly(Working(p), w), Hosts(world[p]),
         world' = [world EXCEPT ![p] = Held(w)], wire' = wire \cup w.sends,
         Quiet, UNCHANGED <<steam, seen, online, asks, callbacks>>, used' \in Counts
  PROVE  IInv' /\ \A q \in Peers : Moves(q)
<1> DEFINE u == Working(p)
<1>1. Shape /\ Fits(p)
  BY DEF IInv
<1>2. u \in Works /\ u.entity = world[p].entity /\ u.me = p /\ Whole(u) /\ (p \notin abandoned => Good(u)) /\ Hosts(u)
  BY <1>1, Begins
<1> HIDE DEF u
<1>3. Goes(u, w) /\ w \in Works /\ w.entity = u.entity /\ w.me = u.me /\ w.sends \in SUBSET Packets
  <2>1. w \in Works /\ w.entity = u.entity /\ w.me = u.me
    BY DEF SeatsOnly, u
  <2> QED
    BY <1>2, <2>1, SeatsGo, WorkFields DEF u
<1>4. Held(w) \in Worlds /\ Held(w).entity = w.entity /\ Whole(Held(w)) /\ (p \notin abandoned => Trusts(Held(w), p))
  BY <1>2, <1>3, HeldIs DEF Goes, Lasts, Stays, Good
<1> HIDE DEF Held
<1>5. /\ world' \in [Peers -> Worlds] /\ world'[p] = Held(w)
      /\ \A q \in Peers : q # p => world'[q] = world[q]
  BY <1>1, <1>4 DEF Shape
<1>6. /\ \A q \in Peers : told'[q] = 0
      /\ told' \in [Peers -> Nat] /\ abandoned' = abandoned /\ bounds' = bounds
  BY QuietIs
<1>7. Shape'
  BY <1>1, <1>3, <1>5, <1>6, SameBounds DEF Shape, SteamShape
<1>8. \A q \in Peers : Moves(q)
  BY <1>2, <1>3, <1>4, <1>5, <1>6 DEF Moves
<1>9. ASSUME NEW q \in Peers, q # p PROVE Fits(q)'
  <2>1. Hears(q, callbacks)
    BY DEF Hears
  <2>2. Fits(q)
    BY DEF IInv
  <2> QED
    BY <1>1, <1>5, <1>6, <1>9, <2>1, <2>2, Unmoved
<1>10. Fits(p)'
  <2>1. Listed(p) => Listed(p)'
    BY <1>2, <1>3, <1>4, <1>5, <1>6, SameBounds DEF Listed, Answered
  <2> QED
    BY <1>1, <1>2, <1>3, <1>4, <1>5, <1>6, <2>1 DEF Fits
<1>11. \A q \in Peers' : Fits(q)'
  BY <1>6, <1>9, <1>10, SameBounds
<1> QED
  BY <1>7, <1>8, <1>11 DEF IInv

\* A player that a game removes, or that is silent.
LEMMA KicksMoves ==
  ASSUME IInv, NEW p \in Peers, NEW q \in Peers, Kicks(p, q) \/ SeatGoesSilent(p, q)
  PROVE  IInv' /\ \A x \in Peers : Moves(x)
<1> DEFINE w == Unseated(world[p], Working(p), q)
<1>1. Shape /\ Working(p) \in Works /\ Working(p).seats = world[p].seats
  BY Begins DEF IInv
<1>2. w = Unseated(Working(p), Working(p), q)
  BY <1>1 DEF Unseated, SeatOf
<1>3. SeatsOnly(Working(p), w)
  <2> HIDE DEF w
  <2> QED BY <1>1, <1>2, UnseatedIs
<1>4. /\ Hosts(world[p]) /\ world' = [world EXCEPT ![p] = Held(w)] /\ wire' = wire \cup w.sends
      /\ Quiet /\ UNCHANGED <<steam, seen, online, asks, callbacks>>
  BY DEF Kicks, SeatGoesSilent, services
<1>5. used' \in Counts
  BY <1>1, SpendIs DEF Kicks, SeatGoesSilent, Shape
<1> HIDE DEF w
<1> QED
  BY <1>3, <1>4, <1>5, Reseats

------------------------------------------------------------------------------
\* Steps of Steam, and requests

\* Steam does something, and no peer has read of it yet.
LEMMA Serves ==
  ASSUME IInv, UNCHANGED <<world, wire>>, Quiet, SteamShape', online' \subseteq Peers,
         asks' \in [Peers -> Seq(Asked)], callbacks' \in [Peers -> Seq(Callback)], used' \in Counts,
         \A q \in Peers : Fits(q)'
  PROVE  IInv' /\ \A q \in Peers : Moves(q)
<1>1. /\ \A q \in Peers : told'[q] = 0
      /\ told' \in [Peers -> Nat] /\ abandoned' = abandoned /\ bounds' = bounds
  BY QuietIs
<1>2. Shape'
  BY <1>1, SameBounds DEF Shape, IInv
<1>3. \A q \in Peers : Moves(q)
  BY <1>1 DEF Moves
<1>4. \A q \in Peers' : Fits(q)'
  BY <1>1, SameBounds
<1> QED
  BY <1>2, <1>3, <1>4 DEF IInv

\* A peer in no lobby waits for nothing, and may ask.
LEMMA AskMoves ==
  ASSUME IInv, NEW p \in Peers, NEW stage, NEW ask \in Asked, Ask(p, stage, ask),
         \/ stage = "requested" /\ \E x : ask = [kind |-> "create", id |-> x]
         \/ stage = "joining" /\ \E x : ask = [kind |-> "join", id |-> x]
  PROVE  IInv' /\ \A q \in Peers : Moves(q)
<1> DEFINE e == [world[p].entity EXCEPT !.stage = stage]
<1>1. Shape /\ Fits(p) /\ world[p].entity \in Entity /\ asks \in [Peers -> Seq(Asked)]
  BY DEF IInv, Shape, Worlds
<1>2. stage \in {"requested", "joining"} /\ stage \in Stages
  BY DEF Stages
<1>3. /\ e \in Entity /\ e.stage = stage /\ e.id = world[p].entity.id
      /\ e.waits = world[p].entity.waits /\ e.closing = world[p].entity.closing
  BY <1>1, <1>2 DEF Entity, Entities
<1>4. world[p].entity.stage = "none" /\ world' = [world EXCEPT ![p].entity = e]
  BY DEF Ask
<1> HIDE DEF e
<1>5. /\ world' \in [Peers -> Worlds] /\ world'[p].entity = e /\ world'[p].seats = world[p].seats
      /\ world'[p].current = world[p].current /\ world'[p].believes = world[p].believes
      /\ \A q \in Peers : q # p => world'[q] = world[q]
  BY <1>1, <1>3, <1>4, Entering
<1>6. /\ \A q \in Peers : told'[q] = 0
      /\ told' \in [Peers -> Nat] /\ abandoned' = abandoned /\ bounds' = bounds
  BY QuietIs DEF Ask
<1>7. /\ asks' = [asks EXCEPT ![p] = Append(@, ask)]
      /\ UNCHANGED <<steam, seen, online, callbacks, wire>>
  BY DEF Ask
<1>8. /\ asks' \in [Peers -> Seq(Asked)] /\ asks'[p] = Append(asks[p], ask)
      /\ \A q \in Peers : q # p => asks'[q] = asks[q]
  BY <1>1, <1>7
<1>9. used' \in Counts
  <2>1. used.requests + 1 \in Nat /\ used' = [used EXCEPT !.requests = @ + 1] /\ used \in Counts
    BY <1>1 DEF Ask, Shape, Counts
  <2> QED
    BY <2>1 DEF Counts
<1>10. Shape'
  BY <1>1, <1>5, <1>6, <1>7, <1>8, <1>9, SameBounds DEF Shape, SteamShape
<1>11. ASSUME NEW q \in Peers PROVE Moves(q)
  BY <1>2, <1>3, <1>4, <1>5, <1>6 DEF Moves
<1>12. ASSUME NEW q \in Peers, q # p PROVE Fits(q)'
  <2>1. Hears(q, callbacks) /\ Fits(q)
    BY <1>7 DEF Hears, IInv
  <2> QED
    BY <1>1, <1>5, <1>6, <1>7, <1>8, <1>12, <2>1, Unmoved
<1>13. Fits(p)'
  <2>1. Whole(world'[p])
    BY <1>1, <1>2, <1>3, <1>4, <1>5 DEF Fits, Whole, InALobby
  <2>2. Trusts(world[p], p) => Trusts(world'[p], p)
    BY <1>2, <1>3, <1>4, <1>5 DEF Trusts, Hosts, IsClient
  <2>3. Listed(p) => Listed(p)'
    BY <1>3, <1>5, <1>6, <1>7, SameBounds DEF Listed, Answered
  <2>4. ASSUME Awaits("none", asks[p], callbacks[p]) PROVE Awaits(stage, asks'[p], callbacks'[p])
    <3>1. /\ asks[p] = <<>>
          /\ \A x : Awaits("requested", <<[kind |-> "create", id |-> x]>>, callbacks[p])
          /\ \A x : Awaits("joining", <<[kind |-> "join", id |-> x]>>, callbacks[p])
      <4> DEFINE s == "none"
      <4>1. s \notin {"requested", "joining"} /\ Awaits(s, asks[p], callbacks[p])
        BY <2>4
      <4> HIDE DEF s
      <4> QED
        BY <4>1, NothingAwaited
    <3>2. asks'[p] = <<ask>> /\ callbacks' = callbacks
      BY <1>7, <1>8, <3>1
    <3> QED
      BY <3>1, <3>2
  <2> QED
    BY <1>1, <1>3, <1>4, <1>5, <1>6, <1>7, <2>1, <2>2, <2>3, <2>4 DEF Fits
<1>14. \A q \in Peers' : Fits(q)'
  BY <1>6, <1>12, <1>13, SameBounds
<1> QED
  BY <1>10, <1>11, <1>14 DEF IInv

\* A game that asks for a lobby.
LEMMA AsksMoves ==
  ASSUME IInv, NEW p \in Peers, create_lobby(p) \/ \E l \in Lobbies : join_requested_lobbies(p, l)
  PROVE  IInv' /\ \A q \in Peers : Moves(q)
<1>1. [kind |-> "create", id |-> None] \in Asked /\ \A l \in Lobbies : [kind |-> "join", id |-> l] \in Asked
  BY DEF Asked
<1>2. \/ Ask(p, "requested", [kind |-> "create", id |-> None])
      \/ \E l \in Lobbies : Ask(p, "joining", [kind |-> "join", id |-> l])
  BY DEF create_lobby, join_requested_lobbies
<1> QED
  BY <1>1, <1>2, AskMoves

\* A request that is answered: its peer waits for that, and is listed nowhere yet.
LEMMA AnsweringIs ==
  ASSUME IInv, NEW p \in Peers, NEW kind \in {"create", "join"}, Answering(p, kind)
  PROVE  /\ asks' \in [Peers -> Seq(Asked)] /\ Head(asks[p]) \in Asked /\ Head(asks[p]).kind = kind
         /\ \A q \in Peers : q # p => asks'[q] = asks[q]
         /\ p \in online /\ Quiet /\ UNCHANGED <<online, world, wire, abandoned, bounds>>
         /\ p \notin abandoned =>
              /\ asks[p] # <<>> /\ asks'[p] = <<>>
              /\ world[p].entity.stage = IF kind = "create" THEN "requested" ELSE "joining"
              /\ Awaits(world[p].entity.stage, asks[p], callbacks[p])
              /\ \A l \in Lobbies : p \notin steam[l].members
<1>1. asks \in [Peers -> Seq(Asked)] /\ asks[p] # <<>> /\ asks[p] \in Seq(Asked)
  BY DEF Answering, IInv, Shape
<1>2. Head(asks[p]) \in Asked /\ Tail(asks[p]) \in Seq(Asked) /\ Head(asks[p]) = asks[p][1]
      /\ (Len(asks[p]) <= 1 => Tail(asks[p]) = <<>>)
  BY <1>1
<1>3. Head(asks[p]).kind = kind /\ asks' = [asks EXCEPT ![p] = Tail(@)] /\ p \in online
      /\ Quiet /\ UNCHANGED <<online, world, wire>>
  BY DEF Answering
<1>4. asks' \in [Peers -> Seq(Asked)] /\ asks'[p] = Tail(asks[p]) /\ \A q \in Peers : q # p => asks'[q] = asks[q]
  BY <1>1, <1>2, <1>3
<1>5. ASSUME p \notin abandoned
      PROVE  /\ asks'[p] = <<>>
             /\ world[p].entity.stage = IF kind = "create" THEN "requested" ELSE "joining"
             /\ Awaits(world[p].entity.stage, asks[p], callbacks[p])
             /\ \A l \in Lobbies : p \notin steam[l].members
  <2>1. Awaits(world[p].entity.stage, asks[p], callbacks[p]) /\ Listed(p) /\ Whole(world[p])
    BY <1>5 DEF IInv, Fits
  <2>2. /\ Len(asks[p]) <= 1
        /\ world[p].entity.stage = IF asks[p][1].kind = "create" THEN "requested" ELSE "joining"
        /\ \A i \in DOMAIN callbacks[p] : ~IsAnswer(callbacks[p][i])
    BY <1>1, <2>1 DEF Awaits
  <2>3. world[p].entity.id = None
    BY <2>1, <2>2 DEF Whole, InALobby
  <2>4. \A l \in Lobbies : l # None
    BY PeersFinite DEF Lobbies, None, IInv, Shape, SteamShape
  <2>5. \A l \in Lobbies : p \notin steam[l].members
    BY <2>1, <2>2, <2>3, <2>4 DEF Listed, Answered
  <2> QED
    BY <1>2, <1>3, <1>4, <2>1, <2>2, <2>5
<1> QED
  BY <1>1, <1>2, <1>3, <1>4, <1>5, QuietIs

\* A peer that is answered is listed where its answer says, if anywhere.
LEMMA AnswerFits ==
  ASSUME IInv, NEW p \in Peers, UNCHANGED <<world, abandoned, bounds>>, p \in online',
         \A i \in DOMAIN callbacks'[p] : Right(callbacks'[p][i]),
         p \notin abandoned =>
           /\ Awaits(world[p].entity.stage, asks'[p], callbacks'[p])
           /\ \A l \in Lobbies : p \in steam'[l].members => Answered(p, l)'
  PROVE  Fits(p)'
<1>1. Whole(world[p]) /\ (p \notin abandoned => Trusts(world[p], p))
  BY DEF IInv, Fits
<1>2. p \notin abandoned => Listed(p)'
  BY SameBounds DEF Listed
<1> QED
  BY <1>1, <1>2 DEF Fits

\* An answer is a callback.
LEMMA AnswerIs ==
  ASSUME NEW p \in Peers, NEW l \in Lobbies, NEW kind \in {"created", "enter", "left", "entered", "failed"}
  PROVE  /\ Answer(p, kind, l, TRUE) \in Callback /\ Answer(p, kind, l, TRUE).kind = kind
         /\ Answer(p, kind, l, TRUE).id = l /\ Answer(p, kind, l, TRUE).ok
         /\ Answer(p, kind, None, FALSE) \in Callback /\ Answer(p, kind, None, FALSE).kind = kind
         /\ Answer(p, kind, None, FALSE).id = None /\ ~Answer(p, kind, None, FALSE).ok
BY DEF Answer, Callback, None

\* A request that is refused.
LEMMA RefusesMoves ==
  ASSUME IInv, NEW p \in Peers, NEW kind \in {"create", "join"}, Refuses(p, kind)
  PROVE  IInv' /\ \A q \in Peers : Moves(q)
<1> DEFINE word == IF kind = "create" THEN "created" ELSE "enter"
           c == Answer(p, word, None, FALSE)
<1>1. Shape /\ Fits(p) /\ callbacks \in [Peers -> Seq(Callback)]
  BY DEF IInv, Shape
<1>2. Answering(p, kind) /\ callbacks' = Tell({p}, callbacks, c) /\ UNCHANGED <<steam, seen>>
  BY DEF Refuses
<1>3. /\ asks' \in [Peers -> Seq(Asked)]
      /\ \A q \in Peers : q # p => asks'[q] = asks[q]
      /\ p \in online /\ Quiet /\ UNCHANGED <<online, world, wire, abandoned, bounds>>
      /\ p \notin abandoned =>
           /\ asks[p] # <<>> /\ asks'[p] = <<>>
           /\ world[p].entity.stage = IF kind = "create" THEN "requested" ELSE "joining"
           /\ Awaits(world[p].entity.stage, asks[p], callbacks[p])
           /\ \A l \in Lobbies : p \notin steam[l].members
  BY <1>2, AnsweringIs
<1>4. c \in Callback /\ c.kind = word /\ c.id = None /\ ~c.ok
  BY DEF Answer, Callback, None
<1> HIDE DEF c
<1>5. /\ callbacks' \in [Peers -> Seq(Callback)] /\ callbacks'[p] = Append(callbacks[p], c)
      /\ \A q \in Peers : q # p => callbacks'[q] = callbacks[q]
  BY <1>1, <1>2, <1>4 DEF Tell
<1>6. used' \in Counts
  BY <1>1, <1>3, SameBounds, SpendIs DEF Refuses, Shape
<1>7. ASSUME NEW q \in Peers, q # p PROVE Fits(q)'
  <2>1. Hears(q, callbacks) /\ Fits(q)
    BY <1>5, <1>7 DEF Hears, IInv
  <2> QED
    BY <1>1, <1>2, <1>3, <1>7, <2>1, Unmoved
<1>8. Fits(p)'
  <2>1. \A i \in DOMAIN callbacks'[p] : Right(callbacks'[p][i])
    <3>1. Right(c) /\ callbacks[p] \in Seq(Callback)
      BY <1>1, <1>4 DEF Right
    <3>2. \A i \in DOMAIN callbacks[p] : Right(callbacks[p][i])
      BY <1>1 DEF Fits
    <3>3. \A i \in DOMAIN Append(callbacks[p], c) :
            \/ Append(callbacks[p], c)[i] = c
            \/ i \in DOMAIN callbacks[p] /\ Append(callbacks[p], c)[i] = callbacks[p][i]
      BY <3>1
    <3> QED
      BY <1>5, <3>1, <3>2, <3>3
  <2>2. ASSUME p \notin abandoned
        PROVE  Awaits(world[p].entity.stage, asks'[p], callbacks'[p])
    <3> DEFINE s == world[p].entity.stage
    <3>1. s \in {"requested", "joining"} /\ c.kind = Wanted(s) /\ Awaits(s, asks[p], callbacks[p]) /\ asks[p] # <<>>
      BY <1>3, <1>4, <2>2 DEF Wanted
    <3>2. callbacks[p] \in Seq(Callback) /\ asks'[p] = <<>>
      BY <1>1, <1>3, <2>2
    <3> HIDE DEF s
    <3>3. Awaits(s, <<>>, Append(callbacks[p], c))
      BY <1>4, <3>1, <3>2, AwaitsAnswered
    <3> QED
      BY <1>5, <3>2, <3>3 DEF s
  <2>3. \A l \in Lobbies : p \notin abandoned => p \notin steam'[l].members
    BY <1>2, <1>3
  <2> QED
    BY <1>3, <2>1, <2>2, <2>3, AnswerFits
<1>9. SteamShape'
  BY <1>1, <1>2, <1>3, SameBounds DEF Shape, SteamShape
<1>10. online' \subseteq Peers
  BY <1>1, <1>3 DEF Shape
<1> QED
  BY <1>3, <1>5, <1>6, <1>7, <1>8, <1>9, <1>10, Serves

\* A cache that hears of an owner.
LEMMA TellsMoves ==
  ASSUME IInv, NEW p \in Peers, NEW l \in Lobbies, SteamTells(p, l)
  PROVE  IInv' /\ \A q \in Peers : Moves(q)
<1> DEFINE x == [seen[p][l] EXCEPT !.owner = steam[l].owner, !.closed = steam[l].closed]
           f == [seen[p] EXCEPT ![l] = x]
<1>1. /\ Shape /\ seen \in [Peers -> [Lobbies -> SeenOf]] /\ seen[p][l] \in SeenOf
      /\ steam[l].owner \in {None} \cup Peers /\ steam[l].closed \in BOOLEAN
  BY DEF IInv, Shape, SteamShape, SeenOf
<1>2. x \in SeenOf
  BY <1>1 DEF SeenOf
<1>3. seen' = [seen EXCEPT ![p] = f]
  BY <1>1 DEF SteamTells
<1> HIDE DEF x
<1>4. f \in [Lobbies -> SeenOf]
  BY <1>1, <1>2
<1> HIDE DEF f
<1>5. seen' \in [Peers -> [Lobbies -> SeenOf]]
  BY <1>1, <1>3, <1>4
<1>6. Quiet /\ UNCHANGED <<steam, online, asks, callbacks, world, wire, used>>
  BY DEF SteamTells
<1>7. abandoned' = abandoned /\ bounds' = bounds
  BY <1>6, QuietIs
<1>8. SteamShape'
  BY <1>1, <1>5, <1>6, <1>7, SameBounds DEF Shape, SteamShape, SeenOf
<1>9. ASSUME NEW q \in Peers PROVE Fits(q)'
  <2>1. Hears(q, callbacks) /\ Fits(q)
    BY <1>6 DEF Hears, IInv
  <2> QED
    BY <1>1, <1>6, <1>7, <2>1, Unmoved
<1>10. /\ online' \subseteq Peers /\ asks' \in [Peers -> Seq(Asked)] /\ callbacks' \in [Peers -> Seq(Callback)]
       /\ used' \in Counts
  BY <1>1, <1>6, <1>7, SameBounds DEF Shape
<1> QED
  BY <1>6, <1>8, <1>9, <1>10, Serves

\* A messages session that fails.
LEMMA FailsMoves ==
  ASSUME IInv, NEW p \in Peers, NEW q \in Peers, SessionFails(p, q)
  PROVE  IInv' /\ \A x \in Peers : Moves(x)
<1> DEFINE c == Answer(q, "failed", None, TRUE)
<1>1. Shape /\ callbacks \in [Peers -> Seq(Callback)]
  BY DEF IInv, Shape
<1>2. callbacks' = Tell({p}, callbacks, c) /\ Quiet /\ UNCHANGED <<steam, seen, online, asks, world, wire>>
  BY DEF SessionFails, services
<1>3. c \in Callback /\ ~IsAnswer(c)
  BY DEF Answer, Callback, IsAnswer
<1> HIDE DEF c
<1>4. callbacks' \in [Peers -> Seq(Callback)] /\ \A x \in Peers : Hears(x, callbacks)
  BY <1>1, <1>2, <1>3 DEF Tell, Hears
<1>5. abandoned' = abandoned /\ bounds' = bounds
  BY <1>2, QuietIs
<1>6. ASSUME NEW x \in Peers PROVE Fits(x)'
  <2>1. Fits(x)
    BY DEF IInv
  <2> QED
    BY <1>1, <1>2, <1>4, <1>5, <2>1, Unmoved
<1>7. SteamShape' /\ online' \subseteq Peers /\ asks' \in [Peers -> Seq(Asked)]
  BY <1>1, <1>2, <1>5, SameBounds DEF Shape, SteamShape
<1>8. used' \in Counts
  BY <1>1, SpendIs DEF SessionFails
<1> QED
  BY <1>2, <1>4, <1>6, <1>7, <1>8, Serves

\* A lobby that is created lists its creator, who is about to read of it.
LEMMA CreatesMoves ==
  ASSUME IInv, NEW p \in Peers, Creates(p)
  PROVE  IInv' /\ \A q \in Peers : Moves(q)
<1> DEFINE l == used.lobbies + 1
           c == Answer(p, "created", l, TRUE)
           d == Answer(p, "enter", l, TRUE)
           Lobby == [members : SUBSET Peers, owner : {None} \cup Peers, closed : BOOLEAN]
           made == [members |-> {p}, owner |-> p, closed |-> FALSE]
           known == [members |-> {p}, owner |-> p, closed |-> FALSE]
<1>1. /\ Shape /\ Fits(p) /\ callbacks \in [Peers -> Seq(Callback)] /\ used \in Counts
      /\ steam \in [Lobbies -> Lobby] /\ seen \in [Peers -> [Lobbies -> SeenOf]]
      /\ bounds.lobbies \in Nat
  BY PeersFinite DEF IInv, Shape, SteamShape, SeenOf
<1>2. /\ Answering(p, "create") /\ used.lobbies < bounds.lobbies
      /\ used' = [used EXCEPT !.lobbies = @ + 1]
      /\ steam' = [steam EXCEPT ![l] = made]
      /\ seen' = [seen EXCEPT ![p][l] = known]
      /\ callbacks' = [callbacks EXCEPT ![p] = @ \o <<c, d>>]
  BY DEF Creates
<1>3. l \in Lobbies /\ l \in 0..bounds.lobbies /\ used.lobbies \in 0..bounds.lobbies
  BY <1>1, <1>2 DEF Counts, Lobbies
<1>4. used' \in [requests : Nat, upsets : Nat, lobbies : 0..bounds.lobbies]
  BY <1>1, <1>2, <1>3 DEF Counts
<1>5. made \in Lobby /\ made.members = {p} /\ known \in SeenOf
  BY DEF SeenOf
<1>6. /\ c \in Callback /\ c.kind = "created" /\ c.id = l /\ c.ok
      /\ d \in Callback /\ d.kind = "enter" /\ d.id = l /\ d.ok
  BY <1>3, AnswerIs, ZenonT(40)
<1>7. /\ asks' \in [Peers -> Seq(Asked)]
      /\ \A q \in Peers : q # p => asks'[q] = asks[q]
      /\ p \in online /\ Quiet /\ UNCHANGED <<online, world, wire, abandoned, bounds>>
      /\ p \notin abandoned =>
           /\ asks[p] # <<>> /\ asks'[p] = <<>>
           /\ world[p].entity.stage = "requested"
           /\ Awaits(world[p].entity.stage, asks[p], callbacks[p])
           /\ \A m \in Lobbies : p \notin steam[m].members
  BY <1>2, AnsweringIs
<1> HIDE DEF l, c, d, made, known, Lobby
<1>8. /\ steam' \in [Lobbies -> Lobby]
      /\ \A m \in Lobbies : steam'[m].members = IF m = l THEN {p} ELSE steam[m].members
  BY <1>1, <1>2, <1>3, <1>5
<1>9. seen' \in [Peers -> [Lobbies -> SeenOf]]
  <2> DEFINE f == [seen[p] EXCEPT ![l] = known]
  <2>1. f \in [Lobbies -> SeenOf] /\ seen' = [seen EXCEPT ![p] = f]
    BY <1>1, <1>2, <1>5
  <2> HIDE DEF f
  <2> QED
    BY <1>1, <2>1
<1>10. SteamShape'
  BY <1>1, <1>7, <1>8, <1>9, SameBounds DEF Shape, SteamShape, SeenOf, Lobby
<1>11. /\ callbacks' \in [Peers -> Seq(Callback)] /\ callbacks'[p] = callbacks[p] \o <<c, d>>
       /\ \A q \in Peers : q # p => callbacks'[q] = callbacks[q]
  <2>1. callbacks[p] \o <<c, d>> \in Seq(Callback)
    BY <1>1, <1>6
  <2> QED
    BY <1>1, <1>2, <2>1
<1>12. used' \in Counts'
  BY <1>4, <1>7 DEF Counts
<1>13. ASSUME NEW q \in Peers, q # p PROVE Fits(q)'
  <2>1. Hears(q, callbacks) /\ Fits(q)
    BY <1>11, <1>13 DEF Hears, IInv
  <2>2. \A m \in Lobbies : q \in steam'[m].members => q \in steam[m].members
    BY <1>8, <1>13
  <2> QED
    BY <1>1, <1>7, <1>13, <2>1, <2>2, Unmoved
<1>14. /\ DOMAIN callbacks'[p] = 1..(Len(callbacks[p]) + 2) /\ Len(callbacks[p]) \in Nat
       /\ callbacks'[p][Len(callbacks[p]) + 1] = c /\ callbacks'[p][Len(callbacks[p]) + 2] = d
       /\ \A i \in DOMAIN callbacks'[p] :
            \/ callbacks'[p][i] = c \/ callbacks'[p][i] = d
            \/ i \in DOMAIN callbacks[p] /\ callbacks'[p][i] = callbacks[p][i]
  BY <1>1, <1>6, <1>11
<1>15. Fits(p)'
  <2>1. \A i \in DOMAIN callbacks'[p] : Right(callbacks'[p][i])
    <3>1. Right(c) /\ Right(d)
      <4>1. l # None
        BY <1>1, <1>3 DEF Lobbies, None
      <4> QED
        BY <1>6, <4>1 DEF Right
    <3>2. \A i \in DOMAIN callbacks[p] : Right(callbacks[p][i])
      BY <1>1 DEF Fits
    <3> QED
      BY <1>14, <3>1, <3>2
  <2>2. ASSUME p \notin abandoned
        PROVE  Awaits(world[p].entity.stage, asks'[p], callbacks'[p])
    <3>1. Awaits("requested", asks[p], callbacks[p]) /\ asks[p] # <<>> /\ asks'[p] = <<>>
          /\ callbacks[p] \in Seq(Callback)
      BY <1>1, <1>7, <2>2
    <3>2. Awaits("requested", <<>>, callbacks[p] \o <<c, d>>)
      BY <1>6, <3>1, AwaitsCreated
    <3> QED
      BY <1>7, <1>11, <2>2, <3>1, <3>2
  <2>3. ASSUME NEW m, m = l PROVE Answered(p, m)'
    <3>1. IsAnswer(d) /\ Len(callbacks[p]) + 2 \in DOMAIN callbacks'[p]
      BY <1>6, <1>14 DEF IsAnswer
    <3> QED
      BY <1>6, <1>14, <2>3, <3>1 DEF Answered
  <2>4. ASSUME p \notin abandoned, NEW m \in Lobbies, p \in steam'[m].members PROVE Answered(p, m)'
    BY <1>7, <1>8, <2>3, <2>4
  <2>5. p \in online'
    BY <1>7
  <2> QED
    BY <1>7, <2>1, <2>2, <2>4, <2>5, AnswerFits
<1>16. online' \subseteq Peers /\ used' \in Counts
  BY <1>1, <1>7, <1>12, SameBounds DEF Shape
<1> QED
  BY <1>7, <1>10, <1>11, <1>13, <1>15, <1>16, Serves

\* So it is with whoever joins, and the members only hear of it.
LEMMA JoinsMoves ==
  ASSUME IInv, NEW p \in Peers, Joins(p)
  PROVE  IInv' /\ \A q \in Peers : Moves(q)
<1> DEFINE Lobby == [members : SUBSET Peers, owner : {None} \cup Peers, closed : BOOLEAN]
<1>1. /\ Shape /\ Fits(p) /\ callbacks \in [Peers -> Seq(Callback)] /\ used \in Counts
      /\ steam \in [Lobbies -> Lobby] /\ bounds.lobbies \in Nat
  BY PeersFinite DEF IInv, Shape, SteamShape
<1>2. Answering(p, "join") /\ UNCHANGED used
  BY DEF Joins
<1>3. /\ asks' \in [Peers -> Seq(Asked)] /\ Head(asks[p]) \in Asked /\ Head(asks[p]).kind = "join"
      /\ \A q \in Peers : q # p => asks'[q] = asks[q]
      /\ p \in online /\ Quiet /\ UNCHANGED <<online, world, wire, abandoned, bounds>>
      /\ p \notin abandoned =>
           /\ asks[p] # <<>> /\ asks'[p] = <<>>
           /\ world[p].entity.stage = "joining"
           /\ Awaits(world[p].entity.stage, asks[p], callbacks[p])
           /\ \A m \in Lobbies : p \notin steam[m].members
  BY <1>2, AnsweringIs
<1>4. PICK l \in Lobbies : l = Head(asks[p]).id
  BY <1>3 DEF Asked
<1>5. PICK c \in Callback : c = Answer(p, "entered", l, TRUE) /\ c.kind = "entered"
  <2>1. Answer(p, "entered", l, TRUE) \in Callback /\ Answer(p, "entered", l, TRUE).kind = "entered"
    BY DEF Answer, Callback
  <2> QED
    BY <2>1
<1>6. PICK d \in Callback : d = Answer(p, "enter", l, TRUE) /\ d.kind = "enter" /\ d.id = l /\ d.ok
  <2> DEFINE x == Answer(p, "enter", l, TRUE)
  <2>1. x \in Callback /\ x.kind = "enter" /\ x.id = l /\ x.ok
    BY DEF Answer, Callback
  <2> HIDE DEF x
  <2> QED
    BY <2>1 DEF x
<1>7. PICK members \in SUBSET Peers : members = steam[l].members \cup {p}
  BY <1>1
<1>8. PICK known \in SeenOf : known = [members |-> members, owner |-> steam[l].owner, closed |-> steam[l].closed]
  BY <1>1 DEF SeenOf
<1>9. /\ steam' = [steam EXCEPT ![l].members = members]
      /\ seen' = [Members(l, members) EXCEPT ![p][l] = known]
      /\ callbacks' = Tell({p}, Tell(Others(p, l), callbacks, c), d)
  BY <1>4, <1>5, <1>6, <1>7, <1>8 DEF Joins
<1>10. /\ steam' \in [Lobbies -> Lobby]
       /\ \A m \in Lobbies : steam'[m].members = IF m = l THEN steam[m].members \cup {p} ELSE steam[m].members
  <2> DEFINE x == [steam[l] EXCEPT !.members = members]
  <2>1. steam[l] \in Lobby /\ steam' = [steam EXCEPT ![l] = x]
    BY <1>1, <1>9
  <2>2. x \in Lobby /\ x.members = members
    BY <2>1
  <2> HIDE DEF x, Lobby
  <2> QED
    BY <1>1, <1>7, <2>1, <2>2
<1> HIDE DEF Lobby
<1>11. seen' \in [Peers -> [Lobbies -> SeenOf]]
  <2> DEFINE f == Members(l, members)
             x == [f[p] EXCEPT ![l] = known]
  <2>1. f \in [Peers -> [Lobbies -> SeenOf]]
    BY <1>1, CachesHear
  <2>2. seen' = [f EXCEPT ![p] = x]
    BY <1>9
  <2> HIDE DEF f
  <2>3. x \in [Lobbies -> SeenOf]
    BY <2>1
  <2> HIDE DEF x
  <2> QED
    BY <2>1, <2>2, <2>3
<1>12. SteamShape'
  BY <1>1, <1>3, <1>10, <1>11, SameBounds DEF Shape, SteamShape, SeenOf, Lobby
<1>13. /\ callbacks' \in [Peers -> Seq(Callback)] /\ callbacks'[p] = Append(callbacks[p], d)
       /\ \A q \in Peers : q # p => Hears(q, callbacks)
  <2> DEFINE calls == Tell(Others(p, l), callbacks, c)
  <2>1. \A q \in Peers : calls[q] = IF q \in Others(p, l) THEN Append(callbacks[q], c) ELSE callbacks[q]
    BY DEF Tell
  <2>2. p \notin Others(p, l)
    BY DEF Others
  <2> HIDE DEF calls
  <2>3. ASSUME NEW q \in Peers PROVE calls[q] \in Seq(Callback)
    <3>1. callbacks[q] \in Seq(Callback) /\ c \in Callback
      BY <1>1, <1>5
    <3>2. Append(callbacks[q], c) \in Seq(Callback)
      BY <3>1
    <3> QED
      BY <2>1, <3>1, <3>2
  <2>4. callbacks' = [q \in Peers |-> IF q \in {p} THEN Append(calls[q], d) ELSE calls[q]]
    BY <1>9 DEF Tell, calls
  <2>5. callbacks' \in [Peers -> Seq(Callback)]
    <3>1. \A q \in Peers : (IF q \in {p} THEN Append(calls[q], d) ELSE calls[q]) \in Seq(Callback)
      BY <2>3
    <3> QED
      BY <2>4, <3>1
  <2>6. callbacks'[p] = Append(callbacks[p], d)
    BY <2>1, <2>2, <2>4
  <2>7. ~IsAnswer(c)
    BY <1>5 DEF IsAnswer
  <2>8. ASSUME NEW q \in Peers, q # p PROVE Hears(q, callbacks)
    BY <2>1, <2>4, <2>7, <2>8 DEF Hears
  <2> QED
    BY <2>5, <2>6, <2>8
<1>14. ASSUME NEW q \in Peers, q # p PROVE Fits(q)'
  <2>1. Hears(q, callbacks) /\ Fits(q)
    BY <1>13, <1>14 DEF IInv
  <2>2. \A m \in Lobbies : q \in steam'[m].members => q \in steam[m].members
    BY <1>10, <1>14
  <2> QED
    BY <1>1, <1>3, <1>14, <2>1, <2>2, Unmoved
<1>15. /\ DOMAIN callbacks'[p] = 1..(Len(callbacks[p]) + 1) /\ Len(callbacks[p]) \in Nat
       /\ callbacks'[p][Len(callbacks[p]) + 1] = d
       /\ \A i \in DOMAIN callbacks'[p] :
            \/ callbacks'[p][i] = d
            \/ i \in DOMAIN callbacks[p] /\ callbacks'[p][i] = callbacks[p][i]
  BY <1>1, <1>13
<1>16. Fits(p)'
  <2>1. \A i \in DOMAIN callbacks'[p] : Right(callbacks'[p][i])
    <3>1. Right(d)
      <4>1. l # None
        BY <1>1 DEF Lobbies, None
      <4> QED
        BY <1>6, <4>1 DEF Right
    <3>2. \A i \in DOMAIN callbacks[p] : Right(callbacks[p][i])
      BY <1>1 DEF Fits
    <3> QED
      BY <1>15, <3>1, <3>2
  <2>2. ASSUME p \notin abandoned
        PROVE  Awaits(world[p].entity.stage, asks'[p], callbacks'[p])
    <3> DEFINE s == world[p].entity.stage
    <3>1. s \in {"requested", "joining"} /\ d.kind = Wanted(s) /\ Awaits(s, asks[p], callbacks[p]) /\ asks[p] # <<>>
      BY <1>3, <1>6, <2>2 DEF Wanted
    <3>2. callbacks[p] \in Seq(Callback) /\ asks'[p] = <<>>
      BY <1>1, <1>3, <2>2
    <3> HIDE DEF s
    <3>3. Awaits(s, <<>>, Append(callbacks[p], d))
      BY <3>1, <3>2, AwaitsAnswered
    <3> QED
      BY <1>13, <3>2, <3>3 DEF s
  <2>3. Answered(p, l)'
    <3>1. IsAnswer(d)
      BY <1>6 DEF IsAnswer
    <3>2. Len(callbacks[p]) + 1 \in DOMAIN callbacks'[p]
      BY <1>15
    <3> QED
      BY <1>6, <1>15, <3>1, <3>2 DEF Answered
  <2>4. ASSUME p \notin abandoned, NEW m \in Lobbies, p \in steam'[m].members PROVE Answered(p, m)'
    BY <1>3, <1>10, <2>3, <2>4
  <2> QED
    BY <1>3, <2>1, <2>2, <2>4, AnswerFits
<1>17. online' \subseteq Peers /\ used' \in Counts
  BY <1>1, <1>2, <1>3, SameBounds DEF Shape
<1> QED
  BY <1>3, <1>12, <1>13, <1>14, <1>16, <1>17, Serves

\* Whoever drops out is listed nowhere: it was listed in one lobby at most.
LEMMA DropsMoves ==
  ASSUME IInv, NEW p \in Peers, Drops(p)
  PROVE  IInv' /\ \A q \in Peers : Moves(q)
<1>1. /\ Shape /\ callbacks \in [Peers -> Seq(Callback)] /\ online \subseteq Peers
      /\ seen \in [Peers -> [Lobbies -> SeenOf]] /\ asks \in [Peers -> Seq(Asked)]
  BY DEF IInv, Shape, SteamShape, SeenOf
<1>2. PICK l \in Lobbies : p \in steam[l].members /\ Departs(p, l, seen[p][l], callbacks)
  BY DEF Drops
<1>3. online' = online \ {p} /\ Quiet /\ UNCHANGED <<asks, world, wire>>
  BY DEF Drops
<1>4. abandoned' = abandoned /\ bounds' = bounds
  BY <1>3, QuietIs
<1>5. seen[p][l] \in SeenOf
  BY <1>1
<1>6. /\ SteamShape' /\ callbacks' \in [Peers -> Seq(Callback)]
      /\ \A q \in Peers : Hears(q, callbacks)
      /\ callbacks'[p] = callbacks[p]
      /\ \A m \in Lobbies : steam'[m].members = IF m = l THEN steam[m].members \ {p} ELSE steam[m].members
  BY <1>1, <1>2, <1>4, <1>5, DepartsIs
<1>7. ASSUME NEW q \in Peers, q # p \/ q \notin abandoned PROVE Fits(q)'
  <2>1. Fits(q)
    BY DEF IInv
  <2>2. ASSUME NEW m \in Lobbies, q \in steam'[m].members
        PROVE  q \in steam[m].members /\ (q \in online => q \in online')
    <3>1. q \in steam[m].members /\ (m = l => q # p)
      BY <1>6, <2>2
    <3>2. CASE q # p
      BY <1>3, <3>1, <3>2
    <3>3. CASE q = p
      <4>1. m = l
        BY <1>1, <1>2, <1>7, <2>1, <3>1, <3>3, OneLobby
      <4> QED
        BY <3>1, <3>3, <4>1
    <3> QED
      BY <3>2, <3>3
  <2> QED
    BY <1>1, <1>3, <1>4, <1>6, <2>1, <2>2, Unmoved
<1>8. ASSUME p \in abandoned PROVE Fits(p)'
  <2>1. Fits(p)
    BY DEF IInv
  <2> QED
    BY <1>3, <1>4, <1>6, <1>8, <2>1 DEF Fits
<1>9. used' \in Counts /\ online' \subseteq Peers
  BY <1>1, <1>3, SpendIs DEF Drops
<1> QED
  BY <1>1, <1>3, <1>6, <1>7, <1>8, <1>9, <1>4, SameBounds, Serves

\* Whoever is back is listed nowhere still.
LEMMA ReturnsMoves ==
  ASSUME IInv, NEW p \in Peers, Returns(p)
  PROVE  IInv' /\ \A q \in Peers : Moves(q)
<1> DEFINE known == [l \in Lobbies |-> [members |-> {}, owner |-> steam[l].owner, closed |-> steam[l].closed]]
<1>1. /\ Shape /\ callbacks \in [Peers -> Seq(Callback)] /\ online \subseteq Peers
      /\ seen \in [Peers -> [Lobbies -> SeenOf]] /\ asks \in [Peers -> Seq(Asked)]
      /\ world[p] \in Worlds
  BY DEF IInv, Shape, SteamShape, SeenOf
<1>2. /\ online' = online \cup {p} /\ seen' = [seen EXCEPT ![p] = known]
      /\ Quiet /\ UNCHANGED <<steam, asks, world, wire, used>>
  BY DEF Returns
<1>3. abandoned' = abandoned /\ bounds' = bounds
  BY <1>2, QuietIs
<1>4. known \in [Lobbies -> SeenOf]
  BY <1>1 DEF Shape, SteamShape, SeenOf
<1> HIDE DEF known
<1>5. SteamShape'
  BY <1>1, <1>2, <1>3, <1>4, SameBounds DEF Shape, SteamShape, SeenOf
<1>6. callbacks' \in [Peers -> Seq(Callback)] /\ \A q \in Peers : Hears(q, callbacks)
  <2>1. PICK l : l = world[p].entity.id
    OBVIOUS
  <2>2. l \in {None} \cup Lobbies
    BY <1>1, <2>1 DEF Worlds, Entity, Entities
  <2>3. CASE l = None
    BY <1>1, <2>1, <2>3 DEF Returns, Hears
  <2>4. CASE l # None
    <3>1. PICK c \in Callback : c = Answer(p, "left", l, TRUE) /\ c.kind = "left"
      <4>1. Answer(p, "left", l, TRUE) \in Callback /\ Answer(p, "left", l, TRUE).kind = "left"
        BY <2>2, <2>4 DEF Answer, Callback
      <4> QED
        BY <4>1
    <3>2. callbacks' = Tell({p}, callbacks, c)
      BY <2>1, <2>4, <3>1 DEF Returns
    <3>3. ~IsAnswer(c)
      BY <3>1 DEF IsAnswer
    <3> QED
      BY <1>1, <3>2, <3>3 DEF Tell, Hears
  <2> QED
    BY <2>3, <2>4
<1>7. ASSUME NEW q \in Peers PROVE Fits(q)'
  <2>1. Fits(q)
    BY DEF IInv
  <2> QED
    BY <1>1, <1>2, <1>3, <1>6, <2>1, Unmoved
<1>8. used' \in Counts /\ online' \subseteq Peers
  BY <1>1, <1>2 DEF Shape
<1> QED
  BY <1>1, <1>2, <1>3, <1>5, <1>6, <1>7, <1>8, SameBounds, Serves

------------------------------------------------------------------------------
\* The theorems

\* Everybody is in no lobby at first.
LEMMA InitFits ==
  ASSUME Init
  PROVE  IInv
<1>1. /\ bounds \in Instances
      /\ steam = [l \in Lobbies |-> [members |-> {}, owner |-> None, closed |-> FALSE]]
      /\ seen = [p \in Peers |-> [l \in Lobbies |-> Nothing]]
      /\ online = Peers
      /\ asks = [p \in Peers |-> <<>>] /\ callbacks = [p \in Peers |-> <<>>]
      /\ world = [p \in Peers |-> NewWorld]
      /\ wire = {} /\ told = [p \in Peers |-> 0] /\ abandoned = {}
      /\ used = [requests |-> 0, upsets |-> 0, lobbies |-> 0]
  BY DEF Init
<1>2. NewWorld \in Worlds /\ NewWorld.entity = NoEntity /\ NewWorld.seats = <<>>
      /\ NewWorld.current = None /\ NewWorld.believes = None
  BY NoEntityIs DEF NewWorld, Worlds
<1>3. NoEntity.stage = "none" /\ NoEntity.id = None /\ NoEntity.waits = "no" /\ ~NoEntity.closing
  BY DEF NoEntity
<1> HIDE DEF NewWorld, NoEntity
<1>4. SteamShape
  BY <1>1 DEF SteamShape, SeenOf, Nothing, None
<1>5. used \in Counts
  BY <1>1, PeersFinite DEF Counts
<1>6. /\ asks \in [Peers -> Seq(Asked)] /\ callbacks \in [Peers -> Seq(Callback)]
      /\ told \in [Peers -> Nat]
  BY <1>1
<1>7. world \in [Peers -> Worlds]
  BY <1>1, <1>2
<1>8. Shape
  BY <1>1, <1>4, <1>5, <1>6, <1>7 DEF Shape
<1>9. Len(<<>>) = 0 /\ DOMAIN <<>> = {}
  OBVIOUS
<1>10. ASSUME NEW p \in Peers PROVE Fits(p)
  <2>1. world[p] = NewWorld /\ asks[p] = <<>> /\ callbacks[p] = <<>>
    BY <1>1
  <2>2. Whole(world[p]) /\ Trusts(world[p], p)
    BY <1>2, <1>3, <2>1 DEF Whole, Trusts, Hosts, IsClient, InALobby
  <2>3. Awaits(world[p].entity.stage, asks[p], callbacks[p])
    BY <1>9, <2>1 DEF Awaits
  <2>4. Listed(p)
    BY <1>1 DEF Listed
  <2> QED
    BY <1>9, <2>1, <2>2, <2>3, <2>4 DEF Fits
<1> QED
  BY <1>8, <1>10 DEF IInv

\* Every step keeps the invariant, and makes of each session what Moves allows.
LEMMA NextMoves ==
  ASSUME IInv, Next
  PROVE  IInv' /\ \A q \in Peers : Moves(q)
<1>1. CASE Service
  <2>1. PICK p \in Peers : \/ Creates(p) \/ Joins(p) \/ Drops(p) \/ Returns(p)
                           \/ \E kind \in {"create", "join"} : Refuses(p, kind)
                           \/ \E l \in Lobbies : SteamTells(p, l)
                           \/ \E q \in Peers : SessionFails(p, q)
    BY <1>1 DEF Service
  <2> QED
    BY <2>1, CreatesMoves, JoinsMoves, DropsMoves, ReturnsMoves, RefusesMoves, TellsMoves, FailsMoves
<1>2. CASE Frames
  <2>1. PICK p \in Peers : \/ \E n \in News(p) : Runs(p, n) \/ Leaves(p, n)
                           \/ Reached(p)
                           \/ \E q \in Peers : SeatGoesSilent(p, q)
    BY <1>2 DEF Frames
  <2> QED
    BY <2>1, RunsMoves, LeavesMoves, ReachedMoves, KicksMoves
<1>3. CASE Game
  <2>1. PICK p \in Peers : \/ create_lobby(p) \/ close_lobby(p)
                           \/ \E l \in Lobbies : join_requested_lobbies(p, l)
                           \/ \E q \in Peers : Kicks(p, q)
    BY <1>3 DEF Game
  <2> QED
    BY <2>1, AsksMoves, ClosesMoves, KicksMoves
<1> QED
  BY <1>1, <1>2, <1>3 DEF Next

\* So does a step of others.
LEMMA Stutters ==
  ASSUME IInv, UNCHANGED vars
  PROVE  IInv'
<1>1. UNCHANGED <<steam, seen, online, asks, callbacks, world, wire, told, abandoned, used, bounds>>
  BY DEF vars, services
<1>2. Shape'
  BY <1>1, SameBounds DEF IInv, Shape, SteamShape
<1>3. ASSUME NEW q \in Peers PROVE Fits(q)'
  BY <1>1, SameBounds DEF IInv, Fits, Listed, Answered
<1>4. \A q \in Peers' : Fits(q)'
  BY <1>1, <1>3, SameBounds
<1> QED
  BY <1>2, <1>4 DEF IInv

\* The inductive invariant.
THEOREM InvariantHolds == Spec => []IInv
<1>1. IInv /\ [Next]_vars => IInv'
  BY NextMoves, Stutters
<1> QED
  BY InitFits, <1>1, PTL DEF Spec

\* The variables have their types, and only a host has seats.
THEOREM TypesHold == Spec => []TypeOK
<1>1. IInv => TypeOK
  <2> SUFFICES ASSUME IInv PROVE TypeOK
    OBVIOUS
  <2>1. bounds \in Instances /\ online \subseteq Peers /\ abandoned \subseteq Peers /\ wire \subseteq Packets
    BY DEF IInv, Shape, SteamShape
  <2>2. ASSUME NEW p \in Peers
        PROVE  /\ world[p].entity \in Entities(Lobbies, Peers)
               /\ {world[p].current, world[p].entity.id} \subseteq {None} \cup Lobbies
               /\ world[p].believes \in {None} \cup Peers
               /\ ~Hosts(world[p]) => world[p].seats = <<>>
               /\ told[p] \in Nat
    <3>1. world[p] \in Worlds /\ told[p] \in Nat /\ Whole(world[p])
      BY DEF IInv, Shape, Fits
    <3>2. world[p].entity \in Entities(Lobbies, Peers) /\ world[p].entity.id \in {None} \cup Lobbies
      BY <3>1 DEF Worlds, Entity, Entities
    <3> QED
      BY <3>1, <3>2 DEF Worlds, Whole, Hosts
  <2>3. \A pk \in wire : {pk.from, pk.to} \subseteq Peers
    BY <2>1 DEF Packets
  <2> QED
    BY <2>1, <2>2, <2>3 DEF TypeOK
<1> QED
  BY InvariantHolds, <1>1, PTL

\* Whoever is a member of a Steam lobby holds it or is about to read that it
\* entered it: no departure, kick or failure leaves a peer listed in a session it
\* is not in, unless its game gave a request up (forget_lobby, lib.rs:1311-1339).
THEOREM MembersAreListed == Spec => []ListedWhereItIs
<1>1. IInv => ListedWhereItIs
  <2> SUFFICES ASSUME IInv, NEW l \in Lobbies, NEW p \in (steam[l].members \cap online) \ abandoned
               PROVE  \/ world[p].entity.id = l
                      \/ \E c \in ToSet(callbacks[p]) : c.kind \in {"created", "enter"} /\ c.id = l
    BY DEF ListedWhereItIs
  <2>1. p \in Peers
    BY DEF IInv, Shape
  <2>2. world[p].entity.id = l \/ Answered(p, l)
    BY <2>1 DEF IInv, Fits, Listed
  <2> QED
    BY <2>2 DEF Answered, IsAnswer, ToSet
<1> QED
  BY InvariantHolds, <1>1, PTL

\* HostUuid and CurrentSteamLobby are those of the lobby entity, through every
\* promotion, pin and departure, and neither outlives it.
THEOREM TrustIsTheLobbys == Spec => []TrustGoesWithTheLobby
<1>1. IInv => TrustGoesWithTheLobby
  BY DEF IInv, Fits, Trusts, TrustGoesWithTheLobby, Hosts, IsClient
<1> QED
  BY InvariantHolds, <1>1, PTL

\* What a game is told, its lobby goes with.
LEMMA SaidAsItGoes ==
  ASSUME IInv, NEW p \in Peers, Moves(p), p \notin abandoned'
  PROVE  LET was == world[p].entity
             is == world'[p].entity
         IN /\ told'[p] >= 1 => was.stage # "none" /\ is.stage = "none"
            /\ was.stage \in {"client", "host"} /\ is.stage = "none" => told'[p] >= 1
            /\ told'[p] >= 2 => told'[p] = 2 /\ \E n \in News(p) : Leaves(p, n)
<1>1. CASE world'[p].entity.stage = world[p].entity.stage /\ told'[p] = 0
  BY <1>1
<1>2. CASE /\ world[p].entity.stage = "none" /\ world'[p].entity.stage \in {"requested", "joining"}
           /\ told'[p] = 0
  BY <1>2
<1>3. CASE \E w \in Works : /\ world'[p] = Held(w) /\ told'[p] = w.words
                            /\ p \notin abandoned' => Turns(Working(p), w) \/ Again(p, w)
  <2>1. PICK w \in Works : /\ world'[p] = Held(w) /\ told'[p] = w.words
                           /\ Turns(Working(p), w) \/ Again(p, w)
    BY <1>3
  <2>2. Working(p).words = 0 /\ Working(p).entity = world[p].entity
    BY Begins DEF IInv
  <2>3. world'[p].entity = w.entity
    BY <2>1, HeldIs
  <2> QED
    BY <2>1, <2>2, <2>3 DEF Turns, Open, Again, Twice
<1> QED
  BY <1>1, <1>2, <1>3 DEF Moves

\* A session that opened and is over says so in the frame its lobby goes, and no
\* game is told of an end otherwise: whichever of Steam, the core and the game
\* ends it, in whatever order within a frame; and once, unless the game asks to
\* leave in the frame in which somebody else ends it (session.rs:138-150).
THEOREM EndsAreTold == Spec => OverIsTold
<1> DEFINE Said ==
      \A p \in Peers \ abandoned' :
        LET was == world[p].entity
            is == world'[p].entity
        IN /\ told'[p] >= 1 => was.stage # "none" /\ is.stage = "none"
           /\ was.stage \in {"client", "host"} /\ is.stage = "none" => told'[p] >= 1
           /\ told'[p] >= 2 => told'[p] = 2 /\ \E n \in News(p) : Leaves(p, n)
<1>1. IInv /\ [Next]_vars => [Said]_vars
  BY NextMoves, SaidAsItGoes
<1> QED
  BY InvariantHolds, <1>1, PTL DEF Spec, OverIsTold

------------------------------------------------------------------------------
\* Nobody is stuck

\* The lobby is the same or none.
Tame(v, w) == w.entity.id \in {None, v.entity.id}

\* Whoever keeps its entity, or has none, has the same lobby or none.
LEMMA SameIsTame ==
  ASSUME NEW v, NEW w, w.entity \in {v.entity, NoEntity}
  PROVE  Tame(v, w)
BY DEF Tame, NoEntity, None

\* A session that ends leaves none.
LEMMA EndedTame ==
  ASSUME NEW v \in Works
  PROVE  Tame(v, Ended(v)) /\ Tame(v, Despawn(v)) /\ Tame(v, tear_down_client_lobby(v))
<1>1. Ended(v).entity = NoEntity /\ Despawn(v).entity = NoEntity
  BY EndedIs, DespawnIs
<1>2. tear_down_client_lobby(v) = v \/ tear_down_client_lobby(v) = Ended(v)
  BY DEF tear_down_client_lobby
<1>3. tear_down_client_lobby(v).entity \in {v.entity, NoEntity}
  BY <1>1, <1>2
<1> QED
  BY <1>1, <1>3, SameIsTame

\* A host that is lost is that of the same lobby.
LEMMA HostLostTame ==
  ASSUME NEW v \in Works
  PROVE  Tame(v, HostLost(v))
<1>1. Tame(v, v) /\ Tame(v, Ended(v))
  BY SameIsTame, EndedTame
<1>2. CASE HostLost(v) = [v EXCEPT !.entity.waits = "successor"]
  <2> DEFINE e == [v.entity EXCEPT !.waits = "successor"]
  <2>1. e.id = v.entity.id
    BY WorkFields DEF Entity, Entities
  <2>2. [v EXCEPT !.entity.waits = "successor"] = [v EXCEPT !.entity = e]
    OBVIOUS
  <2> HIDE DEF e
  <2>3. [v EXCEPT !.entity = e].entity = e
    BY DEF Works
  <2> QED
    BY <1>2, <2>1, <2>2, <2>3 DEF Tame
<1> QED
  BY <1>1, <1>2 DEF HostLost

\* Whatever is carried out keeps the lobby.
LEMMA CarriedTame ==
  ASSUME NEW v \in Works, NEW o, o.do \in Orders
  PROVE  Tame(v, CarriedOut(v, o))
<1>1. Tame(v, v) /\ Tame(v, HostLost(v)) /\ Tame(v, tear_down_client_lobby(v))
  BY SameIsTame, HostLostTame, EndedTame
<1>2. Tame(v, Seated(v, o.of))
  <2>1. SeatsOnly(v, Seated(v, o.of))
    BY SeatedIs
  <2> QED
    BY <2>1, SameIsTame DEF SeatsOnly
<1>3. Tame(v, [v EXCEPT !.entity.stage = "client"])
  <2> DEFINE e == [v.entity EXCEPT !.stage = "client"]
  <2>1. e.id = v.entity.id
    BY WorkFields DEF Entity, Entities
  <2>2. [v EXCEPT !.entity.stage = "client"] = [v EXCEPT !.entity = e]
    OBVIOUS
  <2> HIDE DEF e
  <2>3. [v EXCEPT !.entity = e].entity = e
    BY DEF Works
  <2> QED
    BY <2>1, <2>2, <2>3 DEF Tame
<1> DEFINE opened == [v EXCEPT !.entity.stage = "client"]
<1>4. CarriedOut(v, o) \in {v, Seated(v, o.of), opened, tear_down_client_lobby(v), HostLost(v)}
  BY DEF CarriedOut, Orders
<1> HIDE DEF opened
<1>5. Tame(v, opened)
  BY <1>3 DEF opened
<1> QED
  BY <1>1, <1>2, <1>4, <1>5

\* follow_lobby_owner keeps the lobby.
LEMMA FollowTame ==
  ASSUME NEW u, NEW v \in Works
  PROVE  Tame(v, follow_lobby_owner(u, v))
<1>1. Tame(v, tear_down_client_lobby(v)) /\ Tame(v, Ended(v)) /\ Tame(v, v)
  BY EndedTame, SameIsTame
<1>2. v.entity \in Entity
  BY WorkFields
<1>3. Tame(v, Promoted(u, v))
  <2> DEFINE others == {x \in lobby_members(v.me, u.entity.id) \ {u.entity.pin, v.me} : SeatOf(u, x) = {}}
             ordered == SetToSeq(others)
             s == v.seats \o [i \in DOMAIN ordered |-> NewSeat(ordered[i])]
             e == [v.entity EXCEPT !.stage = "host", !.pin = None, !.waits = "no"]
  <2>1. Promoted(u, v) = [v EXCEPT !.entity = e, !.believes = v.me, !.seats = s]
    BY DEF Promoted
  <2>2. e.id = v.entity.id
    BY <1>2 DEF Entity, Entities
  <2> HIDE DEF e, s
  <2>3. [v EXCEPT !.entity = e, !.believes = v.me, !.seats = s].entity = e
    BY DEF Works
  <2> QED
    BY <2>1, <2>2, <2>3 DEF Tame
<1>4. ASSUME NEW q PROVE Tame(v, Following(v, q))
  <2> DEFINE x == IF v.entity.stage = "pending" THEN v.entity.waits ELSE "named"
             e == [v.entity EXCEPT !.pin = q, !.waits = x]
  <2>1. Following(v, q) = [v EXCEPT !.entity = e, !.believes = q]
    BY DEF Following
  <2>2. e.id = v.entity.id
    BY <1>2 DEF Entity, Entities
  <2> HIDE DEF e
  <2>3. [v EXCEPT !.entity = e, !.believes = q].entity = e
    BY DEF Works
  <2> QED
    BY <2>1, <2>2, <2>3 DEF Tame
<1>5. Tame(v, Followed(u, v))
  BY <1>1, <1>3, <1>4 DEF Followed
<1> QED
  BY <1>1, <1>5 DEF follow_lobby_owner

\* So does leave_lobby.
LEMMA LeaveTame ==
  ASSUME NEW u \in Works, NEW v \in Works, NEW b \in BOOLEAN
  PROVE  Tame(v, leave_lobby(u, v, b))
<1>1. leave_lobby(u, v, b) = v \/ leave_lobby(u, v, b) = Despawn(v) \/ leave_lobby(u, v, b) = Ended(v)
  BY StageIs DEF leave_lobby, Stages
<1> QED
  BY <1>1, EndedTame, SameIsTame

\* A callback read leaves the lobby as it is, takes it away, or answers with one.
Told(v, h, c) == Tame(v, h) \/ (IsAnswer(c) /\ h.entity.id = c.id)

\* Whatever keeps the lobby does, whoever is told.
LEMMA TameIsTold ==
  ASSUME NEW v, NEW h, NEW c, Tame(v, h)
  PROVE  Told(v, h, c)
BY DEF Told

\* Each callback that is read is no more than that.
LEMMA HandleTold ==
  ASSUME SteamShape, NEW u \in Works, NEW v \in Works, NEW c \in Callback
  PROVE  Told(v, Handle(u, v, c), c)
<1> DEFINE h == Handle(u, v, c)
<1>0. Tame(v, v) /\ Tame(v, Ended(v)) /\ Tame(v, Despawn(v)) /\ Tame(v, tear_down_client_lobby(v)) /\ Tame(v, HostLost(v))
  BY SameIsTame, EndedTame, HostLostTame
<1>1. CASE c.kind = "created"
  <2>1. h = LobbyCreated(u, v, c) /\ IsAnswer(c)
    BY <1>1 DEF Handle, IsAnswer
  <2>2. CASE ~c.ok /\ u.entity.stage = "requested"
    <3>1. h = Ended(v)
      BY <2>1, <2>2 DEF LobbyCreated, Ended
    <3> HIDE DEF h
    <3> QED
      BY <1>0, <3>1, TameIsTold DEF h
  <2>3. CASE ~c.ok /\ u.entity.stage # "requested"
    <3>1. h = [v EXCEPT !.words = @ + 1]
      BY <2>1, <2>3 DEF LobbyCreated
    <3> HIDE DEF h
    <3>2. h.entity = v.entity
      BY <3>1, OneWord
    <3>3. Told(v, h, c)
      BY <3>2 DEF Told, Tame
    <3> QED
      BY <3>3 DEF h
  <2>4. CASE c.ok
    <3> DEFINE n == [NoEntity EXCEPT !.stage = "host", !.id = c.id]
               e == IF u.entity.stage = "requested" /\ v.entity.stage # "none" THEN n ELSE v.entity
               x == [v EXCEPT !.believes = v.me, !.current = c.id, !.entity = e]
    <3>1. h = x
      BY <2>1, <2>4 DEF LobbyCreated
    <3>2. n.id = c.id
      BY DEF NoEntity
    <3> HIDE DEF n
    <3>3. e = n \/ e = v.entity
      OBVIOUS
    <3> HIDE DEF e
    <3>4. x.entity = e
      BY DEF Works
    <3> HIDE DEF h, x
    <3>5. Told(v, h, c)
      BY <2>1, <3>1, <3>2, <3>3, <3>4 DEF Told, Tame
    <3> QED
      BY <3>5 DEF h
  <2> QED
    BY <2>2, <2>3, <2>4
<1>2. CASE c.kind = "enter"
  <2>1. h = LobbyEnter(u, v, c) /\ IsAnswer(c)
    BY <1>2 DEF Handle, IsAnswer
  <2>2. CASE u.entity.stage # "joining"
    <3>1. h = v
      BY <2>1, <2>2 DEF LobbyEnter
    <3> HIDE DEF h
    <3> QED
      BY <1>0, <3>1, TameIsTold DEF h
  <2>3. CASE u.entity.stage = "joining" /\ ~c.ok
    <3>1. h = Ended(v)
      BY <2>1, <2>3 DEF LobbyEnter, Ended
    <3> HIDE DEF h
    <3> QED
      BY <1>0, <3>1, TameIsTold DEF h
  <2>4. CASE u.entity.stage = "joining" /\ c.ok
    <3> DEFINE owner == lobby_owner(v.me, c.id)
               n == [NoEntity EXCEPT !.stage = "pending", !.id = c.id, !.pin = owner]
               e == IF v.entity.stage = "none" THEN v.entity ELSE n
               x == [v EXCEPT !.believes = owner, !.current = c.id, !.entity = e]
    <3>1. h = x
      BY <2>1, <2>4 DEF LobbyEnter
    <3> HIDE DEF owner
    <3>2. n.id = c.id
      BY DEF NoEntity
    <3> HIDE DEF n
    <3>3. e = n \/ e = v.entity
      OBVIOUS
    <3> HIDE DEF e
    <3>4. x.entity = e
      BY DEF Works
    <3> HIDE DEF h, x
    <3>5. Told(v, h, c)
      BY <2>1, <3>1, <3>2, <3>3, <3>4 DEF Told, Tame
    <3> QED
      BY <3>5 DEF h
  <2> QED
    BY <2>2, <2>3, <2>4
<1>3. CASE ~IsAnswer(c)
  <2>1. c.kind \in {"left", "entered", "failed"} /\ c.who \in Peers
    BY <1>3 DEF Callback, IsAnswer
  <2>2. h \in {v, Unseated(u, v, c.who), ensure_pending(u, v, c.who), tear_down_client_lobby(v), HostLost(v)}
    BY <2>1 DEF Handle, MemberLeft, MemberEntered, SessionFailed
  <2>3. Unseated(u, v, c.who).entity = v.entity /\ ensure_pending(u, v, c.who).entity = v.entity
    <3>1. SeatsOnly(v, Unseated(u, v, c.who)) /\ SeatsOnly(v, ensure_pending(u, v, c.who))
      BY <2>1, UnseatedIs, EnsureIs
    <3> QED
      BY <3>1 DEF SeatsOnly
  <2>4. Tame(v, Unseated(u, v, c.who)) /\ Tame(v, ensure_pending(u, v, c.who))
    BY <2>3, SameIsTame
  <2>5. Tame(v, h)
    <3> HIDE DEF h
    <3> QED BY <1>0, <2>2, <2>4
  <2> HIDE DEF h
  <2> QED
    BY <2>5, TameIsTold DEF h
<1> QED
  BY <1>1, <1>2, <1>3 DEF IsAnswer

\* An order that is carried out, or not, keeps the lobby.
LEMMA StretchTame ==
  ASSUME NEW v \in Works, NEW o, o.do \in Orders, NEW first
  PROVE  Tame(v, Before(o, first, v)) /\ Tame(v, Behind(o, first, v))
BY CarriedTame, SameIsTame DEF Before, Behind

\* A batch keeps the lobby, gives it up, or has read the answer that names it.
LEMMA ReactTame ==
  ASSUME SteamShape, NEW u \in Works, Whole(u), Calls(u.me), NEW b \in Works, Reads(u, b), Tame(u, b)
  PROVE  LET w == react_to_events(u, b)
         IN w.entity.id \in {None, u.entity.id} \/ Answered(u.me, w.entity.id)
<1> DEFINE Known(v) == v.entity.id \in {None, u.entity.id} \/ Answered(u.me, v.entity.id)
           S == {v \in Works : Reads(u, v) /\ Known(v)}
           r == react_to_events(u, b)
<1>1. callbacks[u.me] \in Seq(Callback) /\ \A i \in 1..Len(callbacks[u.me]) : Right(callbacks[u.me][i])
  BY DEF Calls
<1>2. b \in S
  BY DEF Tame
<1>3. ASSUME NEW v \in S, NEW i \in 1..Len(callbacks[u.me])
      PROVE  Handle(u, v, callbacks[u.me][i]) \in S
  <2> DEFINE c == callbacks[u.me][i]
             h == Handle(u, v, c)
  <2>1. c \in Callback /\ Right(c) /\ i \in DOMAIN callbacks[u.me]
    BY <1>1
  <2>2. v \in Works /\ Reads(u, v) /\ Known(v)
    OBVIOUS
  <2>3. Reads(u, h) /\ Told(v, h, c)
    <3> HIDE DEF S, Known, c
    <3> QED BY <2>1, <2>2, HandleReads, HandleTold
  <2>4. IsAnswer(c) => Answered(u.me, c.id)
    BY <2>1 DEF Answered
  <2> HIDE DEF h, c
  <2>5. Known(h)
    BY <2>2, <2>3, <2>4 DEF Told, Tame
  <2> HIDE DEF Known
  <2>6. h \in S
    BY <2>3, <2>5 DEF Reads
  <2> QED
    BY <2>6 DEF h, c
<1>4. r \in S
  <2> HIDE DEF S
  <2> QED BY <1>1, <1>2, <1>3, ReactWithin
<1> QED
  BY <1>4

\* So does a frame.
LEMMA FrameTame ==
  ASSUME SteamShape, NEW p, NEW n, n.from \in Peers, NEW at, NEW first, NEW b \in BOOLEAN,
         Working(p) \in Works, Whole(Working(p)), Calls(Working(p).me)
  PROVE  LET u == Working(p)
             w == Framed(p, n, b, at, first)
         IN w.entity.id \in {None, u.entity.id} \/ Answered(u.me, w.entity.id)
<1> DEFINE u == Working(p)
           w0 == read_messages(u, n)
<1>1. Goes(u, w0) /\ SeatsOnly(u, w0)
  BY ReadGoes
<1>2. PICK o0, o1, o2 : LET w1 == AfterReact(w0, o0, first)
                            w2 == AfterFollow(w1, o1, first)
                        IN /\ Apt(w0, o0) /\ Apt(w1, o1) /\ Apt(w2, o2)
                           /\ Framed(p, n, b, at, first) = AfterLeave(w2, o2, first, b)
  BY FramedIs
<1> DEFINE w1 == AfterReact(w0, o0, first)
           w2 == AfterFollow(w1, o1, first)
           w == AfterLeave(w2, o2, first, b)
<1>3. Apt(w0, o0) /\ Apt(w1, o1) /\ Apt(w2, o2) /\ Framed(p, n, b, at, first) = w
  BY <1>2
<1> HIDE <1>2 DEF w0
<1>4. w0 \in Works /\ w0.me = u.me /\ w0.entity = u.entity /\ Whole(w0) /\ Calls(w0.me)
  BY <1>1 DEF SeatsOnly, Goes, Lasts, Stays
<1>5. w1 \in Works
  BY <1>3, <1>4, AfterReactAny
<1>6. w1.entity.id \in {None, u.entity.id} \/ Answered(u.me, w1.entity.id)
  <2> DEFINE v == Before(o0, first, w0)
             r == react_to_events(w0, v)
  <2>1. v \in Works /\ Reads(w0, v)
    BY <1>3, <1>4, BeforeReads
  <2>2. Tame(w0, v)
    BY <1>3, <1>4, StretchTame DEF Apt
  <2> HIDE DEF v
  <2>3. Reads(w0, r) /\ (r.entity.id \in {None, w0.entity.id} \/ Answered(w0.me, r.entity.id))
    BY <1>4, <2>1, <2>2, ReactAny, ReactTame
  <2> HIDE DEF r
  <2>4. Tame(r, Behind(o0, first, r))
    BY <1>3, <2>3, StretchTame DEF Apt, Reads
  <2>5. w1 = Behind(o0, first, r)
    BY DEF AfterReact, r, v
  <2> HIDE DEF w1
  <2> QED
    BY <1>4, <2>3, <2>4, <2>5 DEF Tame
<1> HIDE DEF w1
<1>7. w2 \in Works /\ w2.entity.id \in {None, w1.entity.id}
  <2> DEFINE v == Before(o1, first, w1)
             r == follow_lobby_owner(w1, v)
  <2>1. v \in Works /\ Tame(w1, v)
    BY <1>3, <1>5, BeforeIs, StretchTame DEF Apt
  <2> HIDE DEF v
  <2>2. Tame(v, r)
    BY <2>1, FollowTame
  <2>3. r \in Works
    <3>1. /\ v.me = w1.me /\ Goes(w1, v) /\ (Hosts(w1) => Hosts(v))
          /\ IsClient(w1) => IsClient(v) \/ v.entity.stage = "none"
      BY <1>3, <1>5, BeforeIs DEF v
    <3>2. Goes(v, r)
      BY <1>5, <2>1, <3>1, FollowedGoes DEF Goes, Lasts
    <3> HIDE DEF r
    <3> QED
      BY <3>2 DEF Goes, Lasts, Stays
  <2> HIDE DEF r
  <2>4. Tame(r, Behind(o1, first, r))
    BY <1>3, <2>3, StretchTame DEF Apt
  <2>5. w2 \in Works
    BY <1>3, <1>5, AfterFollowGoes
  <2>6. w2 = Behind(o1, first, r)
    BY DEF AfterFollow, r, v
  <2> HIDE DEF w2
  <2> QED
    BY <2>1, <2>2, <2>4, <2>5, <2>6 DEF Tame
<1> HIDE DEF w2
<1>8. w.entity.id \in {None, w2.entity.id}
  <2> DEFINE v == Before(o2, first, w2)
             r == leave_lobby(w2, v, b)
  <2>1. v \in Works /\ Tame(w2, v)
    BY <1>3, <1>7, BeforeIs, StretchTame DEF Apt
  <2> HIDE DEF v
  <2>2. Tame(v, r) /\ Lasts(v, r)
    BY <1>7, <2>1, LeaveTame, LeaveLasts
  <2> HIDE DEF r
  <2>3. Tame(r, Behind(o2, first, r))
    BY <1>3, <2>2, StretchTame DEF Apt, Lasts, Stays
  <2>4. w = Behind(o2, first, r)
    BY DEF AfterLeave, r, v
  <2> HIDE DEF w
  <2> QED
    BY <2>1, <2>2, <2>3, <2>4 DEF Tame
<1> HIDE DEF w
<1> QED
  BY <1>3, <1>6, <1>7, <1>8

\* This peer is told that it has left the lobby.
IsLeft(c, p, l) == c.kind = "left" /\ c.who = p /\ c.id = l
Left(p, l) == \E i \in DOMAIN callbacks[p] : IsLeft(callbacks[p][i], p, l)

\* A client that is told so holds no lobby after the batch.
LEMMA ReactLeft ==
  ASSUME SteamShape, NEW u \in Works, Calls(u.me), IsClient(u),
         \A i \in DOMAIN callbacks[u.me] : ~IsAnswer(callbacks[u.me][i]),
         Left(u.me, u.entity.id), NEW b \in Works, b.me = u.me
  PROVE  LET r == react_to_events(u, b) IN r \in Works /\ r.entity.stage = "none"
<1> DEFINE q == callbacks[u.me]
           n == Len(q)
<1>1. q \in Seq(Callback) /\ n \in Nat /\ DOMAIN q = 1..n
  BY DEF Calls
<1>2. PICK k \in 1..n : IsLeft(q[k], u.me, u.entity.id)
  BY <1>1 DEF Left
<1>3. ~Hosts(u)
  BY StageIs
<1>4. ASSUME NEW v \in Works, NEW i \in 1..n PROVE Goes(v, Handle(u, v, q[i]))
  <2>1. q[i] \in Callback /\ ~IsAnswer(q[i])
    BY <1>1
  <2> HIDE DEF q, n
  <2> QED
    BY <1>3, <2>1, OtherNews
<1> DEFINE Mine == {v \in Works : v.me = u.me}
           Over == {v \in Mine : v.entity.stage = "none"}
           J == [i \in 0..n |-> IF i < k THEN Mine ELSE Over]
<1>5. J \in [0..n -> SUBSET Mine] /\ b \in J[0] /\ J[n] = Over
  <2>1. b \in Mine
    OBVIOUS
  <2> HIDE DEF q, n, Mine
  <2>2. 0 < k /\ ~(n < k) /\ 0 \in 0..n /\ n \in 0..n
    BY <1>1
  <2> QED
    BY <2>1, <2>2
<1>6. ASSUME NEW i \in 1..n, NEW v \in J[i - 1] PROVE Handle(u, v, q[i]) \in J[i]
  <2> DEFINE h == Handle(u, v, q[i])
  <2>1. J[i - 1] = (IF i - 1 < k THEN Mine ELSE Over) /\ J[i] = (IF i < k THEN Mine ELSE Over)
    <3> HIDE DEF q, n, Mine, Over
    <3>1. i - 1 \in 0..n /\ i \in 0..n
      BY <1>1
    <3> QED
      BY <3>1
  <2> HIDE DEF J
  <2>2. v \in Mine /\ (i - 1 >= k => v \in Over)
    <3>1. Over \subseteq Mine
      OBVIOUS
    <3> HIDE DEF q, n, Mine, Over
    <3> QED BY <1>1, <1>6, <2>1, <3>1
  <2>3. h \in Works /\ h.me = v.me /\ (v.entity.stage = "none" => h.entity.stage = "none")
    BY <1>4, <2>2 DEF Goes, Lasts, Stays
  <2>4. i = k => h.entity.stage = "none"
    <3> SUFFICES ASSUME i = k PROVE h.entity.stage = "none"
      OBVIOUS
    <3>1. q[i].kind = "left" /\ q[i].who = v.me /\ q[i].id = u.entity.id
      BY <1>2, <2>2 DEF IsLeft
    <3>2. h = MemberLeft(u, v, q[i])
      BY <3>1 DEF Handle
    <3>3. h = tear_down_client_lobby(v)
      BY <3>1, <3>2 DEF MemberLeft
    <3>4. Ended(v).entity.stage = "none"
      BY <2>2, EndedIs DEF NoEntity
    <3> HIDE DEF h
    <3> QED
      BY <3>3, <3>4 DEF tear_down_client_lobby
  <2> HIDE DEF h
  <2>5. i < k \/ i = k \/ i - 1 >= k
    <3> HIDE DEF q, n
    <3> QED BY <1>1
  <2>6. h \in Mine /\ (i = k \/ i - 1 >= k => h \in Over)
    BY <2>2, <2>3, <2>4
  <2> HIDE DEF Mine, Over
  <2>7. h \in J[i]
    BY <2>1, <2>5, <2>6
  <2> QED
    BY <2>7 DEF h
<1> DEFINE r == react_to_events(u, b)
<1>7. r \in Over
  <2>1. b \in Mine /\ \A v \in Mine, i \in 1..n : Handle(u, v, q[i]) \in Mine
    BY <1>4 DEF Goes, Lasts, Stays
  <2> HIDE DEF J, Over, Mine
  <2> QED
    BY <1>1, <1>5, <1>6, <2>1, ReactAlong
<1> QED
  BY <1>7

\* Nor after the frame.
LEMMA FrameLeft ==
  ASSUME SteamShape, NEW p, NEW n, n.from \in Peers, NEW at, NEW first, NEW b \in BOOLEAN,
         Working(p) \in Works, Calls(Working(p).me), IsClient(Working(p)),
         \A i \in DOMAIN callbacks[Working(p).me] : ~IsAnswer(callbacks[Working(p).me][i]),
         Left(Working(p).me, Working(p).entity.id)
  PROVE  Framed(p, n, b, at, first).entity.stage = "none"
<1> DEFINE u == Working(p)
<1>1. read_messages(u, n) = u
  BY ReadGoes, StageIs
<1>2. PICK o0, o1, o2 : LET w0 == read_messages(u, n)
                            w1 == AfterReact(w0, o0, first)
                            w2 == AfterFollow(w1, o1, first)
                        IN /\ Apt(w0, o0) /\ Apt(w1, o1) /\ Apt(w2, o2)
                           /\ Framed(p, n, b, at, first) = AfterLeave(w2, o2, first, b)
  BY FramedIs
<1> DEFINE w0 == read_messages(u, n)
           w1 == AfterReact(w0, o0, first)
           w2 == AfterFollow(w1, o1, first)
           w == AfterLeave(w2, o2, first, b)
<1>3. Apt(w0, o0) /\ Apt(w1, o1) /\ Apt(w2, o2) /\ Framed(p, n, b, at, first) = w /\ w0 = u
  BY <1>1, <1>2
<1> HIDE <1>2 DEF w0
<1>4. w1 \in Works /\ w1.entity.stage = "none"
  <2> DEFINE v == Before(o0, first, w0)
             r == react_to_events(w0, v)
  <2>1. v \in Works /\ v.me = u.me
    BY <1>3, BeforeIs
  <2> HIDE DEF v
  <2>2. r \in Works /\ r.entity.stage = "none"
    BY <1>3, <2>1, ReactLeft
  <2> HIDE DEF r
  <2>3. Behind(o0, first, r) \in Works /\ Goes(r, Behind(o0, first, r))
    BY <1>3, <2>2, BehindIs DEF Apt
  <2>4. w1 = Behind(o0, first, r)
    BY DEF AfterReact, r, v
  <2> HIDE DEF w1
  <2> QED
    BY <2>2, <2>3, <2>4 DEF Goes, Lasts, Stays
<1> HIDE DEF w1
<1>5. w2 \in Works /\ Goes(w1, w2)
  BY <1>3, <1>4, AfterFollowGoes
<1> HIDE DEF w2
<1>6. Lasts(w2, w)
  BY <1>3, <1>5, AfterLeaveGoes
<1> HIDE DEF w
<1> QED
  BY <1>3, <1>4, <1>5, <1>6 DEF Goes, Lasts, Stays

\* A lobby that has members is owned by one of them, and they know each other.
Owned(l) ==
  /\ steam[l].members = {} => steam[l].owner = None
  /\ steam[l].members # {} => steam[l].owner \in steam[l].members /\ l <= used.lobbies
  /\ \A p \in steam[l].members : seen[p][l].members = steam[l].members
\* Whoever holds a lobby on Steam that does not list it will hear of that: a host
\* from its cache, unless the lobby is empty, and a client from a callback.
Returned(p, l) ==
  p \in online /\ p \notin steam[l].members =>
    \/ Hosts(world[p]) /\ (steam[l].members = {} \/ seen[p][l].owner \notin {None, p})
    \/ ~Hosts(world[p]) /\ Left(p, l)
Belongs(p) ==
  /\ \A l \in Lobbies : Answered(p, l) => l <= used.lobbies /\ (p \in online => p \in steam[l].members)
  /\ world[p].entity.id # None => world[p].entity.id <= used.lobbies /\ Returned(p, world[p].entity.id)
StayInv == abandoned = {} => (\A l \in Lobbies : Owned(l)) /\ \A p \in Peers : Belongs(p)

\* A step to which nobody is stuck.
LEMMA StayOn ==
  ASSUME UNCHANGED bounds, \A l \in Lobbies : Owned(l)', \A p \in Peers : Belongs(p)'
  PROVE  StayInv'
BY SameBounds DEF StayInv

\* A lobby whose members and owner stay is owned as before.
LEMMA OwnedOn ==
  ASSUME Shape, Shape', UNCHANGED bounds, used.lobbies <= used'.lobbies, NEW l \in Lobbies, Owned(l),
         steam'[l].members = steam[l].members, steam'[l].owner = steam[l].owner,
         \A p \in Peers : seen'[p][l].members = seen[p][l].members
  PROVE  Owned(l)'
<1>1. steam[l].members \subseteq Peers /\ l \in Nat /\ used.lobbies \in Nat /\ used'.lobbies \in Nat
  BY SameBounds, PeersFinite DEF Shape, SteamShape, Lobbies, Counts
<1>2. l <= used.lobbies => l <= used'.lobbies
  BY <1>1
<1> QED
  BY <1>1, <1>2 DEF Owned

\* News of others is neither an answer nor unheard.
LEMMA HearsOnly ==
  ASSUME NEW q, NEW calls, calls[q] \in Seq(Callback), Hears(q, calls)
  PROVE  /\ \A i \in DOMAIN callbacks'[q] : IsAnswer(callbacks'[q][i]) => i \in DOMAIN calls[q] /\ calls[q][i] = callbacks'[q][i]
         /\ \A i \in DOMAIN calls[q] : i \in DOMAIN callbacks'[q] /\ callbacks'[q][i] = calls[q][i]
<1>1. CASE callbacks'[q] = calls[q]
  BY <1>1
<1>2. CASE \E c \in Callback : ~IsAnswer(c) /\ callbacks'[q] = Append(calls[q], c)
  <2>1. PICK c \in Callback : ~IsAnswer(c) /\ callbacks'[q] = Append(calls[q], c)
    BY <1>2
  <2> DEFINE s == calls[q]
  <2>2. s \in Seq(Callback) /\ callbacks'[q] = Append(s, c)
    BY <2>1
  <2> HIDE DEF s
  <2>3. /\ \A i \in DOMAIN s : i \in DOMAIN Append(s, c) /\ Append(s, c)[i] = s[i]
        /\ \A i \in DOMAIN Append(s, c) : (i \in DOMAIN s /\ Append(s, c)[i] = s[i]) \/ Append(s, c)[i] = c
    BY <2>2
  <2>4. \A i \in DOMAIN Append(s, c) : IsAnswer(Append(s, c)[i]) => i \in DOMAIN s /\ s[i] = Append(s, c)[i]
    BY <2>1, <2>3
  <2> QED
    BY <2>2, <2>3, <2>4 DEF s
<1> QED
  BY <1>1, <1>2 DEF Hears

\* Whose stay a step does not touch.
Looks(q) ==
  world'[q].entity.id = world[q].entity.id /\ (Hosts(world'[q]) <=> Hosts(world[q]))
Apart(q, m) ==
  /\ q \in steam[m].members => q \in steam'[m].members
  /\ m <= used.lobbies /\ steam[m].members = {} => steam'[m].members = {}
  /\ seen'[q][m].owner = seen[q][m].owner \/ q \in steam'[m].members
Heard(q) ==
  /\ \A m \in Lobbies : Answered(q, m)' => Answered(q, m)
  /\ \A m \in Lobbies : Left(q, m) => Left(q, m)'

\* Hearing of others is that.
LEMMA HearsIsHeard ==
  ASSUME Shape, NEW q \in Peers, Hears(q, callbacks)
  PROVE  Heard(q)
<1>1. callbacks[q] \in Seq(Callback)
  BY DEF Shape
<1>2. /\ \A i \in DOMAIN callbacks'[q] : IsAnswer(callbacks'[q][i]) => i \in DOMAIN callbacks[q] /\ callbacks[q][i] = callbacks'[q][i]
      /\ \A i \in DOMAIN callbacks[q] : i \in DOMAIN callbacks'[q] /\ callbacks'[q][i] = callbacks[q][i]
  BY <1>1, HearsOnly
<1>3. \A m \in Lobbies : Answered(q, m)' => Answered(q, m)
  BY <1>2 DEF Answered
<1>4. \A m \in Lobbies : Left(q, m) => Left(q, m)'
  BY <1>2 DEF Left
<1> QED
  BY <1>3, <1>4 DEF Heard

\* So it belongs as before.
LEMMA BelongsOn ==
  ASSUME Shape, Shape', UNCHANGED bounds, used.lobbies <= used'.lobbies, NEW q \in Peers, Belongs(q),
         Looks(q), Heard(q), q \in online' => q \in online /\ \A m \in Lobbies : Apart(q, m)
  PROVE  Belongs(q)'
<1>1. /\ \A l \in Lobbies : l \in Nat /\ l # None
      /\ used.lobbies \in Nat /\ used'.lobbies \in Nat /\ world[q].entity.id \in {None} \cup Lobbies
      /\ \A l \in Lobbies : l <= used.lobbies => l <= used'.lobbies
  <2>1. \A l \in Lobbies : l \in Nat /\ l # None
    BY PeersFinite DEF Shape, SteamShape, Lobbies, None
  <2>2. used.lobbies \in Nat /\ used'.lobbies \in Nat
    BY SameBounds, PeersFinite DEF Shape, SteamShape, Lobbies, Counts
  <2>3. world[q].entity.id \in {None} \cup Lobbies
    BY DEF Shape, Worlds, Entity, Entities
  <2> QED
    BY <2>1, <2>2, <2>3
<1>2. \A l \in Lobbies : Answered(q, l)' => l <= used'.lobbies /\ (q \in online' => q \in steam'[l].members)
  BY <1>1 DEF Belongs, Heard, Apart
<1>3. ASSUME world'[q].entity.id # None
      PROVE  world'[q].entity.id <= used'.lobbies /\ Returned(q, world[q].entity.id)'
  <2>1. PICK l \in Lobbies : l = world[q].entity.id /\ world'[q].entity.id = l
    BY <1>1, <1>3 DEF Looks
  <2>2. l <= used.lobbies /\ Returned(q, l)
    BY <1>3, <2>1 DEF Belongs, Looks
  <2>3. ASSUME q \in online', q \notin steam'[l].members
        PROVE  \/ Hosts(world'[q]) /\ (steam'[l].members = {} \/ seen'[q][l].owner \notin {None, q})
               \/ ~Hosts(world'[q]) /\ Left(q, l)'
    <3>1. Apart(q, l) /\ q \in online
      BY <2>3
    <3>2. q \notin steam[l].members /\ seen'[q][l].owner = seen[q][l].owner
      BY <2>3, <3>1 DEF Apart
    <3>3. CASE Hosts(world[q]) /\ (steam[l].members = {} \/ seen[q][l].owner \notin {None, q})
      BY <2>2, <3>1, <3>2, <3>3 DEF Apart, Looks
    <3>4. CASE ~Hosts(world[q]) /\ Left(q, l)
      BY <3>4 DEF Looks, Heard
    <3> QED
      BY <2>2, <3>1, <3>2, <3>3, <3>4 DEF Returned
  <2>4. Returned(q, l)'
    BY <2>3 DEF Returned
  <2> QED
    BY <1>1, <2>1, <2>2, <2>4
<1> QED
  BY <1>2, <1>3, SameBounds DEF Belongs

\* What the caches hold when they learn who the members are.
LEMMA CachesAre ==
  ASSUME Shape, NEW l \in Lobbies, NEW ms \in SUBSET Peers, NEW q \in Peers, NEW m \in Lobbies
  PROVE  /\ Members(l, ms)[q][m].owner = seen[q][m].owner
         /\ m # l => Members(l, ms)[q][m] = seen[q][m]
         /\ q \in steam[l].members \cap online => Members(l, ms)[q][l].members = ms
<1>1. seen[q] \in [Lobbies -> SeenOf] /\ seen[q][l] \in SeenOf
  BY DEF Shape, SteamShape, SeenOf
<1> DEFINE x == [seen[q][l] EXCEPT !.members = ms, !.closed = steam[l].closed]
           f == [seen[q] EXCEPT ![l] = x]
<1>2. x.members = ms /\ x.owner = seen[q][l].owner
  BY <1>1 DEF SeenOf
<1>3. [seen[q] EXCEPT ![l].members = ms, ![l].closed = steam[l].closed] = f
  BY <1>1
<1> HIDE DEF x
<1>4. f[l] = x /\ (m # l => f[m] = seen[q][m])
  BY <1>1
<1> HIDE DEF f
<1>5. Members(l, ms)[q] = IF q \in Others(None, l) THEN f ELSE seen[q]
  BY <1>3 DEF Members
<1>6. q \in steam[l].members \cap online => q \in Others(None, l)
  <2>1. q # None
    BY DEF Peers, None
  <2> QED
    BY <2>1 DEF Others
<1> HIDE DEF Members
<1> QED
  BY <1>2, <1>4, <1>5, <1>6

\* Whoever departs leaves a lobby that is owned, and nobody else is touched.
LEMMA DepartsKeeps ==
  ASSUME IInv, abandoned = {}, UNCHANGED bounds, used'.lobbies = used.lobbies, NEW p \in Peers, NEW l \in Lobbies,
         NEW mine \in SeenOf, NEW calls \in [Peers -> Seq(Callback)], Departs(p, l, mine, calls),
         p \in steam[l].members, \A m \in Lobbies : Owned(m)
  PROVE  /\ \A m \in Lobbies : Owned(m)'
         /\ \A q \in Peers : q # p => \A m \in Lobbies : Apart(q, m)
<1> DEFINE left == steam[l].members \ {p}
           Lobby == [members : SUBSET Peers, owner : {None} \cup Peers, closed : BOOLEAN]
<1>1. /\ steam \in [Lobbies -> Lobby] /\ steam[l] \in Lobby /\ left \in SUBSET Peers
      /\ seen \in [Peers -> [Lobbies -> SeenOf]] /\ Shape
  BY DEF IInv, Shape, SteamShape, SeenOf
<1>2. PICK heir \in IF steam[l].owner # p THEN {steam[l].owner} ELSE IF left = {} THEN {None} ELSE left :
        /\ steam' = [steam EXCEPT ![l].members = left, ![l].owner = heir]
        /\ seen' = [Members(l, left) EXCEPT ![p][l] = mine]
  BY DEF Departs
<1>3. IF left = {} THEN heir = None ELSE heir \in left
  BY <1>1, <1>2 DEF Owned
<1>4. /\ steam'[l].members = left /\ steam'[l].owner = heir
      /\ \A m \in Lobbies : m # l => steam'[m] = steam[m]
  <2> DEFINE x == [steam[l] EXCEPT !.members = left, !.owner = heir]
  <2>1. steam' = [steam EXCEPT ![l] = x]
    BY <1>1, <1>2
  <2>2. x.members = left /\ x.owner = heir
    BY <1>1
  <2> HIDE DEF x, Lobby, left
  <2> QED
    BY <1>1, <2>1, <2>2
<1> DEFINE f == Members(l, left)
<1>5. f \in [Peers -> [Lobbies -> SeenOf]]
  BY <1>1, CachesHear
<1>6. \A q \in Peers : \A m \in Lobbies : q # p \/ m # l => seen'[q][m] = f[q][m]
  <2> DEFINE x == [f[p] EXCEPT ![l] = mine]
  <2>1. seen' = [f EXCEPT ![p] = x]
    BY <1>2
  <2> HIDE DEF f
  <2>2. \A m \in Lobbies : m # l => x[m] = f[p][m]
    BY <1>5
  <2> HIDE DEF x
  <2> QED
    BY <1>5, <2>1, <2>2
<1>7. ASSUME NEW q \in Peers, NEW m \in Lobbies
      PROVE  /\ f[q][m].owner = seen[q][m].owner /\ (m # l => f[q][m] = seen[q][m])
             /\ q \in steam[l].members => f[q][l].members = left
  <2>1. q \in steam[l].members => q \in online
    BY DEF IInv, Fits, Listed
  <2> HIDE DEF left
  <2> QED
    BY <1>1, <2>1, CachesAre
<1> HIDE DEF f
<1>8. ASSUME NEW m \in Lobbies PROVE Owned(m)'
  <2>1. CASE m # l
    <3>1. steam'[m] = steam[m] /\ \A q \in Peers : seen'[q][m] = seen[q][m]
      BY <1>4, <1>6, <1>7, <2>1
    <3>2. steam[m].members \subseteq Peers
      BY <1>1
    <3> QED
      BY <3>1, <3>2 DEF Owned
  <2>2. CASE m = l
    <3>1. ASSUME NEW q \in left PROVE seen'[q][l].members = left
      <4>1. q \in Peers /\ q \in steam[l].members /\ q # p
        BY <1>1
      <4> HIDE DEF left
      <4> QED
        BY <1>6, <1>7, <4>1
    <3>2. l <= used.lobbies
      BY DEF Owned
    <3> HIDE DEF left
    <3> QED
      BY <1>3, <1>4, <2>2, <3>1, <3>2 DEF Owned
  <2> QED
    BY <2>1, <2>2
<1>9. ASSUME NEW q \in Peers, q # p, NEW m \in Lobbies PROVE Apart(q, m)
  <2>1. seen'[q][m].owner = seen[q][m].owner
    BY <1>6, <1>7, <1>9
  <2>2. CASE m # l
    BY <1>4, <2>1, <2>2 DEF Apart
  <2>3. CASE m = l
    BY <1>4, <1>9, <2>1, <2>3 DEF Apart
  <2> QED
    BY <2>2, <2>3
<1> QED
  BY <1>8, <1>9

\* What a peer's step has come to leaves nobody stuck: whoever holds a lobby after
\* it has left none, and held it before or reads that it entered it.
LEMMA CommitStays ==
  ASSUME IInv, IInv', StayInv, abandoned = {}, NEW p \in Peers, NEW w \in Works, NEW calls \in [Peers -> Seq(Callback)],
         Commit(p, w, calls), used'.lobbies = used.lobbies,
         \A q \in Peers : q # p => calls[q] = callbacks[q],
         w.entity.id \in {None, world[p].entity.id} \/ Answered(p, w.entity.id),
         w.entity.id # None => w.leaves = None /\ (Hosts(world[p]) => Hosts(w)),
         calls[p] = <<>>,
         ~Hosts(world[p]) /\ world[p].entity.id # None /\ w.entity.id # None => ~Left(p, world[p].entity.id)
  PROVE  StayInv'
<1>1. Shape /\ Shape' /\ (\A l \in Lobbies : Owned(l)) /\ \A q \in Peers : Belongs(q)
  BY DEF IInv, StayInv
<1>2. /\ UNCHANGED <<online, bounds>> /\ world'[p] = Held(w)
      /\ \A q \in Peers : q # p => world'[q] = world[q]
      /\ \A q \in Peers : Hears(q, calls)
      /\ callbacks'[p] = calls[p]
  BY <1>1, CommitIs
<1>3. Held(w).entity = w.entity /\ w.leaves \in {None} \cup Lobbies /\ w.entity.id \in {None} \cup Lobbies
  BY HeldIs, WorkFields, StageIs
<1>4. ASSUME NEW q \in Peers, q # p PROVE Looks(q) /\ Heard(q)
  <2>1. Hears(q, callbacks)
    BY <1>2, <1>4 DEF Hears
  <2> QED
    BY <1>1, <1>2, <1>4, <2>1, HearsIsHeard DEF Looks
<1>5. /\ used.lobbies \in Nat /\ used'.lobbies = used.lobbies /\ used.lobbies <= used'.lobbies
      /\ \A l \in Lobbies : l # None
  <2>1. used.lobbies \in Nat /\ \A l \in Lobbies : l # None
    BY <1>1, PeersFinite DEF Shape, SteamShape, Counts, Lobbies, None
  <2> QED
    BY <2>1
<1>6. CASE w.leaves = None \/ p \notin online \/ p \notin steam[w.leaves].members
  <2>1. steam' = steam /\ callbacks' = calls /\ seen' = seen
    BY <1>6 DEF Commit
  <2>2. \A l \in Lobbies : Owned(l)'
    BY <1>1, <1>2, <1>5, <2>1, OwnedOn
  <2>3. ASSUME NEW q \in Peers, q # p PROVE Belongs(q)'
    <3>1. \A m \in Lobbies : Apart(q, m)
      BY <2>1 DEF Apart
    <3> QED
      BY <1>1, <1>2, <1>4, <1>5, <2>3, <3>1, BelongsOn
  <2>4. Belongs(p)'
    <3>1. \A l \in Lobbies : ~Answered(p, l)'
      BY <1>2 DEF Answered
    <3>3. ASSUME NEW l \in Lobbies, w.entity.id = l PROVE l <= used'.lobbies /\ Returned(p, l)'
      <4>1. l # None /\ w.entity.id # None
        BY <1>5, <3>3
      <4>2. CASE Answered(p, l)
        <5>1. l <= used.lobbies /\ (p \in online => p \in steam[l].members)
          BY <1>1, <4>2 DEF Belongs
        <5>2. p \in online' => p \in steam'[l].members
          BY <1>2, <2>1, <5>1
        <5> QED
          BY <1>5, <5>1, <5>2 DEF Returned
      <4>3. CASE world[p].entity.id = l
        <5>1. l <= used.lobbies /\ Returned(p, l)
          BY <1>1, <4>1, <4>3 DEF Belongs
        <5>2. Hosts(world'[p]) <=> Hosts(w)
          BY <1>2, <1>3 DEF Hosts
        <5>3. ASSUME p \in online', p \notin steam'[l].members
              PROVE  \/ Hosts(world'[p]) /\ (steam'[l].members = {} \/ seen'[p][l].owner \notin {None, p})
                     \/ ~Hosts(world'[p]) /\ Left(p, l)'
          <6>1. CASE Hosts(world[p]) /\ (steam[l].members = {} \/ seen[p][l].owner \notin {None, p})
            BY <2>1, <4>1, <5>2, <6>1
          <6>2. ~(~Hosts(world[p]) /\ Left(p, l))
            BY <4>1, <4>3
          <6> QED
            BY <1>2, <2>1, <5>1, <5>3, <6>1, <6>2 DEF Returned
        <5>4. Returned(p, l)'
          BY <5>3 DEF Returned
        <5> QED
          BY <1>5, <5>1, <5>4
      <4> QED
        BY <3>3, <4>1, <4>2, <4>3
    <3>4. world'[p].entity.id = w.entity.id
      BY <1>2, <1>3
    <3> QED
      BY <1>2, <1>3, <3>1, <3>3, <3>4, SameBounds DEF Belongs
  <2> QED
    BY <1>2, <2>2, <2>3, <2>4, StayOn
<1>7. CASE ~(w.leaves = None \/ p \notin online \/ p \notin steam[w.leaves].members)
  <2>1. Departs(p, w.leaves, Nothing, calls) /\ w.leaves \in Lobbies /\ p \in steam[w.leaves].members
    BY <1>3, <1>7 DEF Commit
  <2>2. Nothing \in SeenOf
    BY DEF Nothing, SeenOf
  <2>3. (\A l \in Lobbies : Owned(l)') /\ \A q \in Peers : q # p => \A m \in Lobbies : Apart(q, m)
    BY <1>1, <1>2, <1>5, <2>1, <2>2, DepartsKeeps
  <2>4. ASSUME NEW q \in Peers, q # p PROVE Belongs(q)'
    BY <1>1, <1>2, <1>4, <1>5, <2>3, <2>4, BelongsOn
  <2>5. Belongs(p)'
    <3>1. \A l \in Lobbies : ~Answered(p, l)'
      BY <1>2 DEF Answered
    <3>2. world'[p].entity.id = None
      BY <1>2, <1>3, <1>7
    <3> QED
      BY <1>2, <3>1, <3>2, SameBounds DEF Belongs
  <2> QED
    BY <1>2, <2>3, <2>4, <2>5, StayOn
<1> QED
  BY <1>6, <1>7

\* A frame, with or without a wish to leave in it.
LEMMA UpdateStays ==
  ASSUME IInv, IInv', StayInv, abandoned = {}, NEW p \in Peers, NEW n \in News(p), NEW wanted \in BOOLEAN,
         Update(p, n, wanted), used'.lobbies = used.lobbies
  PROVE  StayInv'
<1> DEFINE u == Working(p)
           e == world[p].entity
           b == wanted \/ e.closing
           calls == [callbacks EXCEPT ![p] = <<>>]
<1>1. /\ u \in Works /\ u.me = p /\ u.leaves = None /\ u.entity = e
      /\ Whole(u) /\ Calls(p) /\ Good(u) /\ Awaits(e.stage, asks[p], callbacks[p])
      /\ Hosts(u) <=> Hosts(world[p])
  BY Begins DEF IInv
<1>2. e.closing \in BOOLEAN /\ b \in BOOLEAN
  <2>1. world[p] \in Worlds
    BY DEF IInv, Shape
  <2> QED
    BY <2>1 DEF Worlds, Entity, Entities
<1>3. PICK s \in Schedules(p, n) : Commit(p, Framed(p, n, b, s[1], s[2]), calls)
  BY DEF Update
<1> DEFINE w == Framed(p, n, b, s[1], s[2])
<1>4. SteamShape /\ n.from \in Peers
  BY NewsIs DEF IInv, Shape
<1> HIDE DEF b, e
<1>5. Brings(u, w)
  BY <1>1, <1>2, <1>4, FrameTrusted
<1>6. w.entity.id \in {None, u.entity.id} \/ Answered(u.me, w.entity.id)
  BY <1>1, <1>2, <1>4, FrameTame
<1>7. ASSUME ~Hosts(u), u.entity.id # None, Left(p, u.entity.id) PROVE w.entity.stage = "none"
  <2>1. u.entity.stage \in InALobby
    BY <1>1, <1>7 DEF Whole
  <2>2. IsClient(u) /\ e.stage \notin {"requested", "joining"}
    BY <1>1, <1>7, <2>1 DEF InALobby, IsClient, Hosts
  <2>3. \A i \in DOMAIN callbacks[p] : ~IsAnswer(callbacks[p][i])
    BY <1>1, <2>2 DEF Awaits
  <2> QED
    BY <1>1, <1>2, <1>4, <1>7, <2>2, <2>3, FrameLeft
<1>8. /\ calls \in [Peers -> Seq(Callback)] /\ calls[p] = <<>>
      /\ \A q \in Peers : q # p => calls[q] = callbacks[q]
  <2>1. callbacks \in [Peers -> Seq(Callback)] /\ <<>> \in Seq(Callback)
    BY DEF IInv, Shape
  <2> QED
    BY <2>1
<1> HIDE DEF calls, w, u
<1>9. w \in Works /\ Whole(w)
  BY <1>5 DEF Brings, Stays, Good
<1>10. ASSUME w.entity.id # None
       PROVE  w.leaves = None /\ (Hosts(world[p]) => Hosts(w))
  <2>1. w.entity.id \in Lobbies /\ w.entity.stage # "none"
    BY <1>9, <1>10, StageIs DEF Whole, InALobby
  <2>2. Keeps(w, w.entity.id)
    BY <1>5, <1>6, <1>10, <2>1 DEF Brings
  <2>3. w.leaves = None
    BY <1>10, <2>2 DEF Keeps
  <2>4. Hosts(u) => u.entity.id # None
    BY <1>1 DEF Whole, InALobby, Hosts
  <2>5. Hosts(u) => Hosts(w)
    BY <1>5, <2>1, <2>4 DEF Brings, Stays
  <2> QED
    BY <1>1, <2>3, <2>5
<1>11. u.entity.id = world[p].entity.id
  BY <1>1 DEF e
<1>12. ~Hosts(world[p]) /\ world[p].entity.id # None /\ w.entity.id # None => ~Left(p, world[p].entity.id)
  <2> SUFFICES ASSUME ~Hosts(world[p]), world[p].entity.id # None, w.entity.id # None, Left(p, world[p].entity.id)
               PROVE  FALSE
    OBVIOUS
  <2>1. w.entity.stage = "none"
    BY <1>1, <1>7, <1>11
  <2> QED
    BY <1>9, <2>1 DEF Whole, InALobby
<1>13. Commit(p, w, calls)
  BY <1>3 DEF w
<1> QED
  BY <1>1, <1>6, <1>8, <1>9, <1>10, <1>11, <1>12, <1>13, CommitStays

\* A step that touches nobody's stay, or some and leaves them where they belong.
Unstuck(q) == Looks(q) /\ Heard(q) /\ (q \in online' => q \in online /\ \A m \in Lobbies : Apart(q, m))
LEMMA StayAll ==
  ASSUME IInv, IInv', StayInv, abandoned = {}, UNCHANGED bounds, used.lobbies <= used'.lobbies,
         \A l \in Lobbies : Owned(l)', \A q \in Peers : Belongs(q)' \/ Unstuck(q)
  PROVE  StayInv'
<1>1. Shape /\ Shape' /\ \A q \in Peers : Belongs(q)
  BY DEF IInv, StayInv
<1>2. \A q \in Peers : Unstuck(q) => Belongs(q)'
  BY <1>1, BelongsOn DEF Unstuck
<1> QED
  BY <1>2, StayOn

\* How many lobbies there are is a number.
LEMMA UsedIs ==
  ASSUME Shape
  PROVE  used.lobbies \in Nat /\ used.lobbies <= used.lobbies
BY PeersFinite DEF Shape, SteamShape, Counts

\* Steam has done nothing, and each peer holds the lobby it held.
LEMMA LooksStay ==
  ASSUME IInv, IInv', StayInv, abandoned = {}, UNCHANGED <<bounds, online, callbacks, seen>>,
         used'.lobbies = used.lobbies, \A q \in Peers : Looks(q),
         \A l \in Lobbies : steam'[l].members = steam[l].members /\ steam'[l].owner = steam[l].owner
  PROVE  StayInv'
<1>1. Shape /\ Shape' /\ (\A l \in Lobbies : Owned(l)) /\ used.lobbies <= used'.lobbies
  BY UsedIs DEF IInv, StayInv
<1>2. \A l \in Lobbies : Owned(l)'
  BY <1>1, OwnedOn
<1>3. ASSUME NEW q \in Peers PROVE Unstuck(q)
  <2>1. Heard(q)
    BY DEF Heard, Answered, Left
  <2>2. \A m \in Lobbies : Apart(q, m)
    BY DEF Apart
  <2> QED
    BY <2>1, <2>2 DEF Unstuck
<1> QED
  BY <1>1, <1>2, <1>3, StayAll

\* An upset is no lobby.
LEMMA SpendsNone ==
  ASSUME Shape, NEW op, Spend(op)
  PROVE  used'.lobbies = used.lobbies
BY DEF Spend, Shape, Counts

\* Only the entity of one peer is another, of the same lobby.
LEMMA EntityStays ==
  ASSUME IInv, IInv', StayInv, abandoned = {}, NEW p \in Peers, NEW e \in Entity, world' = [world EXCEPT ![p].entity = e],
         e.id = world[p].entity.id, e.stage = "host" <=> Hosts(world[p]),
         UNCHANGED <<bounds, online, callbacks, seen>>, used'.lobbies = used.lobbies,
         \A l \in Lobbies : steam'[l].members = steam[l].members /\ steam'[l].owner = steam[l].owner
  PROVE  StayInv'
<1>1. world'[p].entity = e /\ \A q \in Peers : q # p => world'[q] = world[q]
  BY Entering DEF IInv
<1>2. ASSUME NEW q \in Peers PROVE Looks(q)
  <2>1. CASE q # p
    BY <1>1, <2>1 DEF Looks
  <2>2. CASE q = p
    <3>1. Hosts(world'[p]) <=> Hosts(world[p])
      BY <1>1 DEF Hosts
    <3> QED
      BY <1>1, <2>2, <3>1 DEF Looks
  <2> QED
    BY <2>1, <2>2
<1> QED
  BY <1>2, LooksStay

\* A host that closes its lobby, one that is reached, and a game that asks.
LEMMA MarksStay ==
  ASSUME IInv, IInv', StayInv, abandoned = {}, NEW p \in Peers,
         close_lobby(p) \/ Reached(p) \/ create_lobby(p) \/ \E l \in Lobbies : join_requested_lobbies(p, l)
  PROVE  StayInv'
<1>1. world[p].entity \in Entity /\ Shape
  BY DEF IInv, Shape, Worlds
<1>2. CASE close_lobby(p)
  <2> DEFINE e == [world[p].entity EXCEPT !.closing = TRUE]
             l == world[p].entity.id
  <2>1. e \in Entity /\ e.id = world[p].entity.id /\ e.stage = world[p].entity.stage
    BY <1>1 DEF Entity, Entities
  <2>2. world' = [world EXCEPT ![p].entity = e] /\ Hosts(world[p]) /\ UNCHANGED <<bounds, online, callbacks, seen>>
    BY <1>2 DEF close_lobby, Quiet
  <2>3. used'.lobbies = used.lobbies
    BY <1>1, <1>2, SpendsNone DEF close_lobby
  <2>4. ASSUME NEW m \in Lobbies PROVE steam'[m].members = steam[m].members /\ steam'[m].owner = steam[m].owner
    <3> DEFINE Lobby == [members : SUBSET Peers, owner : {None} \cup Peers, closed : BOOLEAN]
               x == [steam[l] EXCEPT !.closed = TRUE]
               f == [steam EXCEPT ![l] = x]
    <3>1. steam' \in {steam, f}
      BY <1>2 DEF close_lobby
    <3>2. steam \in [Lobbies -> Lobby]
      BY <1>1 DEF Shape, SteamShape
    <3>3. l \in Lobbies => x.members = steam[l].members /\ x.owner = steam[l].owner
      BY <3>2
    <3> HIDE DEF x, Lobby, l
    <3>4. f[m] = IF m = l THEN x ELSE steam[m]
      BY <3>2
    <3> HIDE DEF f
    <3> QED
      BY <3>1, <3>3, <3>4
  <2> HIDE DEF e
  <2>5. e.stage = "host" <=> Hosts(world[p])
    BY <2>1 DEF Hosts
  <2> QED
    BY <2>1, <2>2, <2>3, <2>4, <2>5, EntityStays
<1>3. CASE Reached(p)
  <2> DEFINE e == [world[p].entity EXCEPT !.waits = "no"]
  <2>1. e \in Entity /\ e.id = world[p].entity.id /\ e.stage = world[p].entity.stage
    BY <1>1 DEF Entity, Entities
  <2>2. world' = [world EXCEPT ![p].entity = e] /\ UNCHANGED <<bounds, online, callbacks, seen, steam, used>>
    BY <1>3 DEF Reached, Quiet, services
  <2> HIDE DEF e
  <2>3. e.stage = "host" <=> Hosts(world[p])
    BY <2>1 DEF Hosts
  <2> QED
    BY <2>1, <2>2, <2>3, EntityStays
<1>4. CASE create_lobby(p) \/ \E l \in Lobbies : join_requested_lobbies(p, l)
  <2>1. PICK stage \in {"requested", "joining"} : \E ask : Ask(p, stage, ask)
    BY <1>4 DEF create_lobby, join_requested_lobbies
  <2> DEFINE e == [world[p].entity EXCEPT !.stage = stage]
  <2>2. e \in Entity /\ e.id = world[p].entity.id /\ e.stage = stage
    BY <1>1 DEF Entity, Entities, Stages
  <2>3. /\ world' = [world EXCEPT ![p].entity = e] /\ UNCHANGED <<bounds, online, callbacks, seen, steam>>
        /\ world[p].entity.stage = "none" /\ used' = [used EXCEPT !.requests = @ + 1]
    BY <2>1 DEF Ask, Quiet
  <2>4. used'.lobbies = used.lobbies
    BY <1>1, <2>3 DEF Shape, Counts
  <2> HIDE DEF e
  <2>5. e.stage = "host" <=> Hosts(world[p])
    BY <2>2, <2>3 DEF Hosts
  <2> QED
    BY <2>2, <2>3, <2>4, <2>5, EntityStays
<1> QED
  BY <1>2, <1>3, <1>4

\* A player that a game removes, or that is silent.
LEMMA KicksStay ==
  ASSUME IInv, IInv', StayInv, abandoned = {}, NEW p \in Peers, NEW q \in Peers, Kicks(p, q) \/ SeatGoesSilent(p, q)
  PROVE  StayInv'
<1> DEFINE w == Unseated(world[p], Working(p), q)
<1>1. Shape /\ Working(p) \in Works /\ Working(p).seats = world[p].seats /\ Working(p).entity = world[p].entity
  BY Begins DEF IInv
<1>2. w = Unseated(Working(p), Working(p), q)
  BY <1>1 DEF Unseated, SeatOf
<1>3. SeatsOnly(Working(p), w)
  <2> HIDE DEF w
  <2> QED BY <1>1, <1>2, UnseatedIs
<1>4. /\ world' = [world EXCEPT ![p] = Held(w)]
      /\ UNCHANGED <<bounds, steam, seen, online, callbacks>>
  BY DEF Kicks, SeatGoesSilent, services, Quiet
<1>5. used'.lobbies = used.lobbies
  BY <1>1, SpendsNone DEF Kicks, SeatGoesSilent
<1> HIDE DEF w
<1>6. w \in Works /\ w.entity = world[p].entity
  BY <1>1, <1>3 DEF SeatsOnly
<1>7. Held(w).entity = world[p].entity
  BY <1>6, HeldIs
<1> HIDE DEF Held
<1>8. world'[p].entity = world[p].entity /\ \A x \in Peers : x # p => world'[x] = world[x]
  BY <1>1, <1>4, <1>7 DEF Shape
<1>9. \A x \in Peers : Looks(x)
  BY <1>8 DEF Looks, Hosts
<1> QED
  BY <1>4, <1>5, <1>9, LooksStay

\* A cache that hears of an owner, and a messages session that fails.
LEMMA NewsStays ==
  ASSUME IInv, IInv', StayInv, abandoned = {}, NEW p \in Peers,
         (\E l \in Lobbies : SteamTells(p, l)) \/ \E q \in Peers : SessionFails(p, q)
  PROVE  StayInv'
<1>1. Shape /\ Shape' /\ (\A l \in Lobbies : Owned(l)) /\ callbacks \in [Peers -> Seq(Callback)]
  BY DEF IInv, StayInv, Shape
<1>2. CASE \E l \in Lobbies : SteamTells(p, l)
  <2>1. PICK l \in Lobbies : SteamTells(p, l)
    BY <1>2
  <2> DEFINE x == [seen[p][l] EXCEPT !.owner = steam[l].owner, !.closed = steam[l].closed]
             f == [seen[p] EXCEPT ![l] = x]
  <2>2. seen \in [Peers -> [Lobbies -> SeenOf]] /\ seen[p][l] \in SeenOf
    BY <1>1 DEF Shape, SteamShape, SeenOf
  <2>3. x.members = seen[p][l].members
    BY <2>2 DEF SeenOf
  <2>4. seen' = [seen EXCEPT ![p] = f] /\ UNCHANGED <<bounds, online, callbacks, world, steam, used>> /\ p \in steam[l].members
    BY <2>1, <2>2 DEF SteamTells, Quiet
  <2> HIDE DEF x
  <2>5. f[l] = x /\ \A m \in Lobbies : m # l => f[m] = seen[p][m]
    BY <2>2
  <2> HIDE DEF f
  <2>6. seen'[p] = f /\ \A q \in Peers : q # p => seen'[q] = seen[q]
    BY <2>2, <2>4
  <2>7. \A q \in Peers, m \in Lobbies : seen'[q][m].members = seen[q][m].members
    BY <2>3, <2>5, <2>6
  <2>8. used.lobbies <= used'.lobbies
    BY <1>1, <2>4, UsedIs
  <2>9. \A m \in Lobbies : Owned(m)'
    BY <1>1, <2>4, <2>7, <2>8, OwnedOn
  <2>10. ASSUME NEW q \in Peers PROVE Unstuck(q)
    <3>1. Looks(q) /\ Heard(q)
      BY <2>4 DEF Looks, Heard, Answered, Left
    <3>2. ASSUME NEW m \in Lobbies PROVE Apart(q, m)
      <4>1. (q = p /\ m = l) \/ seen'[q][m] = seen[q][m]
        BY <2>5, <2>6
      <4> QED
        BY <2>4, <4>1 DEF Apart
    <3> QED
      BY <2>4, <3>1, <3>2 DEF Unstuck
  <2> QED
    BY <2>4, <2>8, <2>9, <2>10, StayAll
<1>3. CASE \E q \in Peers : SessionFails(p, q)
  <2>1. PICK q \in Peers : SessionFails(p, q)
    BY <1>3
  <2> DEFINE c == Answer(q, "failed", None, TRUE)
  <2>2. callbacks' = Tell({p}, callbacks, c) /\ UNCHANGED <<bounds, steam, seen, online, world>>
    BY <2>1 DEF SessionFails, services, Quiet
  <2>3. c \in Callback /\ ~IsAnswer(c)
    BY DEF Answer, Callback, IsAnswer
  <2> HIDE DEF c
  <2>4. \A x \in Peers : Hears(x, callbacks)
    BY <1>1, <2>2, <2>3 DEF Tell, Hears
  <2>5. used'.lobbies = used.lobbies /\ used.lobbies <= used'.lobbies
    BY <1>1, <2>1, SpendsNone, UsedIs DEF SessionFails
  <2>6. \A m \in Lobbies : Owned(m)'
    BY <1>1, <2>2, <2>5, OwnedOn
  <2>7. ASSUME NEW x \in Peers PROVE Unstuck(x)
    <3>1. Heard(x)
      BY <1>1, <2>4, HearsIsHeard
    <3> QED
      BY <2>2, <3>1 DEF Unstuck, Looks, Apart
  <2> QED
    BY <2>2, <2>5, <2>6, <2>7, StayAll
<1> QED
  BY <1>2, <1>3

\* Whoever drops out waits for its return, and the others have the lobby.
LEMMA DropsStay ==
  ASSUME IInv, IInv', StayInv, abandoned = {}, NEW p \in Peers, Drops(p)
  PROVE  StayInv'
<1>1. /\ Shape /\ Shape' /\ callbacks \in [Peers -> Seq(Callback)]
      /\ seen \in [Peers -> [Lobbies -> SeenOf]] /\ (\A l \in Lobbies : Owned(l)) /\ Belongs(p)
  BY DEF IInv, Shape, SteamShape, SeenOf, StayInv
<1>2. PICK l \in Lobbies : p \in steam[l].members /\ Departs(p, l, seen[p][l], callbacks)
  BY DEF Drops
<1>3. online' = online \ {p} /\ UNCHANGED <<bounds, world>>
  BY DEF Drops, Quiet
<1>4. seen[p][l] \in SeenOf
  BY <1>1
<1>5. used'.lobbies = used.lobbies /\ used.lobbies <= used'.lobbies
  BY <1>1, SpendsNone, UsedIs DEF Drops
<1>6. (\A m \in Lobbies : Owned(m)') /\ \A q \in Peers : q # p => \A m \in Lobbies : Apart(q, m)
  BY <1>1, <1>2, <1>3, <1>4, <1>5, DepartsKeeps
<1>7. \A q \in Peers : Hears(q, callbacks)
  BY <1>1, <1>2, <1>3, <1>4, DepartsIs
<1>8. ASSUME NEW q \in Peers PROVE Unstuck(q)
  <2>1. Looks(q) /\ Heard(q)
    BY <1>1, <1>3, <1>7, HearsIsHeard DEF Looks
  <2>2. q \in online' => q \in online /\ \A m \in Lobbies : Apart(q, m)
    BY <1>3, <1>6
  <2> QED
    BY <2>1, <2>2 DEF Unstuck
<1> QED
  BY <1>3, <1>5, <1>6, <1>8, StayAll

\* Whoever is back belongs where its lobby lists it, or hears that it does not:
\* from Steam, or from the owner Steam names, who is a member.
LEMMA ReturnsStay ==
  ASSUME IInv, IInv', StayInv, abandoned = {}, NEW p \in Peers, Returns(p)
  PROVE  StayInv'
<1> DEFINE known == [l \in Lobbies |-> [members |-> {}, owner |-> steam[l].owner, closed |-> steam[l].closed]]
<1>1. /\ Shape /\ Shape' /\ callbacks \in [Peers -> Seq(Callback)] /\ online \subseteq Peers
      /\ steam \in [Lobbies -> [members : SUBSET Peers, owner : {None} \cup Peers, closed : BOOLEAN]]
      /\ seen \in [Peers -> [Lobbies -> SeenOf]] /\ (\A l \in Lobbies : Owned(l)) /\ Belongs(p)
      /\ world[p] \in Worlds
  BY DEF IInv, Shape, SteamShape, SeenOf, StayInv
<1>2. /\ p \notin online /\ callbacks[p] = <<>> /\ online' = online \cup {p} /\ seen' = [seen EXCEPT ![p] = known]
      /\ UNCHANGED <<bounds, steam, world, used>>
  BY DEF Returns, Quiet
<1>3. seen'[p] = known /\ \A q \in Peers : q # p => seen'[q] = seen[q]
  BY <1>1, <1>2
<1>4. \A l \in Lobbies : seen'[p][l].owner = steam[l].owner
  BY <1>3
<1> HIDE DEF known
<1>5. \A l \in Lobbies : p \notin steam[l].members
  BY <1>2 DEF IInv, Fits, Listed
<1>6. used.lobbies \in Nat /\ used.lobbies <= used'.lobbies
  BY <1>1, <1>2, UsedIs
<1>7. ASSUME NEW l \in Lobbies PROVE Owned(l)'
  <2>1. \A q \in steam[l].members : q \in Peers /\ q # p
    BY <1>1, <1>5
  <2>2. \A q \in steam[l].members : seen'[q] = seen[q]
    BY <1>3, <2>1
  <2> QED
    BY <1>1, <1>2, <2>2 DEF Owned
<1> DEFINE l0 == world[p].entity.id
           c == Answer(p, "left", l0, TRUE)
<1>8. l0 \in {None} \cup Lobbies
  BY <1>1 DEF Worlds, Entity, Entities
<1>9. callbacks' = IF l0 = None THEN callbacks ELSE Tell({p}, callbacks, c)
  BY DEF Returns
<1>10. l0 # None => c \in Callback /\ c.kind = "left" /\ c.who = p /\ c.id = l0 /\ ~IsAnswer(c)
  BY <1>8 DEF Answer, Callback, IsAnswer
<1> HIDE DEF c, l0
<1>11. /\ \A q \in Peers : q # p => callbacks'[q] = callbacks[q]
       /\ l0 = None => callbacks'[p] = <<>>
       /\ l0 # None => callbacks'[p] = Append(<<>>, c)
  BY <1>1, <1>2, <1>9 DEF Tell
<1>12. l0 # None => DOMAIN callbacks'[p] = {1} /\ callbacks'[p][1] = c
  BY <1>11
<1>13. \A l \in Lobbies : ~Answered(p, l)'
  BY <1>10, <1>11, <1>12 DEF Answered
<1>14. l0 # None => Left(p, l0)'
  BY <1>2, <1>10, <1>12 DEF Left, IsLeft, l0
<1>15. Belongs(p)'
  <2>2. ASSUME NEW l \in Lobbies, l = l0, l # None PROVE l <= used'.lobbies /\ Returned(p, l)'
    <3>1. l <= used'.lobbies
      BY <1>1, <1>2, <2>2 DEF Belongs, l0
    <3>2. CASE Hosts(world[p])
      <4>1. steam[l].members = {} \/ steam[l].owner \in steam[l].members
        BY <1>1 DEF Owned
      <4>2. steam[l].members = {} \/ steam[l].owner \notin {None, p}
        <5>1. None \notin steam[l].members
          BY <1>1 DEF Peers, None
        <5> QED
          BY <1>5, <4>1, <5>1
      <4> QED
        BY <1>2, <1>4, <3>1, <3>2, <4>2 DEF Returned
    <3>3. CASE ~Hosts(world[p])
      <4>1. c.kind = "left" /\ c.who = p /\ c.id = l /\ 1 \in DOMAIN callbacks'[p] /\ callbacks'[p][1] = c
        BY <1>10, <1>12, <2>2
      <4>2. \E i \in DOMAIN callbacks'[p] : IsLeft(callbacks'[p][i], p, l)
        BY <4>1 DEF IsLeft
      <4>3. Left(p, l)'
        BY <4>2 DEF Left
      <4>4. (~Hosts(world[p]))'
        BY <1>2, <3>3 DEF Hosts
      <4> QED
        BY <3>1, <4>3, <4>4 DEF Returned
    <3> QED
      BY <3>2, <3>3
  <2>3. world'[p].entity.id = l0
    BY <1>2 DEF l0
  <2> QED
    BY <1>2, <1>8, <1>13, <2>2, <2>3, SameBounds DEF Belongs
<1>16. ASSUME NEW q \in Peers, q # p PROVE Unstuck(q)
  BY <1>2, <1>3, <1>11, <1>16 DEF Unstuck, Looks, Heard, Answered, Left, Apart
<1> QED
  BY <1>2, <1>6, <1>7, <1>15, <1>16, StayAll

\* What a peer reads last, and before.
LEMMA AppendIs ==
  ASSUME NEW q \in Seq(Callback), NEW c \in Callback
  PROVE  /\ \A i \in DOMAIN Append(q, c) : (i \in DOMAIN q /\ Append(q, c)[i] = q[i]) \/ Append(q, c)[i] = c
         /\ \A i \in DOMAIN q : i \in DOMAIN Append(q, c) /\ Append(q, c)[i] = q[i]
OBVIOUS

\* A request that is refused names no lobby.
LEMMA RefusesStay ==
  ASSUME IInv, IInv', StayInv, abandoned = {}, NEW p \in Peers, NEW kind \in {"create", "join"}, Refuses(p, kind)
  PROVE  StayInv'
<1> DEFINE word == IF kind = "create" THEN "created" ELSE "enter"
           c == Answer(p, word, None, FALSE)
<1>1. /\ Shape /\ Shape' /\ callbacks \in [Peers -> Seq(Callback)] /\ callbacks[p] \in Seq(Callback)
      /\ \A l \in Lobbies : Owned(l)
  BY DEF IInv, Shape, StayInv
<1>2. callbacks' = Tell({p}, callbacks, c) /\ UNCHANGED <<bounds, online, world, steam, seen>>
  BY DEF Refuses, Answering, Quiet
<1>3. c \in Callback /\ c.kind # "left" /\ c.id = None
  BY DEF Answer, Callback, None
<1> HIDE DEF c
<1>4. callbacks'[p] = Append(callbacks[p], c) /\ \A q \in Peers : q # p => callbacks'[q] = callbacks[q]
  BY <1>1, <1>2 DEF Tell
<1>5. used'.lobbies = used.lobbies /\ used.lobbies <= used'.lobbies
  BY <1>1, SpendsNone, UsedIs DEF Refuses
<1>6. \A m \in Lobbies : Owned(m)'
  BY <1>1, <1>2, <1>5, OwnedOn
<1>7. \A l \in Lobbies : l # None
  BY <1>1, PeersFinite DEF Lobbies, None, Shape, SteamShape
<1>8. Heard(p)
  <2>1. /\ \A i \in DOMAIN callbacks'[p] : (i \in DOMAIN callbacks[p] /\ callbacks'[p][i] = callbacks[p][i]) \/ callbacks'[p][i] = c
        /\ \A i \in DOMAIN callbacks[p] : i \in DOMAIN callbacks'[p] /\ callbacks'[p][i] = callbacks[p][i]
    BY <1>1, <1>3, <1>4, AppendIs
  <2>2. \A m \in Lobbies : Answered(p, m)' => Answered(p, m)
    BY <1>3, <1>7, <2>1 DEF Answered
  <2>3. \A m \in Lobbies : Left(p, m) => Left(p, m)'
    BY <2>1 DEF Left
  <2> QED
    BY <2>2, <2>3 DEF Heard
<1>9. ASSUME NEW q \in Peers PROVE Unstuck(q)
  <2>1. Heard(q)
    BY <1>4, <1>8 DEF Heard, Answered, Left
  <2> QED
    BY <1>2, <2>1 DEF Unstuck, Looks, Apart
<1> QED
  BY <1>2, <1>5, <1>6, <1>9, StayAll

\* Whoever waits for an answer holds no lobby, and belongs where it names.
LEMMA AnsweredBelongs ==
  ASSUME IInv, NEW p \in Peers, Belongs(p), UNCHANGED <<bounds, world, online>>, used.lobbies <= used'.lobbies, Shape',
         world[p].entity.stage \in {"requested", "joining"},
         NEW l \in Lobbies, l <= used'.lobbies, p \in steam'[l].members,
         \A m \in Lobbies : p \in steam[m].members => p \in steam'[m].members,
         \A m \in Lobbies : Answered(p, m)' => m = l \/ Answered(p, m)
  PROVE  Belongs(p)'
<1>1. world'[p].entity.id = None
  BY DEF IInv, Fits, Whole, InALobby
<1>2. /\ used.lobbies \in Nat /\ used'.lobbies \in Nat /\ \A m \in Lobbies : m \in Nat
      /\ \A m \in Lobbies : m <= used.lobbies => m <= used'.lobbies
  <2>1. used.lobbies \in Nat /\ used'.lobbies \in Nat /\ \A m \in Lobbies : m \in Nat
    BY UsedIs, PeersFinite, SameBounds DEF IInv, Shape, SteamShape, Counts, Lobbies
  <2> QED
    BY <2>1
<1>3. \A m \in Lobbies : Answered(p, m)' => m <= used'.lobbies /\ (p \in online' => p \in steam'[m].members)
  BY <1>2 DEF Belongs
<1> QED
  BY <1>1, <1>3, SameBounds DEF Belongs

\* A lobby that is created has its creator.
LEMMA CreatesStay ==
  ASSUME IInv, IInv', StayInv, abandoned = {}, NEW p \in Peers, Creates(p)
  PROVE  StayInv'
<1> DEFINE l == used.lobbies + 1
           c == Answer(p, "created", l, TRUE)
           d == Answer(p, "enter", l, TRUE)
           Lobby == [members : SUBSET Peers, owner : {None} \cup Peers, closed : BOOLEAN]
           made == [members |-> {p}, owner |-> p, closed |-> FALSE]
           known == [members |-> {p}, owner |-> p, closed |-> FALSE]
<1>1. /\ Shape /\ Shape' /\ callbacks \in [Peers -> Seq(Callback)] /\ used \in Counts
      /\ steam \in [Lobbies -> Lobby] /\ seen \in [Peers -> [Lobbies -> SeenOf]]
      /\ bounds.lobbies \in Nat /\ (\A m \in Lobbies : Owned(m)) /\ Belongs(p)
  BY PeersFinite DEF IInv, Shape, SteamShape, SeenOf, StayInv
<1>2. /\ Answering(p, "create") /\ used.lobbies < bounds.lobbies
      /\ used' = [used EXCEPT !.lobbies = @ + 1]
      /\ steam' = [steam EXCEPT ![l] = made]
      /\ seen' = [seen EXCEPT ![p][l] = known]
      /\ callbacks' = [callbacks EXCEPT ![p] = @ \o <<c, d>>]
  BY DEF Creates
<1>3. l \in Lobbies /\ used.lobbies \in Nat /\ used'.lobbies = l /\ used.lobbies <= l /\ ~(l <= used.lobbies) /\ l <= l
  BY <1>1, <1>2 DEF Counts, Lobbies
<1>4. /\ UNCHANGED <<online, world, bounds>>
      /\ world[p].entity.stage = "requested"
  BY <1>2, AnsweringIs
<1>5. made.members = {p} /\ made.owner = p /\ known.members = {p}
  OBVIOUS
<1>6. c \in Callback /\ c.id = l /\ d \in Callback /\ d.id = l
  BY <1>3, AnswerIs, ZenonT(40)
<1> HIDE DEF l, c, d, made, known, Lobby
<1>7. steam'[l] = made /\ \A m \in Lobbies : m # l => steam'[m] = steam[m]
  BY <1>1, <1>2, <1>3
<1>8. /\ seen'[p][l] = known
      /\ \A q \in Peers, m \in Lobbies : q # p \/ m # l => seen'[q][m] = seen[q][m]
  <2> DEFINE f == [seen[p] EXCEPT ![l] = known]
  <2>1. f[l] = known /\ (\A m \in Lobbies : m # l => f[m] = seen[p][m]) /\ seen' = [seen EXCEPT ![p] = f]
    BY <1>1, <1>2, <1>3
  <2> HIDE DEF f
  <2> QED
    BY <1>1, <2>1
<1>9. callbacks'[p] = callbacks[p] \o <<c, d>> /\ \A q \in Peers : q # p => callbacks'[q] = callbacks[q]
  BY <1>1, <1>2
<1>10. ASSUME NEW m \in Lobbies PROVE Owned(m)'
  <2>1. CASE m = l
    BY <1>3, <1>5, <1>7, <1>8, <2>1 DEF Owned
  <2>2. CASE m # l
    <3>1. steam'[m] = steam[m] /\ \A q \in Peers : seen'[q][m] = seen[q][m]
      BY <1>7, <1>8, <2>2
    <3> QED
      BY <1>1, <1>3, <1>4, <3>1, OwnedOn
  <2> QED
    BY <2>1, <2>2
<1>11. steam[l].members = {}
  BY <1>1, <1>3 DEF Owned
<1>12. ASSUME NEW q \in Peers, q # p PROVE Unstuck(q)
  <2>1. ASSUME NEW m \in Lobbies PROVE Apart(q, m)
    <3>1. CASE m = l
      BY <1>3, <1>8, <1>11, <1>12, <3>1 DEF Apart
    <3>2. CASE m # l
      BY <1>7, <1>8, <3>2 DEF Apart
    <3> QED
      BY <3>1, <3>2
  <2> QED
    BY <1>4, <1>9, <1>12, <2>1 DEF Unstuck, Looks, Heard, Answered, Left
<1>13. Belongs(p)'
  <2>1. \A i \in DOMAIN callbacks'[p] :
          \/ callbacks'[p][i].id = l
          \/ i \in DOMAIN callbacks[p] /\ callbacks'[p][i] = callbacks[p][i]
    <3> DEFINE s == callbacks[p]
    <3>1. s \in Seq(Callback) /\ callbacks'[p] = s \o <<c, d>>
      BY <1>1, <1>9
    <3> HIDE DEF s
    <3>2. \A i \in DOMAIN (s \o <<c, d>>) :
            \/ (s \o <<c, d>>)[i] = c \/ (s \o <<c, d>>)[i] = d
            \/ i \in DOMAIN s /\ (s \o <<c, d>>)[i] = s[i]
      BY <1>6, <3>1
    <3> QED
      BY <1>6, <3>1, <3>2 DEF s
  <2>2. \A m \in Lobbies : Answered(p, m)' => m = l \/ Answered(p, m)
    BY <2>1 DEF Answered
  <2>3. p \in steam'[l].members /\ \A m \in Lobbies : p \in steam[m].members => p \in steam'[m].members
    BY <1>5, <1>7
  <2> QED
    BY <1>1, <1>3, <1>4, <2>2, <2>3, AnsweredBelongs
<1> QED
  BY <1>3, <1>4, <1>10, <1>12, <1>13, StayAll

\* Whoever joins is known to the members.
LEMMA JoinsStay ==
  ASSUME IInv, IInv', StayInv, abandoned = {}, NEW p \in Peers, Joins(p)
  PROVE  StayInv'
<1> DEFINE Lobby == [members : SUBSET Peers, owner : {None} \cup Peers, closed : BOOLEAN]
<1>1. /\ Shape /\ Shape' /\ callbacks \in [Peers -> Seq(Callback)]
      /\ steam \in [Lobbies -> Lobby] /\ (\A m \in Lobbies : Owned(m)) /\ Belongs(p)
  BY DEF IInv, Shape, SteamShape, StayInv
<1>2. Answering(p, "join") /\ UNCHANGED used
  BY DEF Joins
<1>3. /\ Head(asks[p]) \in Asked /\ Head(asks[p]).kind = "join"
      /\ UNCHANGED <<online, world, bounds>> /\ world[p].entity.stage = "joining"
  BY <1>2, AnsweringIs
<1>4. PICK l \in Lobbies : l = Head(asks[p]).id
  BY <1>3 DEF Asked
<1>5. PICK c \in Callback : c = Answer(p, "entered", l, TRUE) /\ ~IsAnswer(c)
  <2>1. Answer(p, "entered", l, TRUE) \in Callback /\ ~IsAnswer(Answer(p, "entered", l, TRUE))
    BY DEF Answer, Callback, IsAnswer
  <2> QED
    BY <2>1
<1>6. PICK d \in Callback : d = Answer(p, "enter", l, TRUE) /\ d.id = l
  <2>1. Answer(p, "enter", l, TRUE) \in Callback /\ Answer(p, "enter", l, TRUE).id = l
    BY DEF Answer, Callback
  <2> QED
    BY <2>1
<1>7. PICK members \in SUBSET Peers : members = steam[l].members \cup {p}
  BY <1>1
<1>8. PICK known \in SeenOf : known = [members |-> members, owner |-> steam[l].owner, closed |-> steam[l].closed] /\ known.members = members
  <2>1. steam[l].owner \in {None} \cup Peers /\ steam[l].closed \in BOOLEAN
    BY <1>1
  <2> DEFINE x == [members |-> members, owner |-> steam[l].owner, closed |-> steam[l].closed]
  <2>2. x \in SeenOf /\ x.members = members
    BY <2>1 DEF SeenOf
  <2> HIDE DEF x
  <2>3. \E y \in SeenOf : y = x /\ y.members = members
    BY <2>2
  <2> QED
    BY <2>3 DEF x
<1>9. /\ steam' = [steam EXCEPT ![l].members = members]
      /\ seen' = [Members(l, members) EXCEPT ![p][l] = known]
      /\ callbacks' = Tell({p}, Tell(Others(p, l), callbacks, c), d)
      /\ steam[l].members # {}
  BY <1>4, <1>5, <1>6, <1>7, <1>8 DEF Joins
<1>10. /\ steam'[l].members = members /\ steam'[l].owner = steam[l].owner
       /\ \A m \in Lobbies : m # l => steam'[m] = steam[m]
  <2> DEFINE x == [steam[l] EXCEPT !.members = members]
  <2>1. steam[l] \in Lobby /\ steam' = [steam EXCEPT ![l] = x]
    BY <1>1, <1>9
  <2>2. x.members = members /\ x.owner = steam[l].owner
    BY <2>1
  <2> HIDE DEF x, Lobby
  <2> QED
    BY <1>1, <2>1, <2>2
<1> HIDE DEF Lobby
<1> DEFINE f == Members(l, members)
<1>11. f \in [Peers -> [Lobbies -> SeenOf]]
  BY <1>1, CachesHear
<1>12. /\ seen'[p][l] = known
       /\ \A q \in Peers : \A m \in Lobbies : q # p \/ m # l => seen'[q][m] = f[q][m]
  <2> DEFINE x == [f[p] EXCEPT ![l] = known]
  <2>1. seen' = [f EXCEPT ![p] = x]
    BY <1>9
  <2> HIDE DEF f
  <2>2. x[l] = known /\ \A m \in Lobbies : m # l => x[m] = f[p][m]
    BY <1>11
  <2> HIDE DEF x
  <2> QED
    BY <1>11, <2>1, <2>2
<1>13. ASSUME NEW q \in Peers, NEW m \in Lobbies
       PROVE  /\ f[q][m].owner = seen[q][m].owner /\ (m # l => f[q][m] = seen[q][m])
              /\ q \in steam[l].members => f[q][l].members = members
  <2>1. q \in steam[l].members => q \in online
    BY DEF IInv, Fits, Listed
  <2> QED
    BY <1>1, <2>1, CachesAre
<1> HIDE DEF f
<1>14. used.lobbies <= used'.lobbies
  BY <1>1, <1>2, UsedIs
<1>15. ASSUME NEW m \in Lobbies PROVE Owned(m)'
  <2>1. CASE m # l
    <3>1. steam'[m] = steam[m] /\ \A q \in Peers : seen'[q][m] = seen[q][m]
      BY <1>10, <1>12, <1>13, <2>1
    <3> QED
      BY <1>1, <1>3, <1>14, <3>1, OwnedOn
  <2>2. CASE m = l
    <3>1. ASSUME NEW q \in members PROVE seen'[q][l].members = members
      <4>1. CASE q = p
        BY <1>8, <1>12, <4>1
      <4>2. CASE q # p
        BY <1>7, <1>12, <1>13, <4>2
      <4> QED
        BY <4>1, <4>2
    <3>2. steam[l].owner \in members /\ l <= used'.lobbies /\ members # {}
      BY <1>1, <1>2, <1>7, <1>9 DEF Owned
    <3> QED
      BY <1>10, <2>2, <3>1, <3>2 DEF Owned
  <2> QED
    BY <2>1, <2>2
<1>16. callbacks'[p] = Append(callbacks[p], d) /\ \A q \in Peers : q # p => Hears(q, callbacks)
  <2> DEFINE calls == Tell(Others(p, l), callbacks, c)
  <2>1. \A q \in Peers : calls[q] = IF q \in Others(p, l) THEN Append(callbacks[q], c) ELSE callbacks[q]
    BY DEF Tell
  <2>2. p \notin Others(p, l)
    BY DEF Others
  <2> HIDE DEF calls
  <2>3. callbacks' = [q \in Peers |-> IF q \in {p} THEN Append(calls[q], d) ELSE calls[q]]
    BY <1>9 DEF Tell, calls
  <2>4. callbacks'[p] = Append(callbacks[p], d)
    BY <2>1, <2>2, <2>3
  <2>5. ASSUME NEW q \in Peers, q # p PROVE Hears(q, callbacks)
    BY <1>5, <2>1, <2>3, <2>5 DEF Hears
  <2> QED
    BY <2>4, <2>5
<1>17. ASSUME NEW q \in Peers, q # p PROVE Unstuck(q)
  <2>1. Heard(q) /\ Looks(q)
    BY <1>1, <1>3, <1>16, <1>17, HearsIsHeard DEF Looks
  <2>2. ASSUME NEW m \in Lobbies PROVE Apart(q, m)
    <3>1. seen'[q][m].owner = seen[q][m].owner
      BY <1>12, <1>13, <1>17
    <3>2. CASE m = l
      BY <1>7, <1>9, <1>10, <3>1, <3>2 DEF Apart
    <3>3. CASE m # l
      BY <1>10, <3>1, <3>3 DEF Apart
    <3> QED
      BY <3>2, <3>3
  <2> QED
    BY <1>3, <2>1, <2>2 DEF Unstuck
<1>18. Belongs(p)'
  <2>1. \A i \in DOMAIN callbacks'[p] :
          \/ callbacks'[p][i].id = l
          \/ i \in DOMAIN callbacks[p] /\ callbacks'[p][i] = callbacks[p][i]
    <3> DEFINE s == callbacks[p]
    <3>1. s \in Seq(Callback) /\ callbacks'[p] = Append(s, d) /\ d \in Callback /\ d.id = l
      BY <1>1, <1>6, <1>16
    <3> HIDE DEF s
    <3>2. \A i \in DOMAIN Append(s, d) : (i \in DOMAIN s /\ Append(s, d)[i] = s[i]) \/ Append(s, d)[i] = d
      BY <3>1, AppendIs
    <3>3. \A i \in DOMAIN callbacks'[p] : (i \in DOMAIN s /\ callbacks'[p][i] = s[i]) \/ callbacks'[p][i] = d
      BY <3>1, <3>2
    <3> QED
      BY <3>1, <3>3 DEF s
  <2>2. \A m \in Lobbies : Answered(p, m)' => m = l \/ Answered(p, m)
    BY <2>1 DEF Answered
  <2>3. p \in steam'[l].members /\ \A m \in Lobbies : p \in steam[m].members => p \in steam'[m].members
    BY <1>7, <1>10
  <2>4. l <= used'.lobbies
    BY <1>1, <1>2, <1>9 DEF Owned
  <2> QED
    BY <1>1, <1>3, <1>14, <2>2, <2>3, <2>4, AnsweredBelongs
<1> QED
  BY <1>3, <1>14, <1>15, <1>17, <1>18, StayAll

\* So whatever a frame brings, and whether or not the game leaves in it.
LEMMA FramesStay ==
  ASSUME IInv, IInv', StayInv, abandoned = {}, NEW p \in Peers, NEW n \in News(p), Runs(p, n) \/ Leaves(p, n)
  PROVE  StayInv'
<1>1. CASE Runs(p, n)
  BY <1>1, UpdateStays DEF Runs
<1>2. CASE Leaves(p, n)
  <2>1. Update(p, n, TRUE)
    BY <1>2 DEF Leaves
  <2>2. used'.lobbies = used.lobbies
    <3>1. \E op : Spend(op)
      BY <1>2 DEF Leaves
    <3> QED
      BY <3>1, SpendsNone DEF IInv
  <2> QED
    BY <2>1, <2>2, UpdateStays
<1> QED
  BY <1>1, <1>2

\* A game that gave a request up has done so for good.
LEMMA AbandonedStay ==
  ASSUME Next
  PROVE  abandoned \subseteq abandoned'
<1>1. CASE Service
  BY <1>1 DEF Service, Creates, Joins, Drops, Returns, Refuses, SteamTells, SessionFails, Answering, Quiet
<1>2. CASE Frames
  BY <1>2 DEF Frames, Runs, Leaves, Reached, SeatGoesSilent, Quiet
<1>3. CASE Game
  BY <1>3 DEF Game, create_lobby, close_lobby, join_requested_lobbies, Kicks, Ask, Quiet
<1> QED
  BY <1>1, <1>2, <1>3 DEF Next

\* No step leaves anybody stuck.
LEMMA NextStays ==
  ASSUME IInv, IInv', StayInv, Next
  PROVE  StayInv'
<1> SUFFICES ASSUME abandoned' = {} PROVE StayInv'
  BY DEF StayInv
<1>0. abandoned = {}
  BY AbandonedStay
<1>1. CASE Service
  <2>1. PICK p \in Peers : \/ Creates(p) \/ Joins(p) \/ Drops(p) \/ Returns(p)
                           \/ \E kind \in {"create", "join"} : Refuses(p, kind)
                           \/ \E l \in Lobbies : SteamTells(p, l)
                           \/ \E q \in Peers : SessionFails(p, q)
    BY <1>1 DEF Service
  <2> QED
    BY <1>0, <2>1, CreatesStay, JoinsStay, DropsStay, ReturnsStay, RefusesStay, NewsStays
<1>2. CASE Frames
  <2>1. PICK p \in Peers : \/ \E n \in News(p) : Runs(p, n) \/ Leaves(p, n)
                           \/ Reached(p)
                           \/ \E q \in Peers : SeatGoesSilent(p, q)
    BY <1>2 DEF Frames
  <2> QED
    BY <1>0, <2>1, FramesStay, MarksStay, KicksStay
<1>3. CASE Game
  <2>1. PICK p \in Peers : \/ create_lobby(p) \/ close_lobby(p)
                           \/ \E l \in Lobbies : join_requested_lobbies(p, l)
                           \/ \E q \in Peers : Kicks(p, q)
    BY <1>3 DEF Game
  <2> QED
    BY <1>0, <2>1, MarksStay, KicksStay
<1> QED
  BY <1>1, <1>2, <1>3 DEF Next

\* Nor does a step of others.
LEMMA StayStutters ==
  ASSUME StayInv, UNCHANGED vars
  PROVE  StayInv'
<1>1. UNCHANGED <<steam, seen, online, asks, callbacks, world, wire, told, abandoned, used, bounds>>
  BY DEF vars, services
<1>2. Peers' = Peers /\ Lobbies' = Lobbies
  BY <1>1, SameBounds
<1>3. \A l \in Lobbies : Owned(l) => Owned(l)'
  BY <1>1 DEF Owned
<1>4. ASSUME NEW q \in Peers, Belongs(q) PROVE Belongs(q)'
  <2>1. \A l \in Lobbies : Answered(q, l)' <=> Answered(q, l)
    BY <1>1 DEF Answered
  <2>2. world' = world
    BY <1>1
  <2>3. \A l : Returned(q, l) => Returned(q, l)'
    BY <1>1 DEF Returned, Left
  <2> QED
    BY <1>1, <1>2, <1>4, <2>1, <2>2, <2>3 DEF Belongs
<1> QED
  BY <1>1, <1>2, <1>3, <1>4 DEF StayInv

\* At first nobody is anywhere.
LEMMA InitStays ==
  ASSUME Init
  PROVE  StayInv
<1>1. ASSUME NEW l \in Lobbies PROVE Owned(l)
  BY DEF Init, Owned
<1>2. ASSUME NEW p \in Peers PROVE Belongs(p)
  <2>1. callbacks[p] = <<>> /\ world[p] = NewWorld
    BY <1>2 DEF Init
  <2>2. \A l : ~Answered(p, l)
    BY <2>1 DEF Answered
  <2>3. world[p].entity.id = None
    BY <2>1 DEF NewWorld, NoEntity
  <2> QED
    BY <2>2, <2>3 DEF Belongs
<1> QED
  BY <1>1, <1>2 DEF StayInv

\* So it is always.
LEMMA StaysAlways == Spec => []StayInv
<1>1. IInv /\ IInv' /\ StayInv /\ [Next]_vars => StayInv'
  BY NextStays, StayStutters
<1> QED
  BY InvariantHolds, InitStays, <1>1, PTL DEF Spec

\* At rest, when no game gave a request up and nobody pinned itself.
Settled == IInv /\ StayInv /\ AtRest /\ abandoned = {} /\ \A p \in Peers : ~OwnHost(p)

\* Nothing is left to tell of, and every peer is as it is said to be.
LEMMA RestsOn ==
  ASSUME Settled, NEW p \in Peers
  PROVE  /\ callbacks[p] = <<>> /\ p \in online /\ world[p] \in Worlds /\ Belongs(p) /\ Whole(world[p])
         /\ Trusts(world[p], p) /\ Listed(p)
         /\ Working(p) \in Works /\ Working(p).me = p /\ Working(p).entity = world[p].entity
         /\ Working(p).current = world[p].current /\ Working(p).believes = world[p].believes
         /\ \A l : ~Answered(p, l) /\ ~Left(p, l)
         /\ \A l \in Lobbies : l # None /\ Owned(l) /\ steam[l].members \subseteq Peers
<1>1. callbacks[p] = <<>> /\ p \in online
  BY DEF Settled, AtRest
<1>2. world[p] \in Worlds
  BY DEF Settled, IInv, Shape
<1>3. \A l : ~Answered(p, l) /\ ~Left(p, l)
  BY <1>1 DEF Answered, Left
<1>4. \A l \in Lobbies : l # None /\ Owned(l) /\ steam[l].members \subseteq Peers
  <2>1. Shape /\ \A l \in Lobbies : Owned(l)
    BY DEF Settled, StayInv, IInv
  <2>2. \A l \in Lobbies : l # None
    BY <2>1, PeersFinite DEF Shape, SteamShape, Lobbies, None
  <2>3. \A l \in Lobbies : steam[l].members \subseteq Peers
    BY <2>1 DEF Shape, SteamShape
  <2> QED
    BY <2>1, <2>2, <2>3
<1>5. Belongs(p) /\ Whole(world[p]) /\ Trusts(world[p], p) /\ Listed(p)
  BY DEF Settled, StayInv, IInv, Fits
<1>6. /\ Working(p) \in Works /\ Working(p).me = p /\ Working(p).entity = world[p].entity
      /\ Working(p).current = world[p].current /\ Working(p).believes = world[p].believes
  BY <1>2, WorkingIs
<1> QED
  BY <1>1, <1>2, <1>3, <1>4, <1>5, <1>6

\* Whoever is listed holds that lobby, and knows its owner.
LEMMA ListedHolds ==
  ASSUME Settled, NEW l \in Lobbies, NEW p \in steam[l].members
  PROVE  p \in Peers /\ world[p].entity.id = l /\ seen[p][l].owner = steam[l].owner /\ seen[p][l].members = steam[l].members
<1>1. p \in Peers
  BY DEF Settled, IInv, Shape, SteamShape
<1>2. Listed(p) /\ ~Answered(p, l) /\ Owned(l)
  BY <1>1, RestsOn
<1>3. world[p].entity.id = l
  BY <1>2 DEF Listed
<1>4. seen[p][l].owner = steam[l].owner
  BY <1>1 DEF Settled, AtRest
<1>5. seen[p][l].members = steam[l].members
  BY <1>2 DEF Owned
<1> QED
  BY <1>1, <1>3, <1>4, <1>5

\* The owner a peer knows is itself if it hosts, and its pin if it does not.
LEMMA KnowsTheOwner ==
  ASSUME Settled, NEW p \in Peers, NEW l \in Lobbies, world[p].entity.id = l, seen[p][l].owner # None
  PROVE  /\ Hosts(world[p]) => seen[p][l].owner = p
         /\ IsClient(world[p]) => seen[p][l].owner = world[p].entity.pin
<1>1. Working(p).entity = world[p].entity /\ Working(p).me = p /\ l # None
  BY RestsOn
<1>2. owner_change(Working(p)) = "none"
  BY DEF Settled, AtRest
<1>3. /\ Hosts(Working(p)) <=> Hosts(world[p])
      /\ IsClient(Working(p)) <=> IsClient(world[p])
  BY <1>1 DEF Hosts, IsClient
<1> DEFINE w == Working(p)
           owner == seen[p][l].owner
<1>4. w.entity.id = l /\ lobby_owner(w.me, w.entity.id) = owner /\ owner # None /\ w.entity.pin = world[p].entity.pin /\ w.me = p
  BY <1>1 DEF lobby_owner
<1>5. ~(Hosts(w) /\ IsClient(w))
  BY DEF Hosts, IsClient
<1> HIDE DEF w, owner
<1>6. CASE Hosts(w)
  <2>1. owner_change(w) = IF owner = p THEN "none" ELSE "replaced"
    BY <1>1, <1>4, <1>5, <1>6 DEF owner_change
  <2> QED
    BY <1>2, <1>3, <1>5, <1>6, <2>1 DEF w, owner
<1>7. CASE IsClient(w)
  <2>1. owner_change(w) = IF owner = w.entity.pin THEN "none" ELSE IF owner = p THEN "promote" ELSE "follow"
    BY <1>1, <1>4, <1>5, <1>7 DEF owner_change
  <2> QED
    BY <1>2, <1>3, <1>4, <1>5, <1>7, <2>1 DEF w, owner
<1> QED
  BY <1>3, <1>6, <1>7 DEF w

\* Whoever holds a lobby is listed in it, unless nobody is.
LEMMA HoldsListed ==
  ASSUME Settled, NEW p \in Peers, NEW l \in Lobbies, world[p].entity.id = l
  PROVE  p \in steam[l].members \/ (Hosts(world[p]) /\ steam[l].members = {})
<1>1. p \in online /\ Belongs(p) /\ ~Left(p, l) /\ l # None
  BY RestsOn
<1>2. Returned(p, l)
  BY <1>1 DEF Belongs
<1> SUFFICES ASSUME p \notin steam[l].members PROVE Hosts(world[p]) /\ steam[l].members = {}
  OBVIOUS
<1>3. Hosts(world[p]) /\ (steam[l].members = {} \/ seen[p][l].owner \notin {None, p})
  BY <1>1, <1>2 DEF Returned
<1>4. seen[p][l].owner # None => seen[p][l].owner = p
  BY <1>3, KnowsTheOwner
<1> QED
  BY <1>3, <1>4

\* The owner of a lobby that has members is one of them, and hosts it.
LEMMA OwnerHosts ==
  ASSUME Settled, NEW l \in Lobbies, steam[l].members # {}
  PROVE  /\ steam[l].owner \in steam[l].members /\ steam[l].owner \in Peers /\ steam[l].owner # None
         /\ Hosts(world[steam[l].owner])
<1> DEFINE h == steam[l].owner
<1>1. l <= used.lobbies /\ h \in steam[l].members
  <2>1. Owned(l)
    BY DEF Settled, StayInv
  <2> QED
    BY <2>1 DEF Owned
<1>2. h \in Peers /\ world[h].entity.id = l /\ seen[h][l].owner = h
  BY <1>1, ListedHolds
<1>3. h # None
  BY <1>2 DEF Peers, None
<1> HIDE DEF h
<1>4. Whole(world[h]) /\ l # None
  BY <1>2, RestsOn
<1>5. IsClient(world[h]) => world[h].entity.pin = h
  BY <1>2, <1>3, KnowsTheOwner
<1>6. ~IsClient(world[h])
  BY <1>2, <1>5 DEF Settled, OwnHost
<1>7. Hosts(world[h])
  BY <1>2, <1>4, <1>6 DEF Whole, InALobby, Hosts, IsClient
<1> QED
  BY <1>1, <1>2, <1>3, <1>7 DEF h

\* Any other member is a client of it, and is in.
LEMMA OthersAreIn ==
  ASSUME Settled, NEW l \in Lobbies, NEW p \in steam[l].members, p # steam[l].owner
  PROVE  /\ world[p].entity = [stage |-> "client", id |-> l, pin |-> steam[l].owner, waits |-> "no", closing |-> FALSE]
         /\ Connected(steam[l].owner, p)
<1>1. PICK h \in Peers : h = steam[l].owner
  BY OwnerHosts
<1>2. h \in steam[l].members /\ h # None /\ Hosts(world[h])
  BY <1>1, OwnerHosts
<1>3. p \in Peers /\ world[p].entity.id = l /\ seen[p][l].owner = h /\ seen[p][l].members = steam[l].members
  BY <1>1, ListedHolds
<1>4. world[h].entity.id = l /\ seen[h][l].members = steam[l].members
  BY <1>2, ListedHolds
<1>5. /\ Whole(world[p]) /\ l # None /\ Trusts(world[p], p) /\ Belongs(p) /\ world[p] \in Worlds
      /\ Working(p) \in Works /\ Working(p).me = p /\ Working(p).entity = world[p].entity
      /\ Working(p).current = world[p].current /\ Working(p).believes = world[p].believes
  BY <1>3, RestsOn
<1>6. ~Hosts(world[p])
  BY <1>1, <1>2, <1>3, KnowsTheOwner
<1>7. IsClient(world[p])
  BY <1>3, <1>5, <1>6 DEF Whole, InALobby, Hosts, IsClient
<1>8. world[p].entity.pin = h
  BY <1>2, <1>3, <1>7, KnowsTheOwner
<1>9. world[p].current = l /\ world[p].believes = h
  BY <1>3, <1>5, <1>6, <1>7, <1>8 DEF Trusts
<1> DEFINE pk == Packet("hosts", h, p)
           w == Working(p)
<1>10. pk.kind = "hosts" /\ pk.from = h /\ pk.to = p
  BY DEF Packet
<1>11. pk \in Handshakes
  <2>1. lobby_members(h, world[h].entity.id) = steam[l].members
    BY <1>4, <1>5 DEF lobby_members
  <2>2. p # h
    BY <1>1
  <2>3. pk \in send_host_handshakes(h)
    BY <1>2, <2>1, <2>2 DEF send_host_handshakes
  <2> QED
    BY <2>3 DEF Handshakes
<1>12. pk \in News(p)
  BY <1>10, <1>11 DEF News
<1> HIDE DEF w, pk
<1>13. w \in Works /\ w.me = p /\ w.entity = world[p].entity /\ w.current = l /\ w.believes = h
  BY <1>5, <1>9 DEF w
<1>14. ~Hosts(w) /\ IsClient(w)
  BY <1>6, <1>7, <1>13 DEF Hosts, IsClient
<1>15. Admits(w, pk)
  <2>1. lobby_members(p, l) = steam[l].members
    BY <1>3, <1>5 DEF lobby_members
  <2> QED
    BY <1>2, <1>8, <1>10, <1>13, <1>14, <2>1 DEF Admits, accept_session_request, accept_packet
<1>16. Held(CarriedOut(w, Ordered(w, pk))) = world[p]
  <2>1. LET v == read_messages(Working(p), pk)
        IN Admits(Working(p), pk) => Held(CarriedOut(v, Ordered(v, pk))) = world[p]
    BY <1>3, <1>12 DEF Settled, AtRest
  <2>2. read_messages(w, pk) = w
    BY <1>14 DEF read_messages
  <2> QED
    BY <1>15, <2>1, <2>2 DEF w
<1>17. world[p].entity.stage # "pending"
  <2> SUFFICES ASSUME world[p].entity.stage = "pending" PROVE FALSE
    OBVIOUS
  <2>1. Ordered(w, pk) = Order("open", h, 0)
    BY <1>8, <1>10, <1>13 DEF Ordered
  <2>2. CarriedOut(w, Order("open", h, 0)) = Opened(w)
    BY <1>13 DEF CarriedOut, Order, Opened
  <2> DEFINE e == [w.entity EXCEPT !.stage = "client"]
             v == [w EXCEPT !.entity = e]
  <2>3. Opened(w) = v
    BY DEF Opened
  <2>4. e.stage = "client"
    <3>1. w.entity \in Entity
      BY <1>13, WorkFields
    <3> QED
      BY <3>1 DEF Entity, Entities
  <2> HIDE DEF e
  <2>5. v.entity = e
    BY <1>13 DEF Works
  <2> HIDE DEF v
  <2>6. Held(v).entity = v.entity
    BY DEF Held
  <2>7. Held(v) = world[p]
    BY <1>16, <2>1, <2>2, <2>3
  <2>8. world[p].entity.stage = "client"
    BY <2>4, <2>5, <2>6, <2>7
  <2> QED
    BY <2>8
<1>18. world[p].entity.stage = "client"
  BY <1>7, <1>17 DEF IsClient
<1>19. world[p].entity.waits = "no" /\ ~Unheard(p)
  BY <1>3 DEF Settled, AtRest
<1>20. world[p].entity.closing = FALSE
  <2>1. world[p].entity.closing \in BOOLEAN
    BY <1>5 DEF Worlds, Entity, Entities
  <2> QED
    BY <1>5, <1>6, <2>1 DEF Whole, Hosts
<1>21. world[p].entity = [stage |-> "client", id |-> l, pin |-> h, waits |-> "no", closing |-> FALSE]
  <2> DEFINE e == world[p].entity
  <2>1. e \in Entity
    BY <1>5 DEF Worlds
  <2>2. e.stage = "client" /\ e.id = l /\ e.pin = h /\ e.waits = "no" /\ e.closing = FALSE
    BY <1>3, <1>8, <1>18, <1>19, <1>20
  <2> HIDE DEF e
  <2>3. e = [stage |-> "client", id |-> l, pin |-> h, waits |-> "no", closing |-> FALSE]
    BY <2>1, <2>2 DEF Entity, Entities
  <2> QED
    BY <2>3 DEF e
<1>22. Connected(h, p)
  BY <1>2, <1>8, <1>18, <1>19 DEF Unheard
<1> QED
  BY <1>1, <1>21, <1>22

\* Its connected seats are those of its members.
LEMMA SeatsAreMembers ==
  ASSUME Settled, NEW l \in Lobbies, steam[l].members # {}, NEW s \in ToSet(world[steam[l].owner].seats), s.connected
  PROVE  s.of \in steam[l].members
<1>1. PICK h \in Peers : h = steam[l].owner
  BY OwnerHosts
<1>2. h \in steam[l].members /\ h # None /\ Hosts(world[h])
  BY <1>1, OwnerHosts
<1>3. world[h].entity.id = l /\ world[h].seats \in Seq(Seat)
  <2>1. world[h] \in Worlds
    BY RestsOn
  <2> QED
    BY <1>2, <2>1, ListedHolds DEF Worlds
<1>4. PICK i \in DOMAIN world[h].seats : world[h].seats[i] = s
  BY <1>1 DEF ToSet
<1>5. s \in Seat
  BY <1>3, <1>4
<1>6. PICK q \in Peers : q = s.of
  BY <1>5 DEF Seat
<1>7. Connected(h, q)
  BY <1>4, <1>6 DEF Connected, SeatOf
<1>8. IsClient(world[q]) /\ world[q].entity.pin = h
  BY <1>2, <1>7 DEF Settled, AtRest, IsClientOf
<1>9. Whole(world[q]) /\ world[q] \in Worlds
  BY RestsOn
<1>10. PICK m \in Lobbies : m = world[q].entity.id
  <2>1. world[q].entity.id \in {None} \cup Lobbies
    BY <1>9 DEF Worlds, Entity, Entities
  <2> QED
    BY <1>8, <1>9, <2>1 DEF Whole, InALobby, IsClient
<1>11. q \in steam[m].members
  BY <1>8, <1>10, HoldsListed DEF Hosts, IsClient
<1>12. steam[m].owner = h
  <2>1. seen[q][m].owner = steam[m].owner
    BY <1>11, ListedHolds
  <2>2. steam[m].owner # None
    BY <1>11, OwnerHosts
  <2> QED
    BY <1>8, <1>10, <2>1, <2>2, KnowsTheOwner
<1>13. h \in steam[m].members
  BY <1>11, <1>12, OwnerHosts
<1>14. m = l
  BY <1>3, <1>13, ListedHolds
<1> QED
  BY <1>6, <1>11, <1>14

\* Nobody is stuck on the way into a session: once Steam has answered and been
\* heard of, every member of a lobby is in the session of the owner Steam names
\* (follow_lobby_owner, lib.rs, and the handshake systems).
THEOREM NobodyStaysStuck == Spec => []NobodyIsStuck
<1>1. IInv /\ StayInv => NobodyIsStuck
  <2> SUFFICES ASSUME Settled, NEW l \in Lobbies, steam[l].members # {} PROVE InSession(l)
    BY DEF NobodyIsStuck, Settled
  <2>1. PICK h \in steam[l].members : h = steam[l].owner
    BY OwnerHosts
  <2>2. h \in Peers /\ h # None /\ Hosts(world[h])
    BY <2>1, OwnerHosts
  <2>3. ASSUME NEW p \in online \ {h}, Hosts(world[p]), world[p].entity.id = l PROVE FALSE
    <3>1. p \in Peers
      BY DEF Settled, IInv, Shape
    <3>2. p \in steam[l].members
      BY <2>3, <3>1, HoldsListed
    <3>3. seen[p][l].owner = h
      BY <2>1, <3>2, ListedHolds
    <3>4. h = p
      BY <2>2, <2>3, <3>1, <3>3, KnowsTheOwner
    <3> QED
      BY <3>4
  <2>4. \A p \in steam[l].members \ {h} :
          /\ world[p].entity = [stage |-> "client", id |-> l, pin |-> h, waits |-> "no", closing |-> FALSE]
          /\ Connected(h, p)
    BY <2>1, OthersAreIn
  <2>5. \A s \in ToSet(world[h].seats) : s.connected => s.of \in steam[l].members
    BY <2>1, SeatsAreMembers
  <2> QED
    BY <2>1, <2>2, <2>3, <2>4, <2>5 DEF InSession
<1> QED
  BY InvariantHolds, StaysAlways, <1>1, PTL

------------------------------------------------------------------------------
\* Closed is not taken over

\* Only a lobby that was made has an owner, who is a member.
Ruled(l) ==
  /\ l <= used.lobbies \/ steam[l].owner = None
  /\ steam[l].owner \in steam[l].members \cup {None}
\* Whoever knows itself to be the owner is, and knows whether the lobby is closed
\* unless it closed it itself and hosts it still.
Aware(p, l) ==
  seen[p][l].owner = p =>
    /\ steam[l].owner = p
    /\ steam[l].closed => seen[p][l].closed \/ (Hosts(world[p]) /\ world[p].entity.id = l)
CloseInv ==
  /\ \A l \in Lobbies : Ruled(l)
  /\ \A p \in online : \A l \in Lobbies : Aware(p, l)

\* Nothing that p knows of l is out of date that was not.
Fresh(p, l) ==
  /\ seen'[p][l].owner = seen[p][l].owner /\ steam'[l].closed = steam[l].closed
  /\ seen'[p][l].closed = seen[p][l].closed \/ seen'[p][l].closed = steam[l].closed
  /\ steam[l].owner = p => steam'[l].owner = p
Current(p, l) == seen'[p][l].owner = steam'[l].owner /\ seen'[p][l].closed = steam'[l].closed
HostsOn(p, l) == Hosts(world[p]) /\ world[p].entity.id = l => Hosts(world'[p]) /\ world'[p].entity.id = l
\* What p still knows, is told, or is not concerned by.
Learns(p, l) ==
  \/ Fresh(p, l) /\ HostsOn(p, l) /\ p \in online
  \/ Current(p, l)
  \/ seen'[p][l].owner # p
LEMMA AwareOn ==
  ASSUME CloseInv, NEW p, NEW l \in Lobbies, Learns(p, l)
  PROVE  Aware(p, l)'
BY DEF CloseInv, Learns, Fresh, Current, HostsOn, Aware

\* A lobby whose owner stays, with its members.
LEMMA RuledOn ==
  ASSUME Shape, Shape', UNCHANGED bounds, used.lobbies <= used'.lobbies, NEW l \in Lobbies, Ruled(l),
         steam'[l].owner = steam[l].owner, steam[l].members \subseteq steam'[l].members
  PROVE  Ruled(l)'
<1>1. l \in Nat /\ used.lobbies \in Nat /\ used'.lobbies \in Nat
  BY SameBounds, PeersFinite DEF Shape, SteamShape, Lobbies, Counts
<1> QED
  BY <1>1 DEF Ruled

\* A step that is all of that.
LEMMA CloseOn ==
  ASSUME CloseInv, UNCHANGED bounds, \A l \in Lobbies : Ruled(l)',
         \A p \in online', l \in Lobbies : Learns(p, l)
  PROVE  CloseInv'
<1>1. \A p \in online', l \in Lobbies : Aware(p, l)'
  BY AwareOn
<1>2. Lobbies' = Lobbies
  BY SameBounds
<1> QED
  BY <1>1, <1>2 DEF CloseInv

\* Steam's lobbies and caches are as they were.
LEMMA CloseSame ==
  ASSUME Shape, Shape', CloseInv, UNCHANGED <<bounds, online, steam, seen>>, used'.lobbies = used.lobbies,
         \A p \in online, l \in Lobbies : HostsOn(p, l) \/ seen[p][l].owner # p
  PROVE  CloseInv'
<1>1. \A l \in Lobbies : Ruled(l)'
  BY DEF CloseInv, Ruled
<1>2. \A p \in online', l \in Lobbies : Learns(p, l)
  BY DEF Learns, Fresh
<1> QED
  BY <1>1, <1>2, CloseOn

\* What they hold of whether it is closed.
LEMMA CachesClose ==
  ASSUME Shape, NEW l \in Lobbies, NEW ms \in SUBSET Peers, NEW q \in Peers
  PROVE  LET f == Members(l, ms)
         IN f[q][l].closed = seen[q][l].closed \/ f[q][l].closed = steam[l].closed
<1>1. seen[q] \in [Lobbies -> SeenOf] /\ seen[q][l] \in SeenOf
  BY DEF Shape, SteamShape, SeenOf
<1> DEFINE x == [seen[q][l] EXCEPT !.members = ms, !.closed = steam[l].closed]
           g == [seen[q] EXCEPT ![l] = x]
<1>2. x.closed = steam[l].closed
  BY <1>1 DEF SeenOf
<1>3. [seen[q] EXCEPT ![l].members = ms, ![l].closed = steam[l].closed] = g
  BY <1>1
<1> HIDE DEF x
<1>4. g[l] = x
  BY <1>1
<1> HIDE DEF g
<1>5. Members(l, ms)[q] = IF q \in Others(None, l) THEN g ELSE seen[q]
  BY <1>3 DEF Members
<1> HIDE DEF Members
<1> QED
  BY <1>2, <1>4, <1>5

\* Whoever departs hands its lobby on, and nobody else is misled.
LEMMA DepartsFresh ==
  ASSUME Shape, CloseInv, UNCHANGED bounds, used'.lobbies = used.lobbies, NEW p \in Peers, NEW l \in Lobbies,
         NEW mine \in SeenOf, NEW calls, Departs(p, l, mine, calls), p \in steam[l].members
  PROVE  /\ \A m \in Lobbies : Ruled(m)'
         /\ \A q \in Peers, m \in Lobbies : q # p \/ m # l => Fresh(q, m)
         /\ seen'[p][l] = mine
<1> DEFINE left == steam[l].members \ {p}
           Lobby == [members : SUBSET Peers, owner : {None} \cup Peers, closed : BOOLEAN]
<1>1. /\ steam \in [Lobbies -> Lobby] /\ steam[l] \in Lobby /\ left \in SUBSET Peers
      /\ seen \in [Peers -> [Lobbies -> SeenOf]] /\ p # None /\ Ruled(l)
  BY DEF Shape, SteamShape, SeenOf, Peers, None, CloseInv
<1>2. PICK heir \in IF steam[l].owner # p THEN {steam[l].owner} ELSE IF left = {} THEN {None} ELSE left :
        /\ steam' = [steam EXCEPT ![l].members = left, ![l].owner = heir]
        /\ seen' = [Members(l, left) EXCEPT ![p][l] = mine]
  BY DEF Departs
<1>3. heir \in left \cup {None} /\ (steam[l].owner = None => heir = None) /\ (steam[l].owner # p => heir = steam[l].owner)
  BY <1>1, <1>2 DEF Ruled
<1>4. /\ steam'[l].members = left /\ steam'[l].owner = heir /\ steam'[l].closed = steam[l].closed
      /\ \A m \in Lobbies : m # l => steam'[m] = steam[m]
  <2> DEFINE x == [steam[l] EXCEPT !.members = left, !.owner = heir]
  <2>1. steam' = [steam EXCEPT ![l] = x]
    BY <1>1, <1>2
  <2>2. x.members = left /\ x.owner = heir /\ x.closed = steam[l].closed
    BY <1>1
  <2> HIDE DEF x, Lobby, left
  <2> QED
    BY <1>1, <2>1, <2>2
<1> DEFINE f == Members(l, left)
<1>5. f \in [Peers -> [Lobbies -> SeenOf]]
  BY <1>1, CachesHear
<1>6. /\ \A q \in Peers : \A m \in Lobbies : q # p \/ m # l => seen'[q][m] = f[q][m]
      /\ seen'[p][l] = mine
  <2> DEFINE x == [f[p] EXCEPT ![l] = mine]
  <2>1. seen' = [f EXCEPT ![p] = x]
    BY <1>2
  <2> HIDE DEF f
  <2>2. x[l] = mine /\ \A m \in Lobbies : m # l => x[m] = f[p][m]
    BY <1>5
  <2> HIDE DEF x
  <2> QED
    BY <1>5, <2>1, <2>2
<1>7. ASSUME NEW q \in Peers, NEW m \in Lobbies
      PROVE  /\ f[q][m].owner = seen[q][m].owner /\ (m # l => f[q][m] = seen[q][m])
             /\ f[q][l].closed = seen[q][l].closed \/ f[q][l].closed = steam[l].closed
  <2> HIDE DEF left
  <2>1. Members(l, left)[q][m].owner = seen[q][m].owner /\ (m # l => Members(l, left)[q][m] = seen[q][m])
    BY <1>1, CachesAre
  <2>2. Members(l, left)[q][l].closed = seen[q][l].closed \/ Members(l, left)[q][l].closed = steam[l].closed
    BY <1>1, CachesClose
  <2> QED
    BY <2>1, <2>2
<1> HIDE DEF f
<1>8. ASSUME NEW m \in Lobbies PROVE Ruled(m)'
  <2>1. CASE m # l
    <3>1. steam'[m] = steam[m] /\ Ruled(m)
      BY <1>4, <2>1 DEF CloseInv
    <3> QED
      BY <3>1 DEF Ruled
  <2>2. CASE m = l
    <3> HIDE DEF left
    <3> QED BY <1>1, <1>3, <1>4, <2>2 DEF Ruled
  <2> QED
    BY <2>1, <2>2
<1>9. ASSUME NEW q \in Peers, NEW m \in Lobbies, q # p \/ m # l PROVE Fresh(q, m)
  <2>1. seen'[q][m] = f[q][m]
    BY <1>6, <1>9
  <2>2. CASE m # l
    BY <1>4, <1>7, <2>1, <2>2 DEF Fresh
  <2>3. CASE m = l
    BY <1>3, <1>4, <1>7, <1>9, <2>1, <2>3 DEF Fresh
  <2> QED
    BY <2>2, <2>3
<1> QED
  BY <1>6, <1>8, <1>9

\* What a frame comes to.
LEMMA CommitCloses ==
  ASSUME IInv, IInv', CloseInv, NEW p \in Peers, NEW w \in Works, NEW calls \in [Peers -> Seq(Callback)],
         Commit(p, w, calls), used'.lobbies = used.lobbies, Whole(w),
         world[p].entity.id # None =>
           Stays(Working(p), w) /\ \A l \in Lobbies : Keeps(Working(p), l) => Keeps(w, l)
  PROVE  CloseInv'
<1> DEFINE u == Working(p)
<1>1. /\ Shape /\ Shape' /\ u.entity = world[p].entity /\ u.leaves = None
      /\ Hosts(u) <=> Hosts(world[p])
  BY Begins DEF IInv
<1>2. /\ UNCHANGED <<online, bounds>> /\ world'[p] = Held(w)
      /\ \A q \in Peers : q # p => world'[q] = world[q]
  BY <1>1, CommitIs
<1>3. /\ Held(w).entity = w.entity /\ w.leaves \in {None} \cup Lobbies
      /\ online \subseteq Peers /\ p # None /\ \A l \in Lobbies : l # None
  <2>1. online \subseteq Peers /\ p # None /\ \A l \in Lobbies : l # None
    BY <1>1, PeersFinite DEF Shape, SteamShape, Peers, Lobbies, None
  <2> QED
    BY <2>1, HeldIs, WorkFields
<1>4. ASSUME NEW l \in Lobbies, Hosts(world[p]), world[p].entity.id = l, w.leaves # l PROVE HostsOn(p, l) /\ w.leaves = None
  <2>1. Keeps(u, l) /\ u.entity.id # None /\ world[p].entity.id # None
    BY <1>1, <1>3, <1>4 DEF Keeps
  <2>2. w.entity.id = l /\ w.leaves = None
    BY <1>4, <2>1 DEF Keeps
  <2>3. w.entity.stage # "none"
    BY <1>3, <2>2 DEF Whole, InALobby
  <2>4. Hosts(w)
    BY <1>1, <1>4, <2>1, <2>3 DEF Stays
  <2>5. Hosts(world'[p]) /\ world'[p].entity.id = l
    BY <1>2, <1>3, <2>2, <2>4 DEF Hosts
  <2> QED
    BY <2>2, <2>5 DEF HostsOn
<1> HIDE DEF u
<1>5. CASE w.leaves = None \/ p \notin online \/ p \notin steam[w.leaves].members
  <2>1. steam' = steam /\ seen' = seen
    BY <1>5 DEF Commit
  <2>2. ASSUME NEW q \in online, NEW l \in Lobbies PROVE HostsOn(q, l) \/ seen[q][l].owner # q
    <3>1. CASE q # p
      BY <1>2, <1>3, <3>1 DEF HostsOn
    <3>2. CASE q = p /\ seen[p][l].owner = p
      <4>1. Aware(p, l) /\ Ruled(l)
        BY <2>2, <3>2 DEF CloseInv
      <4>2. p \in steam[l].members
        BY <1>3, <3>2, <4>1 DEF Aware, Ruled
      <4>3. w.leaves # l
        BY <1>3, <1>5, <2>2, <3>2, <4>2
      <4> QED
        BY <1>4, <3>2, <4>3 DEF HostsOn
    <3> QED
      BY <3>1, <3>2
  <2> QED
    BY <1>1, <1>2, <2>1, <2>2, CloseSame
<1>6. CASE ~(w.leaves = None \/ p \notin online \/ p \notin steam[w.leaves].members)
  <2>1. Departs(p, w.leaves, Nothing, calls) /\ w.leaves \in Lobbies /\ p \in steam[w.leaves].members
    BY <1>3, <1>6 DEF Commit
  <2>2. Nothing \in SeenOf /\ Nothing.owner = None
    BY DEF Nothing, SeenOf
  <2>3. /\ \A m \in Lobbies : Ruled(m)'
        /\ \A q \in Peers, m \in Lobbies : q # p \/ m # w.leaves => Fresh(q, m)
        /\ seen'[p][w.leaves] = Nothing
    BY <1>1, <1>2, <2>1, <2>2, DepartsFresh
  <2>4. ASSUME NEW q \in online', NEW m \in Lobbies PROVE Learns(q, m)
    <3>1. q \in online /\ q \in Peers
      BY <1>2, <1>3
    <3>2. CASE q # p
      BY <1>2, <2>3, <3>1, <3>2 DEF Learns, HostsOn
    <3>3. CASE q = p /\ m = w.leaves
      BY <1>3, <2>2, <2>3, <3>3 DEF Learns
    <3>4. CASE q = p /\ m # w.leaves
      <4>1. HostsOn(p, m)
        BY <1>4, <3>4 DEF HostsOn
      <4> QED
        BY <2>3, <3>1, <3>4, <4>1 DEF Learns
    <3> QED
      BY <3>2, <3>3, <3>4
  <2> QED
    BY <1>2, <2>3, <2>4, CloseOn
<1> QED
  BY <1>5, <1>6

\* A frame, of whomever.
LEMMA FramesClose ==
  ASSUME IInv, IInv', CloseInv, NEW p \in Peers, NEW n \in News(p), Runs(p, n) \/ Leaves(p, n)
  PROVE  CloseInv'
<1>1. PICK wanted \in BOOLEAN : Update(p, n, wanted)
  BY DEF Runs, Leaves
<1> DEFINE e == world[p].entity
           b == wanted \/ e.closing
           calls == [callbacks EXCEPT ![p] = <<>>]
<1>2. PICK s \in Schedules(p, n) : Commit(p, Framed(p, n, b, s[1], s[2]), calls)
  BY <1>1 DEF Update
<1> DEFINE w == Framed(p, n, b, s[1], s[2])
<1>3. /\ Working(p) \in Works /\ Working(p).me = p /\ Working(p).entity = e /\ Whole(Working(p)) /\ Calls(p)
      /\ SteamShape /\ n.from \in Peers
  BY Begins, NewsIs DEF IInv, Shape
<1>4. b \in BOOLEAN
  <2>1. world[p] \in Worlds
    BY DEF IInv, Shape
  <2> QED
    BY <2>1 DEF Worlds, Entity, Entities
<1> HIDE DEF b, e
<1>5. /\ w \in Works /\ Whole(w)
      /\ Working(p).entity.id # None =>
           Stays(Working(p), w) /\ \A l \in Lobbies : Keeps(Working(p), l) => Keeps(w, l)
  BY <1>3, <1>4, FrameAny
<1>6. Commit(p, w, calls)
  BY <1>2
<1> HIDE DEF w
<1>7. calls \in [Peers -> Seq(Callback)]
  <2>1. callbacks \in [Peers -> Seq(Callback)] /\ <<>> \in Seq(Callback)
    BY DEF IInv, Shape
  <2> QED
    BY <2>1
<1>8. used'.lobbies = used.lobbies
  BY SpendsNone DEF Runs, Leaves, IInv
<1> HIDE DEF calls
<1>9. Working(p).entity = world[p].entity
  BY <1>3 DEF e
<1> QED
  BY <1>5, <1>6, <1>7, <1>8, <1>9, CommitCloses

\* Everybody hosts what it hosted.
LEMMA HostsAlike ==
  ASSUME NEW q, world'[q].entity.id = world[q].entity.id, Hosts(world[q]) => Hosts(world'[q])
  PROVE  \A l : HostsOn(q, l)
BY DEF HostsOn

\* A host that closes its lobby, one that is reached, and a game that asks.
LEMMA MarksClose ==
  ASSUME IInv, IInv', CloseInv, NEW p \in Peers,
         close_lobby(p) \/ Reached(p) \/ create_lobby(p) \/ \E l \in Lobbies : join_requested_lobbies(p, l)
  PROVE  CloseInv'
<1>1. /\ world[p].entity \in Entity /\ world \in [Peers -> Worlds] /\ Shape /\ Shape' /\ online \subseteq Peers
      /\ \A l \in Lobbies : l # None
      /\ steam \in [Lobbies -> [members : SUBSET Peers, owner : {None} \cup Peers, closed : BOOLEAN]]
  BY PeersFinite DEF IInv, Shape, SteamShape, Worlds, Lobbies, None
<1>2. CASE close_lobby(p)
  <2> DEFINE e == [world[p].entity EXCEPT !.closing = TRUE]
             l == world[p].entity.id
             x == [steam[l] EXCEPT !.closed = TRUE]
  <2>1. e \in Entity /\ e.id = l /\ e.stage = world[p].entity.stage
    BY <1>1 DEF Entity, Entities
  <2>2. /\ world' = [world EXCEPT ![p].entity = e] /\ Hosts(world[p]) /\ UNCHANGED <<bounds, online, callbacks, seen>>
        /\ steam' = IF p \in online /\ steam[l].owner = p THEN [steam EXCEPT ![l] = x] ELSE steam
    BY <1>2 DEF close_lobby, Quiet
  <2>3. used'.lobbies = used.lobbies /\ used.lobbies <= used'.lobbies
    BY <1>1, <1>2, SpendsNone, UsedIs DEF close_lobby
  <2>4. l \in Lobbies
    <3>1. Whole(world[p]) /\ l \in {None} \cup Lobbies
      BY <1>1 DEF IInv, Fits, Entity, Entities
    <3> QED
      BY <2>2, <3>1 DEF Whole, InALobby, Hosts
  <2>5. x.members = steam[l].members /\ x.owner = steam[l].owner
    BY <1>1, <2>4
  <2> HIDE DEF e, x
  <2>6. world'[p].entity = e /\ \A q \in Peers : q # p => world'[q] = world[q]
    BY <1>1, <2>1, <2>2, Entering
  <2>7. \A q \in Peers, m \in Lobbies : HostsOn(q, m)
    BY <2>1, <2>2, <2>6 DEF HostsOn, Hosts
  <2>8. CASE ~(p \in online /\ steam[l].owner = p)
    BY <1>1, <2>2, <2>3, <2>7, <2>8, CloseSame
  <2>9. CASE p \in online /\ steam[l].owner = p
    <3>1. steam'[l] = x /\ \A m \in Lobbies : m # l => steam'[m] = steam[m]
      BY <1>1, <2>2, <2>4, <2>9
    <3>2. \A m \in Lobbies : steam'[m].members = steam[m].members /\ steam'[m].owner = steam[m].owner
      BY <2>5, <3>1
    <3>3. \A m \in Lobbies : Ruled(m)'
      BY <1>1, <2>2, <2>3, <3>2, RuledOn DEF CloseInv
    <3>4. ASSUME NEW q \in online, NEW m \in Lobbies PROVE Aware(q, m)'
      <4>1. Aware(q, m) /\ q \in Peers
        BY <1>1, <3>4 DEF CloseInv
      <4>2. CASE m # l
        BY <2>2, <2>7, <3>1, <4>1, <4>2 DEF Aware, HostsOn
      <4>3. CASE m = l /\ q = p
        <5>1. Hosts(world'[p]) /\ world'[p].entity.id = l
          BY <2>1, <2>2, <2>6 DEF Hosts
        <5> QED
          BY <2>9, <3>2, <4>3, <5>1 DEF Aware
      <4>4. CASE m = l /\ q # p
        BY <2>2, <2>9, <4>1, <4>4 DEF Aware
      <4> QED
        BY <4>2, <4>3, <4>4
    <3>5. Lobbies' = Lobbies
      BY <2>2, SameBounds
    <3> QED
      BY <2>2, <3>3, <3>4, <3>5 DEF CloseInv
  <2> QED
    BY <2>8, <2>9
<1>3. CASE Reached(p)
  <2> DEFINE e == [world[p].entity EXCEPT !.waits = "no"]
  <2>1. e \in Entity /\ e.id = world[p].entity.id /\ e.stage = world[p].entity.stage
    BY <1>1 DEF Entity, Entities
  <2>2. world' = [world EXCEPT ![p].entity = e] /\ UNCHANGED <<bounds, online, callbacks, seen, steam, used>>
    BY <1>3 DEF Reached, Quiet, services
  <2> HIDE DEF e
  <2>3. world'[p].entity = e /\ \A q \in Peers : q # p => world'[q] = world[q]
    BY <1>1, <2>1, <2>2, Entering
  <2>4. \A q \in Peers, m \in Lobbies : HostsOn(q, m)
    BY <2>1, <2>3 DEF HostsOn, Hosts
  <2> QED
    BY <1>1, <2>2, <2>4, CloseSame
<1>4. CASE create_lobby(p) \/ \E l \in Lobbies : join_requested_lobbies(p, l)
  <2>1. PICK stage \in {"requested", "joining"} : \E ask : Ask(p, stage, ask)
    BY <1>4 DEF create_lobby, join_requested_lobbies
  <2> DEFINE e == [world[p].entity EXCEPT !.stage = stage]
  <2>2. e \in Entity
    BY <1>1 DEF Entity, Entities, Stages
  <2>3. /\ world' = [world EXCEPT ![p].entity = e] /\ UNCHANGED <<bounds, online, callbacks, seen, steam>>
        /\ world[p].entity.stage = "none" /\ used' = [used EXCEPT !.requests = @ + 1]
    BY <2>1 DEF Ask, Quiet
  <2>4. used'.lobbies = used.lobbies
    BY <1>1, <2>3 DEF Shape, Counts
  <2> HIDE DEF e
  <2>5. \A q \in Peers : q # p => world'[q] = world[q]
    BY <1>1, <2>2, <2>3, Entering
  <2>6. \A q \in Peers, m \in Lobbies : HostsOn(q, m)
    BY <2>3, <2>5 DEF HostsOn, Hosts
  <2> QED
    BY <1>1, <2>3, <2>4, <2>6, CloseSame
<1> QED
  BY <1>2, <1>3, <1>4

\* A player that a game removes, or that is silent.
LEMMA KicksClose ==
  ASSUME IInv, IInv', CloseInv, NEW p \in Peers, NEW q \in Peers, Kicks(p, q) \/ SeatGoesSilent(p, q)
  PROVE  CloseInv'
<1> DEFINE w == Unseated(world[p], Working(p), q)
<1>1. /\ Shape /\ Shape' /\ Working(p) \in Works /\ Working(p).seats = world[p].seats
      /\ Working(p).entity = world[p].entity /\ online \subseteq Peers
  BY Begins DEF IInv, Shape
<1>2. w = Unseated(Working(p), Working(p), q)
  BY <1>1 DEF Unseated, SeatOf
<1>3. SeatsOnly(Working(p), w)
  <2> HIDE DEF w
  <2> QED BY <1>1, <1>2, UnseatedIs
<1>4. /\ world' = [world EXCEPT ![p] = Held(w)]
      /\ UNCHANGED <<bounds, steam, seen, online>>
  BY DEF Kicks, SeatGoesSilent, services, Quiet
<1>5. used'.lobbies = used.lobbies
  BY <1>1, SpendsNone DEF Kicks, SeatGoesSilent
<1> HIDE DEF w
<1>6. Held(w).entity = world[p].entity
  BY <1>1, <1>3, HeldIs DEF SeatsOnly
<1> HIDE DEF Held
<1>7. \A x \in Peers : world'[x].entity = world[x].entity
  BY <1>1, <1>4, <1>6 DEF Shape
<1>8. \A x \in online, l \in Lobbies : HostsOn(x, l)
  BY <1>1, <1>7 DEF HostsOn, Hosts
<1> QED
  BY <1>1, <1>4, <1>5, <1>8, CloseSame

\* What Steam does to a peer that is in no lobby, and to its requests.
LEMMA NewsClose ==
  ASSUME IInv, IInv', CloseInv, NEW p \in Peers,
         \/ \E kind \in {"create", "join"} : Refuses(p, kind)
         \/ \E l \in Lobbies : SteamTells(p, l)
         \/ \E q \in Peers : SessionFails(p, q)
  PROVE  CloseInv'
<1>1. /\ Shape /\ Shape' /\ UNCHANGED <<bounds, online, world, steam>>
      /\ seen \in [Peers -> [Lobbies -> SeenOf]] /\ online \subseteq Peers
  BY DEF IInv, Shape, SteamShape, SeenOf, Refuses, Answering, SteamTells, SessionFails, services, Quiet
<1>2. used'.lobbies = used.lobbies
  BY <1>1, SpendsNone DEF Refuses, SteamTells, SessionFails
<1>3. \A q, l : HostsOn(q, l)
  BY <1>1 DEF HostsOn
<1>4. CASE UNCHANGED seen
  BY <1>1, <1>2, <1>3, <1>4, CloseSame
<1>5. CASE \E l \in Lobbies : SteamTells(p, l)
  <2>1. PICK l \in Lobbies : SteamTells(p, l)
    BY <1>5
  <2> DEFINE x == [seen[p][l] EXCEPT !.owner = steam[l].owner, !.closed = steam[l].closed]
             f == [seen[p] EXCEPT ![l] = x]
  <2>2. x.owner = steam[l].owner /\ x.closed = steam[l].closed
    BY <1>1 DEF SeenOf
  <2>3. seen' = [seen EXCEPT ![p] = f]
    BY <1>1, <2>1 DEF SteamTells
  <2> HIDE DEF x
  <2>4. f[l] = x /\ \A m \in Lobbies : m # l => f[m] = seen[p][m]
    BY <1>1
  <2> HIDE DEF f
  <2>5. seen'[p] = f /\ \A q \in Peers : q # p => seen'[q] = seen[q]
    BY <1>1, <2>3
  <2>6. ASSUME NEW q \in online', NEW m \in Lobbies PROVE Learns(q, m)
    <3>1. (q = p /\ m = l) \/ seen'[q][m] = seen[q][m]
      BY <1>1, <2>4, <2>5
    <3> QED
      BY <1>1, <1>3, <2>2, <2>4, <2>5, <3>1 DEF Learns, Fresh, Current
  <2>7. \A m \in Lobbies : Ruled(m)'
    BY <1>1, <1>2 DEF CloseInv, Ruled
  <2> QED
    BY <1>1, <2>6, <2>7, CloseOn
<1> QED
  BY <1>4, <1>5 DEF Refuses, SessionFails, services

\* Whoever drops out is not asked, and whoever is back knows what Steam knows.
LEMMA OutAndBackClose ==
  ASSUME IInv, IInv', CloseInv, NEW p \in Peers, Drops(p) \/ Returns(p)
  PROVE  CloseInv'
<1>1. /\ Shape /\ Shape' /\ UNCHANGED <<bounds, world>> /\ online \subseteq Peers
      /\ seen \in [Peers -> [Lobbies -> SeenOf]]
  BY DEF IInv, Shape, SteamShape, SeenOf, Drops, Returns, Quiet
<1>2. \A q, l : HostsOn(q, l)
  BY <1>1 DEF HostsOn
<1>3. CASE Drops(p)
  <2>1. PICK l \in Lobbies : p \in steam[l].members /\ Departs(p, l, seen[p][l], callbacks)
    BY <1>3 DEF Drops
  <2>2. seen[p][l] \in SeenOf /\ online' = online \ {p} /\ used'.lobbies = used.lobbies
    BY <1>1, <1>3, SpendsNone DEF Drops
  <2>3. /\ \A m \in Lobbies : Ruled(m)'
        /\ \A q \in Peers, m \in Lobbies : q # p \/ m # l => Fresh(q, m)
    BY <1>1, <2>1, <2>2, DepartsFresh
  <2>4. ASSUME NEW q \in online', NEW m \in Lobbies PROVE Learns(q, m)
    BY <1>1, <1>2, <2>2, <2>3 DEF Learns
  <2> QED
    BY <1>1, <2>3, <2>4, CloseOn
<1>4. CASE Returns(p)
  <2> DEFINE known == [l \in Lobbies |-> [members |-> {}, owner |-> steam[l].owner, closed |-> steam[l].closed]]
  <2>1. online' = online \cup {p} /\ seen' = [seen EXCEPT ![p] = known] /\ UNCHANGED <<steam, used>>
    BY <1>4 DEF Returns
  <2>2. seen'[p] = known /\ \A q \in Peers : q # p => seen'[q] = seen[q]
    BY <1>1, <2>1
  <2>3. \A m \in Lobbies : seen'[p][m].owner = steam[m].owner /\ seen'[p][m].closed = steam[m].closed
    BY <2>2
  <2> HIDE DEF known
  <2>4. ASSUME NEW q \in online', NEW m \in Lobbies PROVE Learns(q, m)
    BY <1>1, <1>2, <2>1, <2>2, <2>3 DEF Learns, Fresh, Current
  <2>5. \A m \in Lobbies : Ruled(m)'
    BY <1>1, <2>1 DEF CloseInv, Ruled
  <2> QED
    BY <1>1, <2>4, <2>5, CloseOn
<1> QED
  BY <1>3, <1>4

\* A lobby that is created is open, and nobody but its creator thinks it owns it.
LEMMA CreatesClose ==
  ASSUME IInv, IInv', CloseInv, NEW p \in Peers, Creates(p)
  PROVE  CloseInv'
<1> DEFINE l == used.lobbies + 1
           made == [members |-> {p}, owner |-> p, closed |-> FALSE]
           Lobby == [members : SUBSET Peers, owner : {None} \cup Peers, closed : BOOLEAN]
<1>1. /\ Shape /\ Shape' /\ used \in Counts /\ online \subseteq Peers
      /\ steam \in [Lobbies -> Lobby] /\ seen \in [Peers -> [Lobbies -> SeenOf]]
      /\ bounds.lobbies \in Nat
  BY PeersFinite DEF IInv, Shape, SteamShape, SeenOf
<1>2. /\ Answering(p, "create") /\ used.lobbies < bounds.lobbies
      /\ used' = [used EXCEPT !.lobbies = @ + 1]
      /\ steam' = [steam EXCEPT ![l] = made]
      /\ seen' = [seen EXCEPT ![p][l] = made]
  BY DEF Creates
<1>3. /\ l \in Lobbies /\ used.lobbies \in Nat /\ used'.lobbies = l /\ used.lobbies <= l /\ ~(l <= used.lobbies)
      /\ \A m \in Lobbies : m <= used.lobbies => m <= l
      /\ l <= l
  <2>1. l \in Lobbies /\ used.lobbies \in Nat /\ used'.lobbies = l
    BY <1>1, <1>2 DEF Counts, Lobbies
  <2>2. \A m \in Lobbies : m \in Nat
    BY <1>1 DEF Lobbies
  <2> QED
    BY <2>1, <2>2
<1>4. UNCHANGED <<online, world, bounds>>
  BY <1>2 DEF Answering, Quiet
<1>5. made.members = {p} /\ made.owner = p /\ made.closed = FALSE
  OBVIOUS
<1> HIDE DEF l, made, Lobby
<1>6. steam'[l] = made /\ \A m \in Lobbies : m # l => steam'[m] = steam[m]
  BY <1>1, <1>2, <1>3
<1>7. /\ seen'[p][l] = made
      /\ \A q \in Peers, m \in Lobbies : q # p \/ m # l => seen'[q][m] = seen[q][m]
  <2> DEFINE f == [seen[p] EXCEPT ![l] = made]
  <2>1. f[l] = made /\ (\A m \in Lobbies : m # l => f[m] = seen[p][m]) /\ seen' = [seen EXCEPT ![p] = f]
    BY <1>1, <1>2, <1>3
  <2> HIDE DEF f
  <2> QED
    BY <1>1, <2>1
<1>8. ASSUME NEW m \in Lobbies PROVE Ruled(m)'
  <2>1. CASE m = l
    BY <1>3, <1>5, <1>6, <2>1 DEF Ruled
  <2>2. CASE m # l
    <3>1. Ruled(m)
      BY DEF CloseInv
    <3>2. m <= used'.lobbies \/ steam[m].owner = None
      BY <1>3, <3>1 DEF Ruled
    <3> QED
      BY <1>6, <2>2, <3>1, <3>2 DEF Ruled
  <2> QED
    BY <2>1, <2>2
<1>9. ASSUME NEW q \in online', NEW m \in Lobbies PROVE Learns(q, m)
  <2>1. q \in online /\ q \in Peers /\ q # None /\ HostsOn(q, m)
    BY <1>1, <1>4 DEF HostsOn, Peers, None
  <2>2. CASE m = l /\ q = p
    BY <1>5, <1>6, <1>7, <2>2 DEF Learns, Current
  <2>3. CASE m = l /\ q # p
    <3>1. Ruled(l) /\ Aware(q, l)
      BY <1>3, <2>1 DEF CloseInv
    <3>2. seen[q][l].owner # q
      BY <1>3, <2>1, <3>1 DEF Ruled, Aware
    <3> QED
      BY <1>7, <2>1, <2>3, <3>2 DEF Learns
  <2>4. CASE m # l
    BY <1>6, <1>7, <2>1, <2>4 DEF Learns, Fresh
  <2> QED
    BY <2>2, <2>3, <2>4
<1> QED
  BY <1>4, <1>8, <1>9, CloseOn

\* Whoever joins knows what Steam knows.
LEMMA JoinsClose ==
  ASSUME IInv, IInv', CloseInv, NEW p \in Peers, Joins(p)
  PROVE  CloseInv'
<1> DEFINE Lobby == [members : SUBSET Peers, owner : {None} \cup Peers, closed : BOOLEAN]
<1>1. /\ Shape /\ Shape' /\ steam \in [Lobbies -> Lobby] /\ online \subseteq Peers
  BY DEF IInv, Shape, SteamShape
<1>2. Answering(p, "join") /\ UNCHANGED used
  BY DEF Joins
<1>3. Head(asks[p]) \in Asked /\ Head(asks[p]).kind = "join" /\ UNCHANGED <<online, world, bounds>>
  BY <1>2, AnsweringIs
<1>4. PICK l \in Lobbies : l = Head(asks[p]).id
  BY <1>3 DEF Asked
<1>5. PICK members \in SUBSET Peers : members = steam[l].members \cup {p}
  BY <1>1
<1> DEFINE known == [members |-> members, owner |-> steam[l].owner, closed |-> steam[l].closed]
<1>6. known.owner = steam[l].owner /\ known.closed = steam[l].closed
  OBVIOUS
<1>7. /\ steam' = [steam EXCEPT ![l].members = members]
      /\ seen' = [Members(l, members) EXCEPT ![p][l] = known]
  BY <1>4, <1>5 DEF Joins
<1> HIDE DEF known
<1>8. /\ steam'[l].members = members /\ steam'[l].owner = steam[l].owner /\ steam'[l].closed = steam[l].closed
      /\ \A m \in Lobbies : m # l => steam'[m] = steam[m]
  <2> DEFINE x == [steam[l] EXCEPT !.members = members]
  <2>1. steam[l] \in Lobby /\ steam' = [steam EXCEPT ![l] = x]
    BY <1>1, <1>7
  <2>2. x.members = members /\ x.owner = steam[l].owner /\ x.closed = steam[l].closed
    BY <2>1
  <2> HIDE DEF x, Lobby
  <2> QED
    BY <1>1, <2>1, <2>2
<1> HIDE DEF Lobby
<1> DEFINE f == Members(l, members)
<1>9. f \in [Peers -> [Lobbies -> SeenOf]]
  BY <1>1, CachesHear
<1>10. /\ seen'[p][l] = known
       /\ \A q \in Peers : \A m \in Lobbies : q # p \/ m # l => seen'[q][m] = f[q][m]
  <2> DEFINE x == [f[p] EXCEPT ![l] = known]
  <2>1. seen' = [f EXCEPT ![p] = x]
    BY <1>7
  <2> HIDE DEF f
  <2>2. x[l] = known /\ \A m \in Lobbies : m # l => x[m] = f[p][m]
    BY <1>9
  <2> HIDE DEF x
  <2> QED
    BY <1>9, <2>1, <2>2
<1>11. ASSUME NEW q \in Peers, NEW m \in Lobbies
       PROVE  /\ f[q][m].owner = seen[q][m].owner /\ (m # l => f[q][m] = seen[q][m])
              /\ f[q][l].closed = seen[q][l].closed \/ f[q][l].closed = steam[l].closed
  BY <1>1, CachesAre, CachesClose
<1> HIDE DEF f
<1>12. ASSUME NEW m \in Lobbies PROVE Ruled(m)'
  <2>1. steam'[m].owner = steam[m].owner /\ steam[m].members \subseteq steam'[m].members
    BY <1>5, <1>8
  <2>2. Ruled(m) /\ used.lobbies <= used'.lobbies
    BY <1>1, <1>2, UsedIs DEF CloseInv
  <2> QED
    BY <1>1, <1>3, <2>1, <2>2, RuledOn
<1>13. ASSUME NEW q \in online', NEW m \in Lobbies PROVE Learns(q, m)
  <2>1. q \in online /\ q \in Peers /\ HostsOn(q, m)
    BY <1>1, <1>3 DEF HostsOn
  <2>2. CASE m = l /\ q = p
    BY <1>6, <1>8, <1>10, <2>2 DEF Learns, Current
  <2>3. CASE m # l
    BY <1>8, <1>10, <1>11, <2>1, <2>3 DEF Learns, Fresh
  <2>4. CASE m = l /\ q # p
    BY <1>8, <1>10, <1>11, <2>1, <2>4 DEF Learns, Fresh
  <2> QED
    BY <2>2, <2>3, <2>4
<1> QED
  BY <1>3, <1>12, <1>13, CloseOn

\* No step misleads anybody.
LEMMA NextCloses ==
  ASSUME IInv, IInv', CloseInv, Next
  PROVE  CloseInv'
<1>1. CASE Service
  BY <1>1, CreatesClose, JoinsClose, OutAndBackClose, NewsClose DEF Service
<1>2. CASE Frames
  BY <1>2, FramesClose, MarksClose, KicksClose DEF Frames
<1>3. CASE Game
  BY <1>3, MarksClose, KicksClose DEF Game
<1> QED
  BY <1>1, <1>2, <1>3 DEF Next

\* So it is always.
LEMMA ClosesAlways == Spec => []CloseInv
<1>1. ASSUME Init PROVE CloseInv
  <2>1. \A l \in Lobbies : steam[l].owner = None
    BY <1>1 DEF Init
  <2>2. \A p \in online, l \in Lobbies : seen[p][l].owner = None /\ p # None
    BY <1>1 DEF Init, Nothing, Peers, None
  <2> QED
    BY <2>1, <2>2 DEF CloseInv, Ruled, Aware
<1>2. CloseInv /\ UNCHANGED vars => CloseInv'
  BY DEF vars, services, CloseInv, Ruled, Aware, Hosts, Lobbies
<1>3. IInv /\ IInv' /\ CloseInv /\ [Next]_vars => CloseInv'
  BY <1>2, NextCloses
<1> QED
  BY InvariantHolds, <1>1, <1>3, PTL DEF Spec

\* A client that becomes a host goes by its cache, and knows.
LEMMA TakesAnOpenLobby ==
  ASSUME IInv, CloseInv, NEW p \in online, Moves(p), IsClient(world[p]), Hosts(world'[p])
  PROVE  ~steam[world'[p].entity.id].closed
<1>1. p \in Peers
  BY DEF IInv, Shape
<1>2. PICK w \in Works : world'[p] = Held(w) /\ (world[p].entity.id # None => Stays(Working(p), w))
  BY DEF Moves, IsClient, Hosts
<1>3. PICK l \in Lobbies : l = world[p].entity.id /\ l # None
  <2>1. world[p].entity.id # None
    BY <1>1 DEF IInv, Fits, Whole, IsClient, InALobby
  <2>2. world[p].entity.id \in {None} \cup Lobbies
    BY <1>1 DEF IInv, Shape, Worlds, Entity, Entities
  <2> QED
    BY <2>1, <2>2
<1>4. Working(p).entity = world[p].entity /\ Working(p).me = p /\ ~Hosts(Working(p)) /\ ~Hosts(world[p])
  BY <1>1, Begins DEF IInv, IsClient, Hosts
<1>5. world'[p].entity = w.entity
  BY <1>2, HeldIs
<1>6. world'[p].entity.id = l /\ MayTake(p, l)
  BY <1>2, <1>3, <1>4, <1>5 DEF Stays, Hosts
<1>7. Aware(p, l)
  BY DEF CloseInv
<1> QED
  BY <1>4, <1>6, <1>7 DEF MayTake, Aware, Hosts, lobby_is_closed, lobby_owner

\* No client takes over a lobby that its host has closed on Steam's servers: it
\* goes by its own cache of the lobby (lobby_is_closed and lobby_owner, lib.rs),
\* which says that it is the owner only once it also says whether the lobby is
\* closed, whoever has left, dropped out or come back meanwhile.
THEOREM ClosedStaysClosed == Spec => ClosedIsNotTakenOver
<1> DEFINE Taken == \A p \in online : IsClient(world[p]) /\ Hosts(world'[p]) => ~steam[world'[p].entity.id].closed
<1>1. IInv /\ CloseInv /\ [Next]_vars => [Taken]_vars
  <2>1. ASSUME IInv, CloseInv, Next PROVE Taken
    <3>1. online \subseteq Peers
      BY <2>1 DEF IInv, Shape
    <3> QED
      BY <2>1, <3>1, NextMoves, TakesAnOpenLobby
  <2> QED
    BY <2>1
<1> QED
  BY InvariantHolds, ClosesAlways, <1>1, PTL DEF Spec, ClosedIsNotTakenOver

================================================================================
