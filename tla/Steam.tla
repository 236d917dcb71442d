--------------------------------- MODULE Steam ---------------------------------
(***************************************************************************)
(* The Steam backend: peers in lobbies that Steam's servers keep, with the *)
(* owner Steam names as host, and the callbacks, the cache and the packets *)
(* by which each peer hears of it.                                         *)
(*                                                                         *)
(* A frame of one peer is Update: what PreUpdate reads of the wire, then    *)
(* the three systems of this backend that change the lobby, in their order, *)
(* and among them one of the core's or of the handshakes.  A system's       *)
(* queries see the world as it found it, and its commands change it at the  *)
(* next sync point: where an operator takes two worlds, the first is what   *)
(* was seen and the second what the commands change.                        *)
(***************************************************************************)
EXTENDS Naturals, Sequences, FiniteSets, SequencesExt

CONSTANT Instances
\* A run is of so many peers and Steam lobbies, at most so many requests of a
\* game and so many upsets, of the kinds named.
ASSUME BoundAssumption ==
  \A i \in Instances : {i.peers, i.lobbies, i.requests, i.upsets} \subseteq Nat

VARIABLES steam,      \* the lobbies on Steam's servers
          seen,       \* each peer's cache of them
          online,     \* the peers that are connected to Steam
          asks,       \* create_lobby and join_lobby calls not answered yet, by peer
          callbacks,  \* SteamworksEvents each peer has not read yet
          world,      \* what each peer's app holds
          wire,       \* packets under way or not read yet
          told,       \* LobbyLeft and LobbyJoinFailed written in a peer's last step
          abandoned,  \* peers whose game gave up a request before Steam answered it
          used, bounds
services == <<steam, seen, online, asks>>
vars == <<services, callbacks, world, wire, told, abandoned, used, bounds>>

None == 0
Peers == 1..bounds.peers
Lobbies == 1..bounds.lobbies

\* The lobby entity.  requested: RequestLobby and Host, of a lobby Steam has not
\* created; joining: PendingLobby with no LobbySteamId yet; pending: with one;
\* client: Lobby without Host; host: Lobby and Host.
Stages == {"none", "requested", "joining", "pending", "client", "host"}
\* pin: LobbyHostSteamId; waits: AwaitingHost with no successor, or with one named.
Entities(ls, ps) == [stage : Stages, id : {None} \cup ls, pin : {None} \cup ps,
                     waits : {"no", "successor", "named"}, closing : BOOLEAN]
NoEntity == [stage |-> "none", id |-> None, pin |-> None, waits |-> "no", closing |-> FALSE]
\* current: CurrentSteamLobby; believes: HostUuid; seats: the entities with a
\* LobbyClientSteamId, LobbyClient or still PendingSteamLobbyClient.
NewWorld == [entity |-> NoEntity, seats |-> <<>>, current |-> None, believes |-> None]

Hosts(w) == w.entity.stage = "host"
IsClient(w) == w.entity.stage \in {"pending", "client"}

\* What a system has done besides: its words to the game, the Steam lobby it
\* left, the packets it sent.
Working(p) ==
  LET w == world[p]
  IN [entity |-> w.entity, seats |-> w.seats, current |-> w.current, believes |-> w.believes,
      me |-> p, words |-> 0, leaves |-> None, sends |-> {}]
Held(w) == [entity |-> w.entity, seats |-> w.seats, current |-> w.current, believes |-> w.believes]
Packet(kind, from, to) == [kind |-> kind, from |-> from, to |-> to]

lobby_owner(p, l) == seen[p][l].owner
lobby_members(p, l) == IF l = None THEN {} ELSE seen[p][l].members
lobby_is_closed(p, l) == seen[p][l].closed

------------------------------------------------------------------------------
\* The lobby entity and the seats

\* Observer of the removal of LobbySteamId.
forget_lobby_stay(w) ==
  [w EXCEPT !.believes = None, !.current = IF @ = w.entity.id THEN None ELSE @]
forget_lobby_only(w) == [w EXCEPT !.leaves = w.entity.id]
forget_lobby(w) ==
  IF w.entity.id = None THEN w
  ELSE [w EXCEPT !.leaves = w.entity.id, !.believes = None,
                 !.current = IF @ = w.entity.id THEN None ELSE @]
\* The seats go with the lobby, and are not told.
Despawn(w) == [forget_lobby(w) EXCEPT !.entity = NoEntity, !.seats = <<>>]
Ended(w) == [Despawn(w) EXCEPT !.words = @ + 1]

\* Commands run one after the other: only the first finds the entity.
tear_down_always(w) == Ended(w)
tear_down_client_lobby(w) == IF w.entity.stage = "none" THEN w ELSE Ended(w)

SeatOf(w, q) == {i \in DOMAIN w.seats : w.seats[i].of = q}
IsClientOf(q, p) == IsClient(world[q]) /\ world[q].entity.pin = p
Connected(h, p) == \E i \in SeatOf(world[h], p) : world[h].seats[i].connected
\* A seat for q, unless the world asked has one.
NewSeat(q) == [of |-> q, connected |-> FALSE]
ensure_pending(asked, w, q) ==
  IF SeatOf(asked, q) # {} THEN w ELSE [w EXCEPT !.seats = Append(@, NewSeat(q))]
\* The first seat of q goes.  One that was connected is a player removed from a
\* lobby that stands, and the core tells it so.
Unseated(asked, w, q) ==
  IF SeatOf(asked, q) = {} \/ Cardinality(SeatOf(w, q)) < Cardinality(SeatOf(asked, q)) THEN w
  ELSE LET i == CHOOSE i \in SeatOf(w, q) : \A j \in SeatOf(w, q) : i <= j
       IN [w EXCEPT !.seats = RemoveAt(@, i),
                    !.sends = IF w.seats[i].connected
                              THEN @ \cup {Packet("removed", w.me, q)} ELSE @]

\* host_lost of the core, of a lobby that may be handed on.
HostLost(w) ==
  IF ~IsClient(w) THEN w
  ELSE IF w.entity.stage = "pending" \/ (w.entity.waits = "no" /\ w.believes = None) THEN Ended(w)
  ELSE [w EXCEPT !.entity.waits = "successor"]

------------------------------------------------------------------------------
\* react_to_events: w0 is what its queries see

LobbyCreated(w0, w, c) ==
  IF ~c.ok
  THEN [(IF w0.entity.stage = "requested" THEN Despawn(w) ELSE w) EXCEPT !.words = @ + 1]
  ELSE [w EXCEPT !.believes = w.me, !.current = c.id,
                 !.entity = IF w0.entity.stage = "requested" /\ @.stage # "none"
                            THEN [NoEntity EXCEPT !.stage = "host", !.id = c.id] ELSE @]

\* Whatever pending entity waits for an answer takes this one.
LobbyEnter(w0, w, c) ==
  IF w0.entity.stage # "joining" THEN w
  ELSE IF ~c.ok THEN [Despawn(w) EXCEPT !.words = @ + 1]
  ELSE LET owner == lobby_owner(w.me, c.id)
       IN [w EXCEPT !.believes = owner, !.current = c.id,
                    !.entity = IF @.stage = "none" THEN @
                               ELSE [NoEntity EXCEPT !.stage = "pending", !.id = c.id, !.pin = owner]]

MemberLeft(w0, w, c) ==
  LET mine == IsClient(w0) /\ w0.entity.id = c.id
  IN CASE c.who = w.me -> IF mine THEN tear_down_client_lobby(w) ELSE w
       [] c.who # w.me /\ Hosts(w0) -> Unseated(w0, w, c.who)
       [] c.who # w.me /\ mine /\ w0.entity.pin = c.who ->
            IF w0.entity.stage = "client" /\ ~lobby_is_closed(w.me, c.id)
            THEN IF lobby_owner(w.me, c.id) = c.who THEN HostLost(w) ELSE w
            ELSE tear_down_client_lobby(w)
       [] OTHER -> w

MemberEntered(w0, w, c) == IF Hosts(w0) THEN ensure_pending(w0, w, c.who) ELSE w

SessionFailed(w0, w, c) ==
  IF Hosts(w0) THEN Unseated(w0, w, c.who)
  ELSE IF w0.entity.stage = "client" /\ w0.entity.pin = c.who
          /\ c.who \notin lobby_members(w.me, w0.entity.id)
  THEN HostLost(w) ELSE w

Handle(w0, w, c) ==
  CASE c.kind = "created" -> LobbyCreated(w0, w, c)
    [] c.kind = "enter" -> LobbyEnter(w0, w, c)
    [] c.kind = "left" -> MemberLeft(w0, w, c)
    [] c.kind = "entered" -> MemberEntered(w0, w, c)
    [] c.kind = "failed" -> SessionFailed(w0, w, c)
react_to_events(w0, w) ==
  LET read == callbacks[w0.me]
      after[i \in 0..Len(read)] == IF i = 0 THEN w ELSE Handle(w0, after[i - 1], read[i])
  IN after[Len(read)]

------------------------------------------------------------------------------
\* follow_lobby_owner, and session::leave_lobby after it

\* new_host_named of the core is part of the command, on the lobby repinned.
Promoted(w0, w) ==
  LET others == {q \in lobby_members(w.me, w0.entity.id) \ {w0.entity.pin, w.me} : SeatOf(w0, q) = {}}
      ordered == SetToSeq(others)
  IN [w EXCEPT !.entity.stage = "host", !.entity.pin = None, !.entity.waits = "no",
               !.believes = w.me,
               !.seats = @ \o [i \in DOMAIN ordered |-> NewSeat(ordered[i])]]
Following(w, owner) ==
  [w EXCEPT !.entity.pin = owner, !.believes = owner,
            !.entity.waits = IF w.entity.stage = "pending" THEN @ ELSE "named"]

\* An owner of None is no answer.
owner_change(w) ==
  LET owner == IF w.entity.id = None THEN None ELSE lobby_owner(w.me, w.entity.id)
  IN CASE owner = None \/ ~(Hosts(w) \/ IsClient(w)) -> "none"
       [] owner # None /\ Hosts(w) -> IF owner = w.me THEN "none" ELSE "replaced"
       [] owner # None /\ IsClient(w) -> IF owner = w.entity.pin THEN "none"
                                         ELSE IF owner = w.me THEN "promote" ELSE "follow"

\* A host that was replaced says so at once, and its lobby goes if it still stands.
Followed(w0, w) ==
  CASE owner_change(w0) = "promote" /\ w.entity.stage # "none" -> Promoted(w0, w)
    [] owner_change(w0) = "follow" /\ w.entity.stage # "none" ->
         Following(w, lobby_owner(w.me, w0.entity.id))
    [] owner_change(w0) = "replaced" -> Ended(w)
    [] OTHER -> w
follow_lobby_owner(w0, w) ==
  IF owner_change(w0) \in {"promote", "follow"} /\ lobby_is_closed(w.me, w0.entity.id)
  THEN tear_down_client_lobby(w) ELSE Followed(w0, w)

\* A request not answered yet, and a join not opened, go without a word; a
\* session says so at once, whether or not its lobby still stands when it is to go.
leave_lobby(w0, w, wanted) ==
  CASE ~wanted \/ w0.entity.stage = "none" -> w
    [] wanted /\ w0.entity.stage \in {"requested", "joining", "pending"} -> Despawn(w)
    [] wanted /\ w0.entity.stage \in {"host", "client"} -> Ended(w)

------------------------------------------------------------------------------
\* What a frame hears, and what the core and the handshake systems make of it

\* A packet, or a word of the core's own: a wait has run out, or nothing was
\* heard of the host for too long.
OwnWords == {"nothing", "clock", "silence"}

\* The session-request callback, then the gate; and a client takes orders from
\* the host the core believes in.
accept_session_request(w, q) == q \in lobby_members(w.me, w.current)
accept_packet(w, q) ==
  IF Hosts(w) THEN q \in lobby_members(w.me, w.entity.id)
  ELSE IsClient(w) /\ q = w.entity.pin
Admits(w, n) ==
  \/ n.kind \in OwnWords
  \/ accept_session_request(w, n.from) /\ accept_packet(w, n.from) /\ (Hosts(w) \/ w.believes = n.from)

\* PreUpdate: a host seats whoever it hears.
read_messages(w, n) ==
  IF n.kind \notin OwnWords /\ Hosts(w) /\ Admits(w, n) THEN ensure_pending(w, w, n.from) ELSE w

\* What the system concerned finds to do, in the world as it sees it; among
\* says of how many seats the one to be promoted is the first, or 0.
Order(do, q, among) == [do |-> do, of |-> q, among |-> among]
NoOrder == Order("nothing", None, 0)
Ordered(w, n) ==
  LET its == SeatOf(w, n.from)
      first == \E i \in its : ~w.seats[i].connected /\ \A j \in its : i <= j
      asItStood == w.entity = world[w.me].entity
  IN CASE n.kind = "ready" /\ Hosts(w) /\ \E i \in its : ~w.seats[i].connected ->
            Order("seat", n.from, IF first THEN Cardinality(its) ELSE 0)
       [] n.kind = "hosts" /\ w.entity.stage = "pending" /\ w.entity.pin = n.from ->
            Order("open", n.from, 0)
       [] n.kind = "removed" /\ IsClient(w) -> Order("end", n.from, 0)
       [] n.kind = "clock" /\ IsClient(w) /\ w.entity.waits # "no" /\ asItStood ->
            Order("end", n.from, 0)
       [] n.kind = "silence" /\ IsClient(w) /\ asItStood -> Order("lose", n.from, 0)
       [] OTHER -> NoOrder

\* promote_host_client_on_client_handshake: the first seat of q that waits.
Seated(w, q) ==
  LET waiting == {i \in SeatOf(w, q) : ~w.seats[i].connected}
      i == CHOOSE i \in waiting : \A j \in waiting : i <= j
  IN IF waiting = {} THEN w
     ELSE [w EXCEPT !.seats[i].connected = TRUE]

\* The command: what has gone meanwhile is not brought back (an insert into it
\* would panic: see the README).
CarriedOut(w, o) ==
  CASE o.do = "seat" -> IF Cardinality(SeatOf(w, o.of)) < o.among THEN w ELSE Seated(w, o.of)
    [] o.do = "open" -> IF w.entity.stage = "pending" THEN [w EXCEPT !.entity.stage = "client"] ELSE w
    [] o.do = "end" -> tear_down_client_lobby(w)
    [] o.do = "lose" -> HostLost(w)
    [] o.do = "nothing" -> w

------------------------------------------------------------------------------
\* Steam

Nothing == [members |-> {}, owner |-> None, closed |-> FALSE]
Others(p, l) == {q \in steam[l].members \ {p} : q \in online}
Tell(who, calls, c) == [q \in Peers |-> IF q \in who THEN Append(calls[q], c) ELSE calls[q]]
\* Who is a member comes behind whatever was made of the lobby's data before.
Members(l, members) ==
  [q \in Peers |-> IF q \in Others(None, l)
                   THEN [seen[q] EXCEPT ![l].members = members, ![l].closed = steam[l].closed]
                   ELSE seen[q]]

\* p is out of l.  Steam hands the lobby on; each cache learns who is a member
\* with it, and the owner later.
Departs(p, l, mine, calls) ==
  LET left == steam[l].members \ {p}
  IN \E heir \in IF steam[l].owner # p THEN {steam[l].owner} ELSE IF left = {} THEN {None} ELSE left :
       /\ steam' = [steam EXCEPT ![l].members = left, ![l].owner = heir]
       /\ seen' = [Members(l, left) EXCEPT ![p][l] = mine]
       /\ callbacks' = Tell(Others(p, l), calls, [kind |-> "left", id |-> l, who |-> p, ok |-> TRUE])

\* What p's step has come to.
Commit(p, w, calls) ==
  /\ world' = [world EXCEPT ![p] = Held(w)]
  /\ told' = [q \in Peers |-> IF q = p THEN w.words ELSE 0]
  /\ IF w.leaves = None \/ p \notin online \/ p \notin steam[w.leaves].members
     THEN steam' = steam /\ callbacks' = calls /\ seen' = seen
     ELSE Departs(p, w.leaves, Nothing, calls)
  /\ UNCHANGED <<online, bounds>>

Quiet == told' = [q \in Peers |-> 0] /\ UNCHANGED <<abandoned, bounds>>

\* create_lobby and join_lobby, asked for by a game that is in no lobby.
Ask(p, stage, ask) ==
  /\ world[p].entity.stage = "none" /\ used.requests < bounds.requests
  /\ used' = [used EXCEPT !.requests = @ + 1]
  /\ world' = [world EXCEPT ![p].entity.stage = stage]
  /\ asks' = [asks EXCEPT ![p] = Append(@, ask)]
  /\ Quiet /\ UNCHANGED <<steam, seen, online, callbacks, wire>>
create_lobby(p) == p \in bounds.hosts /\ Ask(p, "requested", [kind |-> "create", id |-> None])
join_requested_lobbies(p, l) ==
  l \in 1..used.lobbies /\ Ask(p, "joining", [kind |-> "join", id |-> l])

Upset(op) == op \in bounds.ops /\ used.upsets < bounds.upsets
Spend(op) == Upset(op) /\ used' = [used EXCEPT !.upsets = @ + 1]

Answer(p, kind, l, ok) == [kind |-> kind, id |-> l, who |-> p, ok |-> ok]
Answering(p, kind) ==
  /\ p \in online /\ asks[p] # <<>> /\ Head(asks[p]).kind = kind
  /\ asks' = [asks EXCEPT ![p] = Tail(@)]
  /\ Quiet /\ UNCHANGED <<online, world, wire>>
\* The creator is told that it entered, too.
Creates(p) ==
  /\ Answering(p, "create") /\ used.lobbies < bounds.lobbies
  /\ used' = [used EXCEPT !.lobbies = @ + 1]
  /\ LET l == used.lobbies + 1
     IN /\ steam' = [steam EXCEPT ![l] = [members |-> {p}, owner |-> p, closed |-> FALSE]]
        /\ seen' = [seen EXCEPT ![p][l] = [members |-> {p}, owner |-> p, closed |-> FALSE]]
        /\ callbacks' = [callbacks EXCEPT ![p] = @ \o <<Answer(p, "created", l, TRUE), Answer(p, "enter", l, TRUE)>>]
Joins(p) ==
  /\ Answering(p, "join") /\ UNCHANGED used
  /\ LET l == Head(asks[p]).id
         members == steam[l].members \cup {p}
     IN /\ steam[l].members # {}
        /\ steam' = [steam EXCEPT ![l].members = members]
        /\ seen' = [Members(l, members) EXCEPT ![p][l] = [members |-> members, owner |-> steam[l].owner,
                                                     closed |-> steam[l].closed]]
        /\ callbacks' = Tell({p}, Tell(Others(p, l), callbacks, Answer(p, "entered", l, TRUE)),
                             Answer(p, "enter", l, TRUE))
Refuses(p, kind) ==
  /\ Answering(p, kind)
  /\ \/ Spend("refuse")
     \/ kind = "join" /\ steam[Head(asks[p]).id].members = {} /\ UNCHANGED used
     \/ kind = "create" /\ used.lobbies = bounds.lobbies /\ UNCHANGED used
  /\ callbacks' = Tell({p}, callbacks,
                        Answer(p, IF kind = "create" THEN "created" ELSE "enter", None, FALSE))
  /\ UNCHANGED <<steam, seen>>

\* The cache hears who owns the lobby, and of its data.
SteamTells(p, l) ==
  /\ p \in online /\ p \in steam[l].members
  /\ seen[p][l].owner # steam[l].owner \/ seen[p][l].closed # steam[l].closed
  /\ seen' = [seen EXCEPT ![p][l].owner = steam[l].owner, ![p][l].closed = steam[l].closed]
  /\ Quiet /\ UNCHANGED <<steam, online, asks, callbacks, world, wire, used>>

\* A connection to Steam that is lost takes the peer out of its lobby.  When
\* it is back, Steam names whoever owns the lobby now, and says it has left.
Drops(p) ==
  /\ Spend("drop") /\ p \in online
  /\ online' = online \ {p}
  /\ \E l \in Lobbies : p \in steam[l].members /\ Departs(p, l, seen[p][l], callbacks)
  /\ Quiet /\ UNCHANGED <<asks, world, wire>>
Returns(p) ==
  /\ p \in Peers \ online /\ callbacks[p] = <<>>
  /\ online' = online \cup {p}
  /\ seen' = [seen EXCEPT ![p] = [l \in Lobbies |-> [members |-> {}, owner |-> steam[l].owner,
                                                    closed |-> steam[l].closed]]]
  /\ LET l == world[p].entity.id
     IN callbacks' = IF l = None THEN callbacks ELSE Tell({p}, callbacks, Answer(p, "left", l, TRUE))
  /\ Quiet /\ UNCHANGED <<steam, asks, world, wire, used>>

\* NetworkingMessagesSessionFailed.
SessionFails(p, q) ==
  /\ Spend("fail") /\ p # q /\ world[p].entity.id # None
  /\ callbacks' = Tell({p}, callbacks, Answer(q, "failed", None, TRUE))
  /\ Quiet /\ UNCHANGED <<services, world, wire>>

------------------------------------------------------------------------------
\* A peer's frames

\* Said every half second while there is something to open, so a handshake is
\* read in the step it is said in; a word of the core is said once.
send_client_handshakes(p) ==
  LET e == world[p].entity
  IN IF e.pin # None /\ (e.stage = "pending" \/ (e.stage = "client" /\ e.waits = "named"))
     THEN {Packet("ready", p, e.pin)} ELSE {}
send_host_handshakes_once(p) ==
  {Packet("hosts", p, s.of) : s \in {x \in ToSet(world[p].seats) : ~x.connected}}
send_host_handshakes(p) ==
  IF Hosts(world[p]) THEN {Packet("hosts", p, q) : q \in lobby_members(p, world[p].entity.id) \ {p}}
  ELSE {}
Handshakes == UNION {send_client_handshakes(p) \cup send_host_handshakes(p) : p \in Peers}

\* A host that does not answer is lost.
Unheard(p) ==
  LET e == world[p].entity
  IN e.stage = "client" /\ e.waits = "no" /\ e.pin # None /\ ~Connected(e.pin, p)
News(p) ==
  {pk \in wire \cup Handshakes : pk.to = p} \cup
  {Packet(word, p, p) : word \in {"nothing"} \cup (IF Unheard(p) THEN {"silence"} ELSE {})
                                 \cup (IF world[p].entity.waits # "no" THEN {"clock"} ELSE {})}

\* The three systems in their order, with a sync point behind each.  The system
\* the news concerns runs within the at-th stretch, and its commands, o, are
\* carried out with those of the system there, first or behind them.
Before(o, first, w) == IF first THEN CarriedOut(w, o) ELSE w
Behind(o, first, w) == IF first THEN w ELSE CarriedOut(w, o)
Framed(p, n, wanted, at, first) ==
  LET w0 == read_messages(Working(p), n)
      heard == IF Admits(Working(p), n) THEN n ELSE Packet("nothing", p, p)
      OrderAt(i, w) == IF i = at THEN Ordered(w, heard) ELSE NoOrder
      o0 == OrderAt(0, w0)
      w1 == Behind(o0, first, react_to_events(w0, Before(o0, first, w0)))
      o1 == OrderAt(1, w1)
      w2 == Behind(o1, first, follow_lobby_owner(w1, Before(o1, first, w1)))
      o2 == OrderAt(2, w2)
  IN Behind(o2, first, leave_lobby(w2, Before(o2, first, w2), wanted))

Schedules(p, n) ==
  IF Admits(Working(p), n) /\ n.kind # "nothing" THEN (0..2) \X BOOLEAN ELSE {<<0, TRUE>>}
Update(p, n, wanted) ==
  \E w \in {Framed(p, n, wanted \/ world[p].entity.closing, s[1], s[2]) : s \in Schedules(p, n)} :
    /\ Commit(p, w, [callbacks EXCEPT ![p] = <<>>])
    /\ wire' = (wire \ {n}) \cup w.sends
    /\ UNCHANGED asks
Runs(p, n) == Update(p, n, FALSE) /\ UNCHANGED <<used, abandoned>>
\* LeaveLobby in the middle of whatever the frame brings.
Leaves(p, n) ==
  /\ world[p].entity.stage # "none" /\ Update(p, n, TRUE)
  /\ IF world[p].entity.stage \in {"requested", "joining"}
     THEN Spend("abandon") /\ abandoned' = abandoned \cup {p}
     ELSE Spend("leave") /\ UNCHANGED abandoned

\* close_lobby: the data is set, the members are told, and the host leaves in
\* its next frame.
close_lobby(p) ==
  /\ Spend("close") /\ Hosts(world[p]) /\ ~world[p].entity.closing
  /\ world' = [world EXCEPT ![p].entity.closing = TRUE]
  /\ LET l == world[p].entity.id
     IN steam' = IF p \in online /\ steam[l].owner = p THEN [steam EXCEPT ![l].closed = TRUE] ELSE steam
  /\ wire' = wire \cup {Packet("removed", p, s.of) : s \in {x \in ToSet(world[p].seats) : x.connected}}
  /\ Quiet /\ UNCHANGED <<seen, online, asks, callbacks>>
\* A game removes a player: its seat is despawned.
Kicks(p, q) ==
  /\ Spend("kick") /\ Hosts(world[p])
  /\ Connected(p, q)
  /\ LET w == Unseated(world[p], Working(p), q)
     IN world' = [world EXCEPT ![p] = Held(w)] /\ wire' = wire \cup w.sends
  /\ Quiet /\ UNCHANGED <<services, callbacks>>

\* The core: a player who does not answer is removed.
SeatGoesSilent(p, q) ==
  /\ Hosts(world[p]) /\ Connected(p, q) /\ ~IsClientOf(q, p)
  /\ LET w == Unseated(world[p], Working(p), q)
     IN world' = [world EXCEPT ![p] = Held(w)] /\ wire' = wire \cup w.sends
  /\ Quiet /\ UNCHANGED <<services, callbacks, used>>
\* The new host seats this peer and they compare protocols.
Reached(p) ==
  /\ world[p].entity.waits = "named" /\ Connected(world[p].entity.pin, p)
  /\ world' = [world EXCEPT ![p].entity.waits = "no"]
  /\ Quiet /\ UNCHANGED <<services, callbacks, wire, used>>

------------------------------------------------------------------------------
Init ==
  /\ bounds \in Instances
  /\ steam = [l \in Lobbies |-> [members |-> {}, owner |-> None, closed |-> FALSE]]
  /\ seen = [p \in Peers |-> [l \in Lobbies |-> Nothing]]
  /\ online = Peers
  /\ asks = [p \in Peers |-> <<>>] /\ callbacks = [p \in Peers |-> <<>>]
  /\ world = [p \in Peers |-> NewWorld]
  /\ wire = {} /\ told = [p \in Peers |-> 0] /\ abandoned = {}
  /\ used = [requests |-> 0, upsets |-> 0, lobbies |-> 0]

Service ==
  \E p \in Peers : \/ Creates(p) \/ Joins(p) \/ Drops(p) \/ Returns(p)
                   \/ \E kind \in {"create", "join"} : Refuses(p, kind)
                   \/ \E l \in Lobbies : SteamTells(p, l)
                   \/ \E q \in Peers : SessionFails(p, q)
Frames ==
  \E p \in Peers : \/ \E n \in News(p) : Runs(p, n) \/ Leaves(p, n)
                   \/ Reached(p)
                   \/ \E q \in Peers : SeatGoesSilent(p, q)
Game ==
  \E p \in Peers : \/ create_lobby(p) \/ close_lobby(p)
                   \/ \E l \in Lobbies : join_requested_lobbies(p, l)
                   \/ \E q \in Peers : Kicks(p, q)
Next == Service \/ Frames \/ Game

Spec == Init /\ [][Next]_vars

------------------------------------------------------------------------------
\* Properties

\* The types of the variables; only a host has seats.
TypeOK ==
  /\ bounds \in Instances
  /\ online \subseteq Peers /\ abandoned \subseteq Peers
  /\ \A p \in Peers :
       /\ world[p].entity \in Entities(Lobbies, Peers)
       /\ {world[p].current, world[p].entity.id} \subseteq {None} \cup Lobbies
       /\ world[p].believes \in {None} \cup Peers
       /\ ~Hosts(world[p]) => world[p].seats = <<>>
       /\ told[p] \in Nat
  /\ \A pk \in wire : {pk.from, pk.to} \subseteq Peers

\* Whoever is a member of a Steam lobby holds that lobby, or is about to read
\* that it entered it: no leave, kick or failure leaves a peer listed to
\* everyone in a session it is not in.  Requests given up while Steam has not
\* answered are the exception, and go with StillListed.
ListedWhereItIs ==
  \A l \in Lobbies : \A p \in (steam[l].members \cap online) \ abandoned :
    \/ world[p].entity.id = l
    \/ \E c \in ToSet(callbacks[p]) : c.kind \in {"created", "enter"} /\ c.id = l

\* The host the core takes orders from, and the lobby whose members may open a
\* session, are those of the lobby entity: through every promotion, pin and
\* departure, and neither outlives it.
TrustGoesWithTheLobby ==
  \A p \in Peers \ abandoned :
    LET w == world[p]
    IN /\ w.current = w.entity.id
       /\ w.believes = CASE Hosts(w) -> p [] IsClient(w) -> w.entity.pin [] OTHER -> None

\* A session that opened and is over says so in the frame its lobby goes, and a
\* game is told that something is over only while it holds it and only when it
\* goes: by Steam, the core and the game at once, through commands that find
\* nothing left to end.  Once, too, unless the game asks to leave in the frame
\* in which somebody else ends the session: see OneEndPerSession.  (The verdict
\* on a host's build, which says so at once, too, is PeerSession's.)
OverIsTold ==
  [][\A p \in Peers \ abandoned' :
       LET was == world[p].entity
           is == world'[p].entity
       IN /\ told'[p] >= 1 => was.stage # "none" /\ is.stage = "none"
          /\ was.stage \in {"client", "host"} /\ is.stage = "none" => told'[p] >= 1
          /\ told'[p] >= 2 => told'[p] = 2 /\ \E n \in News(p) : Leaves(p, n)]_vars

\* No client takes a lobby over once its host has closed it on Steam's servers,
\* whoever Steam hands it to, however far the client's cache of owner, members
\* and data is behind, and whatever of the host's departure is heard first.  A
\* peer that has lost Steam goes by what it knew, and is not asked.
ClosedIsNotTakenOver ==
  [][\A p \in online : IsClient(world[p]) /\ Hosts(world'[p]) => ~steam[world'[p].entity.id].closed]_vars

\* Its owner pinned itself: see NobodyIsItsOwnHost.
OwnHost(p) == IsClient(world[p]) /\ world[p].entity.pin = p

InSession(l) ==
  \E h \in steam[l].members :
    /\ steam[l].owner = h /\ Hosts(world[h])
    /\ \A p \in online \ {h} : ~(Hosts(world[p]) /\ world[p].entity.id = l)
    /\ \A p \in steam[l].members \ {h} :
         /\ world[p].entity = [stage |-> "client", id |-> l, pin |-> h, waits |-> "no", closing |-> FALSE]
         /\ Connected(h, p)
    /\ \A s \in ToSet(world[h].seats) : s.connected => s.of \in steam[l].members
\* Nothing is left to answer, to hear of or to wait for, and no handshake that
\* is said again changes anything.
AtRest ==
  /\ online = Peers
  /\ \A p \in Peers :
       /\ asks[p] = <<>> /\ callbacks[p] = <<>> /\ world[p].entity.waits = "no" /\ ~Unheard(p)
       /\ \A q \in Peers : Hosts(world[p]) /\ Connected(p, q) => IsClientOf(q, p)
       /\ owner_change(Working(p)) = "none"
       /\ \A l \in Lobbies : p \in steam[l].members => seen[p][l].owner = steam[l].owner
  /\ \A p \in Peers : \A n \in News(p) :
       LET w == read_messages(Working(p), n)
       IN Admits(Working(p), n) => Held(CarriedOut(w, Ordered(w, n))) = world[p]
\* Nobody is stuck on the way into a session: at rest, whoever is in a Steam
\* lobby is in the session of its owner: one host, who has a connected seat for
\* each other member and for nobody else, and clients that are in, pinned to
\* it.  Unless the owner pinned itself, or gave up a request.
NobodyIsStuck ==
  AtRest => \A l \in Lobbies :
    steam[l].members = {} \/ InSession(l) \/ abandoned # {} \/ \E p \in Peers : OwnHost(p)

\* Contradicted: "abandoning the entity alone would leave this peer listed as a
\* member of a session it is not in" (session.rs), of a pending lobby.
StillListed ==
  \A l \in Lobbies : \A p \in steam[l].members \cap online :
    world[p].entity.stage = "none" => callbacks[p] # <<>>

\* Contradicted: "the client now hears LobbyLeft once" (docs/MIGRATION.md).
OneEndPerSession == [][\A p \in Peers \ abandoned' : told'[p] <= 1]_vars

\* Contradicted: "the Steam lobby's owner when the client joined" is a host.
NobodyIsItsOwnHost == \A p \in Peers : ~OwnHost(p)

==============================================================================
