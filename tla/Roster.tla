-------------------------------- MODULE Roster --------------------------------
(***************************************************************************)
(* A hosted lobby: the seats a host has for its clients, its participants, *)
(* and the copy of the participants every client keeps.                    *)
(*                                                                         *)
(* The host works in frames.  What a frame has read is in inbox; every     *)
(* system runs at most once in it, in any order the schedule allows.  The  *)
(* systems between two sync points read the host as it is; what they queue *)
(* is applied at the second, one system's commands after the other's in    *)
(* any order, each judged against the host as it finds it.                 *)
(* A client takes the host's word one message at a time; what happens to   *)
(* its session in a frame is PeerSession's matter.                         *)
(*                                                                         *)
(* The host's own participant is left out: it is there as long as the      *)
(* lobby is.  A player joins once: a new connection is a new player.       *)
(***************************************************************************)
EXTENDS Naturals, Sequences, FiniteSets, SequencesExt, InTurn, JoinOrder

CONSTANTS Clients,        \* the players that may join
          Watched,        \* those of them whose copy of the roster is followed
          Hold,           \* Reconnectable::within and reach_within, in frames
          Instances       \* bounds: see BoundAssumption

ASSUME ClientsAssumption == IsFiniteSet(Clients) /\ Watched \subseteq Clients
ASSUME HoldAssumption == Hold \in Nat \ {0}
\* A run is of some players, in a lobby that holds a lost seat or not, created
\* or inherited with members, with at most so many inputs in a frame, and at
\* most so many links broken, seats despawned by the game and clients gone.
ASSUME BoundAssumption ==
  Instances \subseteq [players : SUBSET Clients, members : SUBSET Clients, reconnectable : BOOLEAN,
                perFrame : Nat, troubles : Nat]

VARIABLES host,      \* what the host's commands act on: see Hosts
          inbox,     \* what this frame read: see Inputs
          due,       \* systems that had work when the frame began, and have not run
          ran,       \* systems that have run in this frame
          inFrame,   \* whether a frame is under way
          client,    \* the session of each client: see ClientStates
          view,      \* the participants each client knows of
          news,      \* the server's words about each player, on their way to the host
          bounds,    \* the instance this run is of
          troubles,  \* links broken, seats despawned by the game and clients that left, so far
          unheard    \* history: removals a client had no seat to hear, or lost with its link
frameVars == <<inbox, due, ran, inFrame>>
clientVars == <<client, view>>
vars == <<host, frameVars, clientVars, news, bounds, troubles, unheard>>

Systems == {"sockets", "events", "promotion", "redial", "clocks", "game",
            "seats", "syncs", "broadcast"}

\* A seat entity: none, PendingWebrtcLobbyClient with or without Redial, or LobbyClient.
Seats == {"none", "pending", "redial", "seated"}
\* The link as the host's socket knows it; a closing one still delivers.
LinkStates == {"none", "dialling", "up", "closing", "broken"}
\* out: no lobby yet, or none any more; waiting: AwaitingHost.
ClientStates == {"out", "joining", "in", "waiting", "gone"}

\* What the host says of the roster: players there are, or one that is gone.
Messages == [say : {"sync"}, who : SUBSET Clients] \cup [say : {"remove"}, who : SUBSET Clients]
Present(who) == [say |-> "sync", who |-> who]
Removed(c) == [say |-> "remove", who |-> {c}]

\* listed has a LobbyParticipant, held one with AwaitingSeat; fresh[s] are the
\* seats whose Added<LobbyClient> system s has not seen, changed the
\* participants whose change broadcast_changed_lobby_participants has not.
\* nth tells a seat entity from those the player had earlier in the frame;
\* batch is OutboundBatches.  Two
\* fields are history: crossed the players announced to a client behind their
\* removal, overtaken those dropped in the frame they were back or lost again,
\* or seated by a handshake of a link already dropped.
Hosts == [seat : [Clients -> Seats], nth : [Clients -> Nat], link : [Clients -> LinkStates],
          listed : SUBSET Clients, held : SUBSET Clients, waited : [Clients -> 0..Hold],
          fresh : [{"seats", "syncs"} -> SUBSET Clients], changed : SUBSET Clients,
          batch : [Clients -> Seq(Messages)],
          reconnectable : BOOLEAN, panicked : BOOLEAN,
          crossed : SUBSET Clients, overtaken : SUBSET Clients]

Inputs == [got : {"broken", "joined", "left", "handshake", "kick"}, of : Clients]
Input(got, c) == [got |-> got, of |-> c]

Seated(h) == {c \in Clients : h.seat[c] = "seated"}

------------------------------------------------------------------------------
\* What the commands do

\* A LobbyMessage on a host: one to every LobbyClient there is.  Of what is
\* said to a client that is not watched, only its own removal matters.
SayTo(h, c, message) ==
  IF c \in Watched \/ message = Removed(c) THEN [h EXCEPT !.batch[c] = Append(@, message)] ELSE h
SayToAll(h, message) ==
  [h EXCEPT !.batch = [c \in Clients |-> IF c \in Seated(h) THEN SayTo(h, c, message).batch[c] ELSE @[c]]]

\* EnsembleSocket::disconnect_peer: what was sent may still arrive.
Disconnect(h, c) ==
  [h EXCEPT !.link[c] = IF @ = "up" THEN "closing" ELSE IF @ = "closing" THEN @ ELSE "none"]

Unlist(h, c) ==
  [h EXCEPT !.listed = @ \ {c}, !.held = @ \ {c}, !.waited[c] = 0, !.changed = @ \ {c}]

\* What is batched for a seat that is gone finds no entity to be sent to.
Unseat(h, c) ==
  [h EXCEPT !.seat[c] = "none", !.batch[c] = <<>>,
            !.fresh = [s \in DOMAIN @ |-> @[s] \ {c}]]

\* A seat goes: its player is told at once and cut off, the others and the
\* roster follow.
OnSeatRemoved(h, c) ==
  Unlist(SayToAll(Unseat(Disconnect(h, c), c), Removed(c)), c)
DespawnSeat(h, c) ==
  IF h.seat[c] = "seated" THEN OnSeatRemoved(h, c) ELSE Unseat(h, c)

\* In a lobby that waits, the seat goes quietly and its player is held for.
SeatLinkLost(h, c) ==
  IF h.seat[c] # "seated" THEN h
  ELSE IF h.reconnectable /\ c \in h.listed
  THEN Unseat(Disconnect([h EXCEPT !.held = @ \cup {c}, !.waited[c] = 0], c), c)
  ELSE OnSeatRemoved(h, c)

\* The seat a command was queued for is there no more.
Gone(h, command) == h.seat[command.of] = "none" \/ h.nth[command.of] # command.nth

SeatWhoeverWasRead(h, command) ==
  LET c == command.of
  IN IF c \in h.listed THEN [h EXCEPT !.held = @ \ {c}, !.waited[c] = 0]
     ELSE [h EXCEPT !.listed = @ \cup {c}, !.changed = @ \cup {c}]
\* Looks at the seat again.  A participant there already was held for.
SeatParticipant(h, command) ==
  LET c == command.of
  IN IF Gone(h, command) \/ h.seat[c] # "seated" THEN h
     ELSE IF c \in h.listed THEN [h EXCEPT !.held = @ \ {c}, !.waited[c] = 0]
     ELSE [h EXCEPT !.listed = @ \cup {c}, !.changed = @ \cup {c}]

ParticipantDepartedQuietly(h, c) ==
  IF h.seat[c] = "seated" THEN OnSeatRemoved(h, c) ELSE Unlist(h, c)
ParticipantDeparted(h, c) ==
  IF h.seat[c] = "seated" THEN OnSeatRemoved(h, c)
  ELSE IF c \in h.listed THEN SayToAll(Unlist(h, c), Removed(c))
  ELSE h

\* The wait ran out: the participant the clock saw goes, and all are told.
DropParticipant(h, c) ==
  LET back == c \in Seated(h) \/ h.waited[c] = 0
  IN [SayToAll(Unlist(h, c), Removed(c)) EXCEPT !.overtaken = IF back THEN @ \cup {c} ELSE @]

\* What was read of the participants, whether they are there still or not.
Announce(h, who) == [h EXCEPT !.crossed = @ \cup (who \ h.listed)]

SpawnSeat(h, c, kind) == [h EXCEPT !.seat[c] = kind, !.nth[c] = @ + 1]

PromoteSeat(h, c) ==
  [h EXCEPT !.seat[c] = "seated", !.fresh = [s \in DOMAIN @ |-> @[s] \cup {c}],
            !.overtaken = IF h.link[c] = "dialling" THEN @ \cup {c} ELSE @]

\* A command for a seat entity that is gone does nothing, or panics when it
\* is insert and not try_insert.
Do(h, command) ==
  LET c == command.of
  IN CASE command.do = "seat" -> SeatParticipant(h, command)
       [] command.do = "departed" -> ParticipantDeparted(h, c)
       [] command.do = "drop" -> DropParticipant(h, c)
       [] command.do = "sync" -> SayToAll(Announce(h, command.who), Present(command.who))
       [] command.do = "spawn" -> SpawnSeat(h, c, command.kind)
       [] command.do = "promote" -> IF Gone(h, command) THEN [h EXCEPT !.panicked = TRUE] ELSE PromoteSeat(h, c)
       [] command.do = "linkLost" -> IF Gone(h, command) THEN h ELSE SeatLinkLost(h, c)
       [] command.do = "despawn" -> IF Gone(h, command) THEN h ELSE DespawnSeat(h, c)
       [] command.do = "syncTo" -> IF Gone(h, command) THEN h ELSE SayTo(Announce(h, command.who), c, Present(command.who))

\* The commands of one system.
Apply(h, queue) == InTurn(Do, h, queue)

------------------------------------------------------------------------------
\* The systems: what each queues

Read(got) == {c \in Clients : Input(got, c) \in inbox}
\* One command for each of these players; their order among them never matters.
ForEach(who, Command(_)) == SetToSeq({Command(c) : c \in who})
OnSeat(what, c) == [do |-> what, of |-> c, nth |-> host.nth[c]]
Spawn(c, kind) == [do |-> "spawn", of |-> c, kind |-> kind]
Has(c) == host.seat[c] # "none"

\* poll_socket_peers: a seated client's link is the core's to judge.
Sockets ==
  LET Lost(c) == OnSeat(IF host.seat[c] = "seated" THEN "linkLost" ELSE "despawn", c)
  IN ForEach({c \in Read("broken") : Has(c)}, Lost)

\* apply_lobby_events, the players' coming and going.  A seat spawned for one
\* this frame is its next.
Joined == ForEach(Read("joined"), LAMBDA c : Spawn(c, "pending"))
Left ==
  LET Leaver(c) == [OnSeat("despawn", c) EXCEPT !.nth = IF c \in Read("joined") THEN @ + 1 ELSE @]
      Departed(c) == [do |-> "departed", of |-> c]
  IN ForEach({c \in Read("left") : Has(c) \/ c \in Read("joined")}, Leaver)
       \o ForEach({c \in Read("left") : host.seat[c] # "seated"}, Departed)
Events == Joined \o Left

\* promote_host_client_on_client_handshake
Promotion ==
  ForEach({c \in Read("handshake") : host.seat[c] \in {"pending", "redial"}},
          LAMBDA c : OnSeat("promote", c))

\* redial_held_seats.  An attempt is dropped when its player is no longer held
\* for, and made again when it is REDIAL_EVERY old: stale says which are.
Dropped(stale) == {c \in Clients : host.seat[c] = "redial" /\ (c \notin host.held \/ c \in stale)}
Dialled(stale) == {c \in host.held : ~Has(c) \/ c \in Dropped(stale)}
Redials(stale) ==
  ForEach(Dropped(stale), LAMBDA c : OnSeat("despawn", c))
    \o ForEach(Dialled(stale), LAMBDA c : Spawn(c, "redial"))

\* run_host_migration_clocks
Waited == [c \in Clients |-> IF c \in host.held THEN host.waited[c] + 1 ELSE host.waited[c]]
ClocksOneEarly ==
  ForEach({c \in host.held : Waited[c] + 1 >= Hold}, LAMBDA c : [do |-> "drop", of |-> c])
Clocks ==
  ForEach({c \in host.held : Waited[c] >= Hold}, LAMBDA c : [do |-> "drop", of |-> c])

\* A game removes a player by despawning its seat.
Game == ForEach({c \in Read("kick") : Has(c)}, LAMBDA c : OnSeat("despawn", c))

\* add_remote_lobby_participants
NewSeats == ForEach(host.fresh.seats, LAMBDA c : OnSeat("seat", c))

SyncNewSeatsWithWhoIsHere ==
  ForEach(host.fresh.syncs,
          LAMBDA c : [do |-> "syncTo", of |-> c, nth |-> host.nth[c], who |-> host.listed \ host.held])
\* sync_existing_participants_to_new_lobby_clients
SyncNewSeats ==
  ForEach(host.fresh.syncs,
          LAMBDA c : [do |-> "syncTo", of |-> c, nth |-> host.nth[c], who |-> host.listed])

\* broadcast_changed_lobby_participants
Broadcast ==
  LET whoever == CHOOSE c \in Clients : TRUE
  IN IF host.changed = {} THEN <<>>
     ELSE <<[do |-> "sync", of |-> whoever, who |-> host.changed]>>

Queued(s, stale) ==
  CASE s = "sockets" -> Sockets
    [] s = "events" -> Events
    [] s = "promotion" -> Promotion
    [] s = "redial" -> Redials(stale)
    [] s = "clocks" -> Clocks
    [] s = "game" -> Game
    [] s = "seats" -> NewSeats
    [] s = "syncs" -> SyncNewSeats
    [] s = "broadcast" -> Broadcast

\* What the systems change at once: the socket's connections, the clocks, and
\* what each has seen.
AtOnce(systems, stale) ==
  LET redialled == IF "redial" \in systems THEN Dialled(stale) ELSE {}
      hungUp == IF "redial" \in systems THEN Dropped(stale) ELSE {}
      offered == IF "events" \in systems THEN Read("joined") ELSE {}
      closed == IF "sockets" \in systems THEN Read("broken") ELSE {}
  IN [host EXCEPT
        !.link = [c \in Clients |->
                    IF c \in redialled \cup offered THEN "dialling"
                    ELSE IF c \in hungUp \/ (c \in closed /\ @[c] = "broken") THEN "none" ELSE @[c]],
        !.waited = IF "clocks" \in systems THEN Waited ELSE @,
        !.fresh = [s \in DOMAIN @ |-> IF s \in systems THEN {} ELSE @[s]],
        !.changed = IF "broadcast" \in systems THEN {} ELSE @]

Inbound == [sockets |-> {"broken"}, events |-> {"joined", "left"},
            promotion |-> {"handshake"}, game |-> {"kick"}]
HasWork(s) ==
  \/ s \in DOMAIN Inbound /\ \E i \in inbox : i.got \in Inbound[s]
  \/ s = "clocks" /\ host.held # {}
  \/ s = "redial" /\ \E c \in Clients : \/ host.seat[c] = "none" /\ c \in host.held
                                        \/ host.seat[c] = "redial"
  \/ s \in DOMAIN host.fresh /\ host.fresh[s] # {}
  \/ s = "broadcast" /\ host.changed # {}

------------------------------------------------------------------------------
\* A frame

AtRest == ~inFrame /\ ~host.panicked

Init ==
  \E bound \in Instances :
    \* A lobby just created, or, with members, one its old host left to this peer.
    /\ host = [seat |-> [c \in Clients |-> IF c \in bound.members THEN "pending" ELSE "none"],
               nth |-> [c \in Clients |-> 0],
               link |-> [c \in Clients |-> IF c \in bound.members THEN "dialling" ELSE "none"],
               listed |-> bound.members, held |-> bound.members, waited |-> [c \in Clients |-> 0],
               fresh |-> [s \in {"seats", "syncs"} |-> {}], changed |-> {},
               batch |-> [c \in Clients |-> <<>>],
               reconnectable |-> bound.reconnectable, panicked |-> FALSE,
               crossed |-> {}, overtaken |-> {}]
    /\ client = [c \in Clients |-> IF c \in bound.members THEN "waiting" ELSE "out"]
    /\ view = [c \in Watched |-> IF c \in bound.members THEN bound.members ELSE {}]
    /\ inbox = {} /\ due = {} /\ ran = {}
    /\ inFrame = FALSE
    /\ news = [c \in Clients |-> <<>>]
    /\ bounds = bound /\ troubles = 0
    /\ unheard = [c \in Watched |-> {}]

\* What may have reached the host: only what is next to come, and only from a
\* client whose link is up.
Possible ==
  LET from(got, can) == {Input(got, c) : c \in {d \in Clients : can[d]}}
      said(word) == [c \in Clients |-> word \in ToSet(news[c])]
  IN from("joined", said("joined")) \cup from("left", said("left"))
       \cup from("broken", [c \in Clients |-> host.link[c] = "broken"])
       \cup from("handshake", [c \in Clients |-> /\ host.link[c] = "up" /\ client[c] # "gone"
                                                  /\ host.seat[c] \in {"pending", "redial"}])
       \cup from("kick", [c \in Clients |-> host.seat[c] = "seated" /\ troubles < bounds.troubles])

\* The server's words about a player are read in the order it said them.
InOrder(chosen) ==
  \A c \in Clients : Input("left", c) \in chosen /\ Head(news[c]) = "joined"
                     => Input("joined", c) \in chosen

BeginFrame ==
  /\ AtRest
  /\ \E chosen \in SUBSET Possible :
       /\ Cardinality(chosen) <= bounds.perFrame /\ InOrder(chosen)
       /\ inbox' = chosen
       /\ news' = [c \in Clients |->
                     Retain(news[c], {word \in {"joined", "left"} : Input(word, c) \notin chosen})]
       /\ troubles' = troubles + Cardinality({i \in chosen : i.got = "kick"})
  /\ UNCHANGED <<host, clientVars, bounds, unheard>>
  /\ due' = {s \in Systems : HasWork(s)'}
  /\ due' # {}
  /\ inFrame' = TRUE /\ ran' = {}

RemovesFor(h, c) == UNION {m.who : m \in {n \in ToSet(h.batch[c]) : n.say = "remove"}}
\* Who went without client c, which had no seat, having a message of it on its way.
Missed(before, after) ==
  LET Lost(c) == ((before.listed \ after.listed) \cup RemovesFor(before, c)) \ RemovesFor(after, c)
  IN [c \in Watched |->
        IF client[c] \in {"out", "gone"} THEN {}
        ELSE IF c \in Seated(before) \cap Seated(after) THEN unheard[c] ELSE unheard[c] \cup Lost(c)]

\* The systems up to the next sync point, and the sync point, which applies
\* what they queued in the order given.
Stretch(order, stale) ==
  LET systems == ToSet(order)
  IN /\ ran' = ran \cup systems /\ due' = due \ systems
     /\ host' = InTurn(LAMBDA h, s : Apply(h, Queued(s, stale)), AtOnce(systems, stale), order)
     /\ inbox' = {i \in inbox : \A s \in systems \cap DOMAIN Inbound : i.got \notin Inbound[s]}
     /\ unheard' = Missed(host, host')

\* redial_held_seats comes after poll_socket_peers, sync point included.
Update ==
  /\ inFrame /\ ~host.panicked
  /\ \E systems \in SUBSET {s \in Systems \ ran : HasWork(s)} :
       /\ systems # {}
       /\ "redial" \in systems => Read("broken") = {}
       /\ \E order \in SetToSeqs(systems) :
            \E stale \in SUBSET (IF "redial" \in systems THEN host.held ELSE {}) : Stretch(order, stale)
  /\ UNCHANGED <<inFrame, clientVars, news, bounds, troubles>>

\* apply_lobby_state on a client: one word of its host's.
ApplyLobbyState(known, message) ==
  IF message.say = "sync" THEN known \cup message.who ELSE known \ message.who

\* Last: flush_outbound, one packet to each seat, and with the first to a new
\* seat the protocol's announcement.  It arrives if the link is up, and a
\* client that waited is in again; what came before the announcement was
\* compared is held, and replayed behind it.
EndFrame ==
  LET arrives == {c \in Clients : host.link[c] = "up"}
      ended == {c \in arrives : client[c] \in {"in", "waiting"} /\ Removed(c) \in ToSet(host.batch[c])}
      reached == {c \in arrives \cap Seated(host) : client[c] = "waiting"}
  IN /\ inFrame /\ \A s \in due : ~HasWork(s)
     /\ inFrame' = FALSE /\ inbox' = {} /\ ran' = {} /\ due' = {}
     /\ host' = [host EXCEPT !.batch = [c \in Clients |-> <<>>], !.nth = [c \in Clients |-> 0],
                             !.link = [c \in Clients |-> IF c \in ended THEN "broken" ELSE @[c]]]
     /\ view' = [c \in Watched |->
                   IF c \in ended THEN {}
                   ELSE IF c \in arrives THEN InTurn(ApplyLobbyState, view[c], host.batch[c]) ELSE view[c]]
     /\ client' = [c \in Clients |-> IF c \in ended THEN "gone"
                                     ELSE IF c \in reached THEN "in" ELSE client[c]]
     /\ news' = [c \in Clients |-> IF c \in ended THEN Append(news[c], "left") ELSE news[c]]
     /\ unheard' = [c \in Watched |-> IF c \in arrives THEN unheard[c] ELSE unheard[c] \cup RemovesFor(host, c)]
     /\ UNCHANGED <<bounds, troubles>>

------------------------------------------------------------------------------
\* The network and the clients, between the host's frames

Between == AtRest /\ UNCHANGED <<frameVars, bounds>>

\* The server lets a player in, and tells the host.
JoinLobby(c) ==
  /\ Between /\ client[c] = "out"
  /\ client' = [client EXCEPT ![c] = "joining"]
  /\ news' = [news EXCEPT ![c] = Append(@, "joined")]
  /\ UNCHANGED <<host, view, troubles, unheard>>

\* The host's offer is answered, by a client that has no other connection.
Connect(c) ==
  /\ Between /\ host.link[c] = "dialling" /\ client[c] \in {"joining", "waiting"}
  /\ host' = [host EXCEPT !.link[c] = "up"]
  /\ client' = [client EXCEPT ![c] = IF @ = "joining" THEN "in" ELSE @]
  /\ UNCHANGED <<view, news, troubles, unheard>>

\* A link fails, or one being opened is given up on.
LinkBreaks(c) ==
  /\ Between /\ troubles < bounds.troubles /\ host.link[c] \in {"dialling", "up"}
  /\ host' = [host EXCEPT !.link[c] = "broken"]
  /\ troubles' = troubles + 1
  /\ UNCHANGED <<clientVars, news, unheard>>

\* The session of c is over: the server hears, and tells the host.
Leaves(c) ==
  /\ client' = [client EXCEPT ![c] = "gone"]
  /\ view' = [d \in Watched |-> IF d = c THEN {} ELSE view[d]]
  /\ news' = [news EXCEPT ![c] = Append(@, "left")]
  /\ UNCHANGED unheard

\* A link the host closed is closed.  If its last word came through, that the
\* client is removed, the client's session is over.
LinkCloses(c) ==
  /\ Between /\ host.link[c] = "closing"
  /\ host' = [host EXCEPT !.link[c] = "none"]
  /\ UNCHANGED troubles
  /\ \/ UNCHANGED <<clientVars, news, unheard>>
     \/ client[c] = "in" /\ Leaves(c)

\* Of its own will, or because its wait ran out.
LeaveLobby(c) ==
  /\ Between /\ client[c] \in {"joining", "in", "waiting"} /\ Leaves(c)
  /\ troubles < bounds.troubles /\ troubles' = troubles + 1
  /\ host' = [host EXCEPT !.link[c] = IF @ \in {"dialling", "up"} THEN "broken" ELSE "none"]

\* HostLost on a client: it waits if the lobby does, its roster kept.
NoticesTheBreak(c) ==
  /\ Between /\ client[c] = "in" /\ host.link[c] \notin {"up", "closing"}
  /\ IF host.reconnectable
     THEN client' = [client EXCEPT ![c] = "waiting"] /\ UNCHANGED <<view, news, unheard>>
     ELSE Leaves(c)
  /\ UNCHANGED <<host, troubles>>

\* PlayerLeft on a client: the host's to say, unless there is none to say it.
HearsADeparture(c) ==
  /\ Between /\ client[c] = "waiting"
  /\ \E gone \in view[c] :
       /\ client[gone] = "gone"
       /\ view' = [view EXCEPT ![c] = @ \ {gone}]
  /\ UNCHANGED <<host, client, news, troubles, unheard>>

Next ==
  \/ BeginFrame
  \/ Update
  \/ EndFrame
  \/ \E c \in bounds.players : \/ JoinLobby(c) \/ Connect(c) \/ LinkBreaks(c) \/ LinkCloses(c)
                               \/ LeaveLobby(c) \/ NoticesTheBreak(c)
  \/ \E c \in Watched : HearsADeparture(c)

Spec == Init /\ [][Next]_vars

------------------------------------------------------------------------------
\* The types of the variables; a wait and a change are of somebody listed.
TypeOK ==
  /\ host \in [seat : [Clients -> Seats], nth : [Clients -> Nat], link : [Clients -> LinkStates],
               listed : SUBSET Clients, held : SUBSET host.listed,
               waited : [Clients -> 0..Hold], fresh : [{"seats", "syncs"} -> SUBSET Clients],
               changed : SUBSET host.listed, batch : [Clients -> Seq(Messages)],
               reconnectable : BOOLEAN, panicked : BOOLEAN,
               crossed : SUBSET Clients, overtaken : SUBSET Clients]
  /\ inbox \subseteq Inputs /\ due \subseteq Systems /\ ran \subseteq Systems
  /\ inFrame \in BOOLEAN
  /\ client \in [Clients -> ClientStates] /\ view \in [Watched -> SUBSET Clients]
  /\ news \in [Clients -> Seq({"joined", "left"})]
  /\ unheard \in [Watched -> SUBSET Clients]

\* Nobody is listed by the host without a seat or a wait that will remove them;
\* and whoever has a seat that has been seen is listed and no longer held for,
\* unless their wait ran out in the very frame they came back.
RosterIsTheSeats ==
  AtRest =>
    /\ \A c \in host.listed : host.seat[c] = "seated" \/ c \in host.held
    /\ \A c \in Seated(host) \ host.fresh.seats :
         c \in host.overtaken \/ c \in host.listed \ host.held

\* All a client that is in will hear of the roster as it stands, it has heard.
Settled(c) ==
  /\ AtRest /\ client[c] = "in" /\ host.link[c] = "up" /\ host.seat[c] = "seated"
  /\ c \notin host.fresh.syncs /\ host.changed = {} /\ host.fresh.seats = {}

\* No client is left without a participant the host has.
NobodyIsMissing ==
  \A c \in Watched \ host.overtaken :
    Settled(c) => {d \in host.listed : client[d] # "gone"} \subseteq view[c]

\* A client shows somebody who is gone only if it had no seat when they went,
\* or was told of them behind their removal.
GhostsWereMissed ==
  \A c \in Watched : Settled(c) => view[c] \subseteq host.listed \cup unheard[c] \cup host.crossed \cup host.overtaken

\* Contradicted: "clients despawn the corresponding participant entity"
\* (docs/participants.md), of every player that is removed.
NoGhosts == \A c \in Watched : Settled(c) => view[c] \subseteq host.listed

\* A seat removed in the frame it was promoted in does not bring the host down.
RemovalNeverPanics == ~host.panicked

\* A player held for, and without a seat, is so for as long as was promised,
\* unless they leave, or were back in the frame an earlier wait ran out.
HeldUntilDue ==
  [][\A c \in host.held \ Seated(host) :
       c \notin host'.listed => host.waited[c] + 1 >= Hold \/ client[c] = "gone" \/ c \in host'.overtaken]_vars
==============================================================================
