------------------------------ MODULE MessagePath ------------------------------
(***************************************************************************)
(* The way of a message: encoded into the batches of a frame, flushed as   *)
(* packets, queued by the receiving socket, decoded or held until the      *)
(* sender's protocol is compared, and, when it was broadcast, relayed by   *)
(* the host to everyone.                                                   *)
(*                                                                         *)
(* A frame of one peer is one step: PreUpdate, the core's Update with what *)
(* the game sends before and after it, and Last.  No one else sees its     *)
(* inside; networks, sockets and backends act between frames.              *)
(***************************************************************************)
EXTENDS Outbound, InTurn, JoinOrder, SequencesExt

CONSTANTS Host, Clients, Instances
\* A run has these peers of a session, some clients of another build, and games
\* of the speakers that send so many
\* messages of these kinds, modes and sizes, burst in a frame; datagram, held_bytes and backlog
\* are the limits of the code.
ASSUME InstanceAssumption ==
  /\ Host \notin Clients /\ IsFiniteSet(Clients)
  /\ \A i \in Instances :
       /\ i.outdated \subseteq Clients /\ i.peers \cup i.speakers \subseteq {Host} \cup Clients
       /\ i.kinds \subseteq {"broadcast", "direct"} /\ i.modes \subseteq SendModes
       /\ {i.sends, i.burst, i.datagram, i.held_bytes} \subseteq Nat
       /\ i.sizes \cup {i.backlog} \subseteq Nat \ {0}

VARIABLES app,     \* what each peer's world holds
          inbox,   \* what each peer's socket received and its app has not drained
          wire,    \* packets under way between the host and a client, by channel
          owed,    \* messages put in a batch, with who they are from and to
          lost,    \* those dropped since: by the network, or for lack of room
          sent, bounds
vars == <<app, inbox, wire, owed, lost, sent, bounds>>

Peers == {Host} \cup Clients
Others(p) == IF p = Host THEN Clients ELSE {Host}
Links == {l \in Peers \X Peers : l[2] \in Others(l[1])}

Message(kind, id, origin, mode, size) ==
  [kind |-> kind, id |-> id, origin |-> origin, sender |-> origin, mode |-> mode, size |-> size]
Handshake(p) == Message("handshake", 0, p, "Reliable", 2)
Differs(p, q) == ({p, q} \cap bounds.outdated) # {}

\* end[q]: on the host the seat of q, on a client its lobby; none (pending, or
\* not seated yet), there, or gone.  verified: HandshakeVerified on it; matched:
\* ProtocolMatched; fresh: appeared since the core's Update last ran.
\* handshakes and envelopes are messages read and not handled, delivered what
\* the game got, relayed broadcasts and direct messages apart.  A step of p works
\* on its record, with what it puts in batches and what it drops; between frames
\* there is none of either.
NewApp(p) ==
  [me |-> p, batches |-> <<>>, puts |-> {}, drops |-> {},
   end |-> [q \in Others(p) |-> "none"], fresh |-> {}, verified |-> {}, matched |-> {},
   held |-> [q \in Others(p) |-> <<>>], handshakes |-> <<>>, envelopes |-> <<>>,
   delivered |-> [broadcast |-> <<>>, direct |-> <<>>]]

Owed(m, from, to) == [id |-> m.id, mode |-> m.mode, from |-> from, to |-> to]

-----------------------------------------------------------------------------
(* Sending. *)

encode_lobby_client_message(w, q, m) ==
  [w EXCEPT !.batches = push(@, q, m, bounds.datagram),
            !.puts = @ \cup (IF m.kind = "handshake" THEN {} ELSE {Owed(m, w.me, q)})]

\* A host's goes to every seat, compared or not; a client's to its host.
encode_lobby_message(w, m) ==
  InTurn(LAMBDA v, q : IF v.end[q] = "there" THEN encode_lobby_client_message(v, q, m) ELSE v,
           w, SetToSeq(Others(w.me)))

\* The host delivers its own at once.
encode_broadcast_message(w, m) ==
  encode_lobby_message(
    IF w.me = Host THEN [w EXCEPT !.delivered.broadcast = Append(@, m)] ELSE w, m)

\* Once to each entity that appeared.
announce_protocol(w) ==
  InTurn(LAMBDA v, q : encode_lobby_client_message(v, q, Handshake(v.me)), w, SetToSeq(w.fresh))

-----------------------------------------------------------------------------
(* Receiving. *)

SizeOf(packets) == InTurn(LAMBDA n, m : n + m.size, 0, packets)

\* The oldest go until the rest have room; the newest stays whatever its size.
hold(w, q, m) ==
  LET all == Append(w.held[q], m)
      Roomy == {i \in DOMAIN all : i = Len(all) \/ SizeOf(SubSeq(all, i, Len(all))) <= bounds.held_bytes}
      first == CHOOSE i \in Roomy : \A j \in Roomy : i <= j
  IN [w EXCEPT !.held[q] = SubSeq(all, first, Len(all)),
               !.drops = @ \cup {Owed(all[i], q, w.me) : i \in 1..(first - 1)}]

\* Handshakes and envelopes wait for a system of the core, the rest is the game's.
dispatch_message(w, q, m) ==
  CASE m.kind = "handshake" -> [w EXCEPT !.handshakes = Append(@, q)]
    [] m.kind = "broadcast" -> [w EXCEPT !.envelopes = Append(@, [transport |-> q, message |-> m])]
    [] m.kind = "direct" -> [w EXCEPT !.delivered.direct = Append(@, m)]

peer_is_verified(w, q) == q \in w.verified
HasALobby(w) == w.me = Host \/ w.end[Host] # "gone"

\* A handshake is read whoever says it, the other messages of its frame are not.
decode_message(w, q, m) ==
  IF m.kind = "handshake" \/ peer_is_verified(w, q) THEN dispatch_message(w, q, m)
  ELSE IF HasALobby(w) THEN hold(w, q, m)
  ELSE [w EXCEPT !.drops = @ \cup {Owed(m, q, w.me)}]
\* Not the code: a frame is let through for the handshake in it.
decode_whole_frame(w, d) ==
  InTurn(LAMBDA v, m : IF \E i \in DOMAIN d.packet : d.packet[i].kind = "handshake"
                         THEN dispatch_message(v, d.peer, m) ELSE decode_message(v, d.peer, m),
           w, d.packet)
decode_ensemble_packet(w, d) ==
  InTurn(LAMBDA v, m : decode_message(v, d.peer, m), w, d.packet)

\* The host says who sent it: the transport's word, not the envelope's.
relay_broadcast_envelope(w, e) ==
  IF w.me # Host THEN [w EXCEPT !.delivered.broadcast = Append(@, e.message)]
  ELSE LET m == [e.message EXCEPT !.sender = e.transport]
       IN [encode_lobby_message(w, m) EXCEPT !.delivered.broadcast = Append(@, m)]
relay_broadcast_envelopes(w) ==
  InTurn(relay_broadcast_envelope, [w EXCEPT !.envelopes = <<>>], w.envelopes)

-----------------------------------------------------------------------------
(* Comparing. *)

\* Not the code: what was held is popped from the end; it is read and not taken.
replay_newest_first(w, q) ==
  InTurn(LAMBDA v, m : dispatch_message(v, q, m), [w EXCEPT !.held[q] = <<>>], Reverse(w.held[q]))
replay_without_taking(w, q) ==
  InTurn(LAMBDA v, m : dispatch_message(v, q, m), w, w.held[q])
replay_held_packets(w, q) ==
  InTurn(LAMBDA v, m : dispatch_message(v, q, m), [w EXCEPT !.held[q] = <<>>], w.held[q])
Verify(w, q) ==
  IF peer_is_verified(w, q) THEN w ELSE replay_held_packets([w EXCEPT !.verified = @ \cup {q}], q)

\* Not the code: a match that finds no seat, or a pending lobby, is dropped.
verify_protocol_unmatched(w, q) ==
  IF ~Differs(w.me, q) THEN (IF w.end[q] = "there" THEN Verify(w, q) ELSE w)
  ELSE [w EXCEPT !.held[q] = <<>>,
                 !.drops = @ \cup {Owed(m, q, w.me) : m \in ToSet(w.held[q])},
                 !.end[q] = IF @ = "there" THEN "gone" ELSE @]
\* Nothing is said of a match to a client with no lobby, nor of a difference to
\* one whose lobby is pending.
verify_protocol(w, q) ==
  IF Differs(w.me, q)
  THEN [w EXCEPT !.held[q] = <<>>,
                 !.drops = @ \cup {Owed(m, q, w.me) : m \in ToSet(w.held[q])},
                 !.end[q] = IF @ = "there" THEN "gone" ELSE @,
                 !.verified = @ \ {q}]
  ELSE IF w.end[q] = "there" THEN Verify(w, q)
  ELSE IF HasALobby(w) THEN [w EXCEPT !.matched = @ \cup {q}]
  ELSE w
verify_protocols(w) == InTurn(verify_protocol, [w EXCEPT !.handshakes = <<>>], w.handshakes)

verify_promoted_peers(w) ==
  InTurn(Verify, [w EXCEPT !.matched = @ \ w.fresh], SetToSeq(w.fresh \cap w.matched))

-----------------------------------------------------------------------------
(* The frame, the game and the network. *)

\* verify_protocol and verify_promoted_peers run in either order.
Update(w) ==
  LET announced == [announce_protocol(w) EXCEPT !.fresh = {}]
      promoted == verify_promoted_peers([announced EXCEPT !.fresh = w.fresh])
      compared == verify_protocols(announced)
  IN {verify_protocols([promoted EXCEPT !.fresh = {}]),
      [verify_promoted_peers([compared EXCEPT !.fresh = w.fresh]) EXCEPT !.fresh = {}]}

\* What the game says in a frame, before the core's systems of Update or after.
\* It sends to a lobby that is there.
MaySend(w) == w.me = Host \/ w.end[Host] = "there"
send(w, m) ==
  IF ~MaySend(w) THEN w
  ELSE IF m.kind = "broadcast" THEN encode_broadcast_message(w, m) ELSE encode_lobby_message(w, m)
Says(p, n) ==
  {[i \in 1..n |-> Message(f[i].kind, sent + i, p, f[i].mode, f[i].size)] :
     f \in [1..n -> [kind : bounds.kinds, mode : bounds.modes, size : bounds.sizes]]}

\* One packet per batch; what is for an entity that is gone is not sent.
Channel(mode) == IF is_reliable(mode) THEN "reliable" ELSE "unreliable"
Packets(w, q, c) ==
  LET For == Retain(w.batches, {b \in ToSet(w.batches) : b.to = q /\ Channel(b.mode) = c})
  IN [i \in DOMAIN For |-> For[i].packets]
flush_outbound(w) ==
  /\ wire' = [l \in Links |-> IF l[1] # w.me \/ w.end[l[2]] # "there" THEN wire[l]
               ELSE [c \in DOMAIN wire[l] |-> wire[l][c] \o Packets(w, l[2], c)]]
  /\ owed' = owed \cup w.puts
  /\ lost' = lost \cup w.drops \cup {o \in w.puts : w.end[o.to] # "there"}
  /\ app' = [app EXCEPT ![w.me] = [w EXCEPT !.batches = <<>>, !.puts = {}, !.drops = {}]]

Frame(p) ==
  \E n \in {i \in 0..bounds.burst : i > 0 => p \in bounds.speakers /\ sent + i <= bounds.sends} :
  \E says \in Says(p, n), early \in 0..n :
    LET read == relay_broadcast_envelopes(InTurn(decode_ensemble_packet, app[p], inbox[p]))
    IN /\ \E w \in Update(InTurn(send, read, SubSeq(says, 1, early))) :
            flush_outbound(InTurn(send, w, SubSeq(says, early + 1, n)))
       /\ sent' = sent + n
       /\ inbox' = [inbox EXCEPT ![p] = <<>>]
       /\ UNCHANGED bounds

\* A seat, or a client's lobby, appears when the backend's own handshake is done.
Promote(p, q) ==
  /\ {p, q} \subseteq bounds.peers /\ app[p].end[q] = "none"
  /\ app' = [app EXCEPT ![p].end[q] = "there", ![p].fresh = @ \cup {q}]
  /\ UNCHANGED <<inbox, wire, owed, lost, sent, bounds>>

UnreliableOf(queue, p) == {i \in DOMAIN queue : queue[i].peer = p /\ ~queue[i].reliable}
\* Not the code: room is made with a peer's oldest packet, reliable or not.
arrive_over_any(queue, d) ==
  LET Queued == {i \in DOMAIN queue : queue[i].peer = d.peer}
      oldest == CHOOSE i \in Queued : \A j \in Queued : i <= j
  IN IF d.reliable \/ Cardinality(Queued) < bounds.backlog THEN Append(queue, d)
     ELSE Append(RemoveAt(queue, oldest), d)
\* The socket makes room for a peer's newest unreliable packet with its oldest.
arrive(queue, d) ==
  LET Queued == UnreliableOf(queue, d.peer)
      oldest == CHOOSE i \in Queued : \A j \in Queued : i <= j
  IN IF d.reliable \/ Cardinality(Queued) < bounds.backlog THEN Append(queue, d)
     ELSE Append(RemoveAt(queue, oldest), d)
Arrive(p, q, packet, reliable) ==
  LET d == [peer |-> p, packet |-> packet, reliable |-> reliable]
      gone == ToSet(inbox[q]) \ ToSet(arrive(inbox[q], d))
  IN /\ inbox' = [inbox EXCEPT ![q] = arrive(@, d)]
     /\ lost' = lost \cup UNION {{Owed(m, p, q) : m \in ToSet(g.packet)} : g \in gone}
     /\ UNCHANGED <<app, owed, sent, bounds>>

ArriveReliable(p, q) ==
  /\ wire[<<p, q>>].reliable # <<>>
  /\ wire' = [wire EXCEPT ![<<p, q>>].reliable = Tail(@)]
  /\ Arrive(p, q, Head(wire[<<p, q>>].reliable), TRUE)

\* Unreliable packets overtake each other and are lost.
ArriveUnreliable(p, q) ==
  \E i \in DOMAIN wire[<<p, q>>].unreliable :
    /\ wire' = [wire EXCEPT ![<<p, q>>].unreliable = RemoveAt(@, i)]
    /\ Arrive(p, q, wire[<<p, q>>].unreliable[i], FALSE)
Lose(p, q) ==
  \E i \in DOMAIN wire[<<p, q>>].unreliable :
    /\ wire' = [wire EXCEPT ![<<p, q>>].unreliable = RemoveAt(@, i)]
    /\ lost' = lost \cup {Owed(m, p, q) : m \in ToSet(wire[<<p, q>>].unreliable[i])}
    /\ UNCHANGED <<app, inbox, owed, sent, bounds>>

Init ==
  /\ bounds \in Instances
  /\ app = [p \in Peers |-> NewApp(p)]
  /\ inbox = [p \in Peers |-> <<>>]
  /\ wire = [l \in Links |-> [reliable |-> <<>>, unreliable |-> <<>>]]
  /\ owed = {} /\ lost = {} /\ sent = 0

Next ==
  \/ \E p \in Peers : Frame(p)
  \/ \E l \in Links : Promote(l[1], l[2])
  \/ \E l \in Links : ArriveReliable(l[1], l[2])
  \/ \E l \in Links : ArriveUnreliable(l[1], l[2])
  \/ \E l \in Links : Lose(l[1], l[2])

Spec == Init /\ [][Next]_vars
-----------------------------------------------------------------------------
(* Properties. *)

Sayings(bs) ==
  [kind : {"handshake", "broadcast", "direct"}, id : 0..bs.sends, origin : Peers, sender : Peers,
   mode : SendModes, size : bs.sizes \cup {2}]
\* The shape of the state, and the bound of a backlog.
TypeOK ==
  /\ bounds \in Instances /\ sent \in 0..bounds.sends
  /\ \A p \in Peers :
       /\ app[p].end \in [Others(p) -> {"none", "there", "gone"}]
       /\ app[p].fresh \cup app[p].verified \cup app[p].matched \cup ToSet(app[p].handshakes) \subseteq Others(p)
       /\ \A q \in Others(p) : ToSet(app[p].held[q]) \subseteq Sayings(bounds)
       /\ \A q \in Others(p) : Cardinality(UnreliableOf(inbox[p], q)) <= bounds.backlog

\* Broadcasts reach the games of all peers as their authors', and those of one
\* reliable mode in one order, the host's: its own, which it delivers as it sends
\* them, among those it relays, some of which it held (broadcast.rs).  So it is
\* where they are of one size: one that still fits an earlier batch overtakes.
Position(p, id) == CHOOSE i \in DOMAIN app[p].delivered.broadcast : app[p].delivered.broadcast[i].id = id
HeardByHost(m) == \E i \in DOMAIN app[Host].delivered.broadcast : app[Host].delivered.broadcast[i] = m
InHostOrder(modes, c) ==
  LET got == SelectSeq(app[c].delivered.broadcast, LAMBDA m : m.mode \in modes)
  IN \A j \in DOMAIN got :
       /\ HeardByHost(got[j])
       /\ j > 1 => Position(Host, got[j - 1].id) < Position(Host, got[j].id)
AgreedOrder ==
  /\ \A p \in Peers : \A m \in ToSet(app[p].delivered.broadcast) : m.sender = m.origin
  /\ \A c \in Clients : \A mode \in SendModes \ {"Unreliable"} : InHostOrder({mode}, c)

\* A message in a batch is somewhere on its way, or was read, and once only,
\* unless it was dropped: no path through batches, backlog, holding, replaying
\* and relaying forgets or repeats one.
Occurrences(seq, id) == Cardinality({i \in DOMAIN seq : seq[i].id = id})
OccurrencesIn(packets, id) == InTurn(LAMBDA n, packet : n + Occurrences(packet, id), 0, packets)
PacketsFrom(q, p) == [i \in DOMAIN inbox[q] |-> IF inbox[q][i].peer = p THEN inbox[q][i].packet ELSE <<>>]
Copies(o) ==
  LET l == <<o.from, o.to>>
      to == app[o.to]
  IN OccurrencesIn(wire[l].reliable \o wire[l].unreliable
                     \o PacketsFrom(o.to, o.from), o.id)
     + Occurrences(to.held[o.from] \o to.delivered.broadcast \o to.delivered.direct, o.id)
     + Cardinality({i \in DOMAIN to.envelopes : to.envelopes[i].message.id = o.id})
AccountedFor == \A o \in owed : Copies(o) = IF o \in lost THEN 0 ELSE 1

\* Between peers of one build a reliable message is lost only where an
\* unverified sender's room is short; never to unreliable ones it shares a
\* frame, a backlog or a holding with.
ReliableIsKept ==
  \A o \in lost : is_reliable(o.mode) /\ ~Differs(o.from, o.to) =>
    \E s \in bounds.sizes : sent * s > bounds.held_bytes

\* Nothing but a handshake is read from a peer whose protocol was not compared or
\* differs, though it shares frames with one, is held and replayed (registry.rs:
\* such bytes would decode as some other type).
OnlyTheComparedAreRead ==
  \A p \in Peers :
    LET got == ToSet(app[p].delivered.direct \o app[p].delivered.broadcast)
    IN \A m \in got : m.origin # p =>
         IF p = Host THEN m.origin \in app[p].verified /\ ~Differs(p, m.origin)
         ELSE Host \in app[p].verified /\ ~Differs(p, Host)

\* When nothing is under way any more, peers of one build that have appeared to
\* each other have compared their protocols and hold nothing back: whichever
\* appeared first, and in whichever frame the handshakes, said once, were read.
Quiet ==
  /\ \A p \in Peers : inbox[p] = <<>> /\ app[p].fresh = {} /\ app[p].envelopes = <<>>
  /\ \A l \in Links : wire[l].reliable = <<>>
NobodyWaitsInVain ==
  Quiet => \A l \in Links :
    ~Differs(l[1], l[2]) /\ app[l[1]].end[l[2]] = "there" /\ app[l[2]].end[l[1]] = "there" =>
      l[2] \in app[l[1]].verified /\ app[l[1]].held[l[2]] = <<>>

\* Contradicted (messages.rs:8, reliable is guaranteed delivery and ordering, and
\* reliable without delay the same): all reliable broadcasts arrive in order.  A
\* small one is put in an earlier batch with room, ahead of what was sent before.
ReliableArrivesInOrder == \A c \in Clients : InHostOrder(SendModes \ {"Unreliable"}, c)

\* Contradicted (outbound.rs:21): a frame never exceeds the limit of a datagram.
\* What the framing of many small messages adds is more than is allowed for.
AFrameFits ==
  \A l \in Links : \A packet \in ToSet(wire[l].reliable) :
    Len(packet) > 1 => frame_bytes(packet) <= bounds.datagram
==============================================================================
