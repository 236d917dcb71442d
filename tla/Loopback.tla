------------------------------- MODULE Loopback -------------------------------
(***************************************************************************)
(* The in-memory network the loopback backend gives a test: peers with an  *)
(* app each, one of them the host the arbiter names, and a wire with       *)
(* delay, jitter, loss, overtaking and duplication in frames of virtual    *)
(* time.                                                                   *)
(*                                                                         *)
(* An action is a call of LoopbackNetwork, or what an app does in its      *)
(* update.  collect_outbound is split: Collect resolves what the apps left *)
(* in their outboxes, and nothing else happens until Schedule has given    *)
(* each of those packets its fate.  Inboxes are kept: what an app drains   *)
(* is what it was handed, in that order.                                   *)
(***************************************************************************)
EXTENDS Naturals, Sequences, FiniteSets, SequencesExt, JoinOrder

CONSTANT Instances
\* A run is of so many peers, in lobbies with these policies, over one kind of
\* link, with at most so many calls, packets and frames; only the calls named
\* are made.
ASSUME BoundAssumption ==
  \A i \in Instances :
    /\ {i.peers, i.calls, i.packets, i.frames, i.raws, i.link.delay, i.link.jitter} \subseteq Nat
    /\ {i.migratable, i.reconnectable, i.link.loss, i.link.duplicate,
        i.link.reorder, i.link.limit} \subseteq BOOLEAN

VARIABLES peers,         \* Peer of each peer, in the order they were added
          outbox,        \* what each app has encoded, by peer
          inbox,         \* what each app has been handed, by peer
          resolved,      \* packets of this collect_outbound that have no fate yet
          flight,        \* in_flight
          lastReliable,  \* last_reliable_delivery
          nextSeq,       \* next_seq
          frame,
          drops,         \* pending_drops
          known,         \* known_clients
          lost,          \* lost_host, or None
          trace,         \* every packet's fate, whether its way was cut since, and
                         \* whether its peer was, by a call about that peer
          spawned,       \* seat entities spawned so far: the next one's name
          used,          \* calls, packets and raw deliveries so far
          bounds,
          past           \* history of the seats: see Pasts
wire == <<flight, lastReliable, nextSeq>>
apps == <<outbox, inbox>>
vars == <<peers, apps, resolved, wire, frame, drops, known, lost, trace, spawned, used, bounds, past>>

None == 0
Ids == 1..bounds.peers
Links == Ids \X Ids

Attachments == {"pending", "connected", "halfOpen", "disconnected", "left"}
CanSend(at) == at \in {"pending", "connected"}
CanReceive(at) == at \in {"pending", "connected", "halfOpen"}

\* none: the network has let go of the lobby; over: the app has, and the
\* network does not know.
Lobbies == {"none", "over", "pending", "lobby"}
\* AwaitingHost: for the old host, for a successor, or for the one named.
Waits == {"no", "reconnect", "successor", "reach"}
\* hosts: Host on the lobby; knows: LocalMultiplayerPlayerId; believes: HostUuid.
Peer == [at : Attachments, isHost : BOOLEAN, crashed : BOOLEAN, lobby : Lobbies, hosts : BOOLEAN,
         waits : Waits, knows : BOOLEAN, believes : {None} \cup Ids,
         seats : SUBSET [nth : Nat, of : Ids]]
NewPeer(at, lobby, host) ==
  [at |-> at, isHost |-> FALSE, crashed |-> FALSE, lobby |-> lobby, hosts |-> FALSE,
   waits |-> "no", knows |-> TRUE, believes |-> host, seats |-> {}]

Fates == {"unreachable", "oversize", "dropped", "delivered", "duplicated"}
Modes == {"reliable", "unreliable"}
\* replaced once hosted and were named away; unseated are players a host was
\* named without, as nothing flowed both ways to them, or was removed by its app.
Pasts == [replaced : SUBSET Ids, unseated : SUBSET Ids]

Here == DOMAIN peers
try_host == {p \in Here : peers[p].isHost}
HasHost == try_host # {}
host == CHOOSE p \in try_host : \A q \in try_host : p <= q
Members == {p \in Here : peers[p].at # "left"}

------------------------------------------------------------------------------
\* Calls

\* A call is one of those this run is about, while no packet waits for its fate.
Call(op) ==
  /\ op \in bounds.ops /\ used.calls < bounds.calls
  /\ resolved = <<>>
  /\ used' = [used EXCEPT !.calls = @ + 1]
  /\ UNCHANGED bounds

Keeping(links) == flight' = {p \in flight : <<p.from, p.to>> \in links} /\ UNCHANGED <<lastReliable, nextSeq>>
KeepAll == UNCHANGED wire
DropToLate(p) == KeepAll
DropTo(p) == Keeping({l \in Links : l[2] # p})
DropBoth(p) == Keeping({l \in Links : l[1] # p /\ l[2] # p})
DropFrom(p) == Keeping({l \in Links : l[1] # p})

\* What befell the packets under way, once the peers are as they are now, some
\* of which were swept along by another's going.
CutsBut(swept) ==
  trace' = [i \in DOMAIN trace |->
              LET to == trace[i].to
                  off == ~CanReceive(peers'[to].at)
              IN [trace[i] EXCEPT !.cut = @ \/ ~CanSend(peers'[trace[i].from].at) \/ off,
                                  !.missed = @ \/ (off /\ CanReceive(peers[to].at) /\ to \notin swept)]]
Cuts == CutsBut({})
\* In a new lobby nothing goes on from the one before, though who hosts it is attached.
CutsAll ==
  trace' = [i \in DOMAIN trace |-> [trace[i] EXCEPT !.cut = TRUE, !.missed = @ \/ CanReceive(peers[trace[i].to].at)]]

\* A seat for each of these players, in the world of h.
Seat(ps, h, who) ==
  [ps EXCEPT ![h].seats = @ \cup {[nth |-> spawned + 1, of |-> p] : p \in who}]
Seats(h, p) == {s \in peers[h].seats : s.of = p}
UnseatNobody(ps, p) == ps
Unseat(ps, p) ==
  IF ~HasHost \/ Seats(host, p) = {} THEN ps
  ELSE [ps EXCEPT ![host].seats = @ \ {CHOOSE s \in Seats(host, p) : TRUE}]
Spawned == spawned' = spawned + 1

\* The lobby entity is despawned, and its participants with it.
WithoutLobby(q, lobby) == [q EXCEPT !.lobby = lobby, !.hosts = FALSE, !.waits = "no", !.seats = {}]
HasLobby(q) == q.lobby \in {"pending", "lobby"}

\* What the core does when told: host_lost and new_host_named, of migration.rs.
EndSession(q) == [WithoutLobby(q, "over") EXCEPT !.knows = FALSE]
OnHostLost(q) ==
  IF ~HasLobby(q) \/ q.hosts \/ q.waits = "reconnect" THEN q
  ELSE IF q.lobby = "lobby" /\ q.believes # None /\ bounds.reconnectable /\ q.waits = "no"
  THEN [q EXCEPT !.waits = "reconnect"]
  ELSE IF q.lobby = "lobby" /\ bounds.migratable /\ (q.waits # "no" \/ q.believes # None)
  THEN [q EXCEPT !.waits = "successor"]
  ELSE EndSession(q)
OnNewHostNamed(q, me, named) ==
  IF ~HasLobby(q) \/ ~q.knows \/ q.hosts THEN q
  ELSE IF named = me
  THEN [q EXCEPT !.lobby = "lobby", !.hosts = TRUE, !.waits = "no", !.believes = me]
  ELSE [q EXCEPT !.believes = named, !.waits = IF q.lobby = "pending" THEN @ ELSE "reach"]

Detached(p) == [past EXCEPT !.unseated = @ \ {p}]

AddedPeer ==
  /\ Len(peers) < bounds.peers
  /\ UNCHANGED <<apps, wire, resolved, frame, drops, known, lost, past>>
  /\ Cuts

\* One host, which has the clients that are added.
AddHost ==
  /\ Call("add") /\ Here = {}
  /\ peers' = <<[NewPeer("connected", "lobby", 1) EXCEPT !.isHost = TRUE, !.hosts = TRUE]>>
  /\ UNCHANGED spawned /\ AddedPeer

\* Whoever has a seat spawned for it needs a host with a lobby.
Seating == HasHost /\ peers[host].lobby # "none"

AddClient ==
  /\ Call("add") /\ Seating
  /\ LET p == Len(peers) + 1
     IN peers' = Seat(Append(peers, NewPeer("connected", "lobby", host)), host, {p})
  /\ Spawned /\ AddedPeer

AddPendingClient ==
  /\ Call("addPending") /\ HasHost
  /\ peers' = Append(peers, NewPeer("pending", "pending", host))
  /\ UNCHANGED spawned /\ AddedPeer

Promote(p) ==
  /\ Call("addPending") /\ Seating /\ peers[p].at = "pending" /\ HasLobby(peers[p])
  /\ peers' = Seat([peers EXCEPT ![p].at = "connected", ![p].lobby = "lobby"], host, {p})
  /\ Spawned
  /\ KeepAll /\ Cuts
  /\ past' = Detached(p)
  /\ UNCHANGED <<apps, resolved, frame, drops, known, lost>>

Unchanged == UNCHANGED <<apps, resolved, frame, drops, known, spawned>>

Disconnect(p) ==
  /\ Call("disconnect")
  /\ peers' = Unseat([peers EXCEPT ![p].at = "disconnected"], p)
  /\ DropTo(p) /\ Cuts
  /\ past' = Detached(p)
  /\ UNCHANGED lost /\ Unchanged

\* Both ends are told: the host drops the seat, held for or not, and the
\* client waits or its session ends.
BreakLink(p) ==
  /\ Call("break") /\ ~peers[p].isHost
  /\ LET told == OnHostLost(peers[p])
         ended == HasLobby(peers[p]) /\ ~HasLobby(told)
         broken == [told EXCEPT !.at = IF ended THEN "left" ELSE "disconnected",
                                !.lobby = IF ended THEN "none" ELSE @]
     IN peers' = Unseat([peers EXCEPT ![p] = broken], p)
  /\ DropBoth(p) /\ Cuts
  /\ past' = Detached(p)
  /\ UNCHANGED lost /\ Unchanged

HalfOpen(p) ==
  /\ Call("halfOpen")
  /\ peers' = [peers EXCEPT ![p].at = "halfOpen"]
  /\ DropFrom(p) /\ Cuts
  /\ past' = IF peers[p].at \in {"connected", "halfOpen"} THEN past
             ELSE [past EXCEPT !.unseated = @ \cup {p}]
  /\ UNCHANGED lost /\ Unchanged

\* Only a peer that was disconnected is given a seat again.
Reconnect(p) ==
  /\ Call("reconnect") /\ peers[p].at # "left"
  /\ LET back == [peers EXCEPT ![p].at = "connected"]
         seated == peers[p].at = "disconnected" /\ ~peers[p].isHost /\ HasHost
     IN /\ seated => Seating
        /\ peers' = IF seated THEN Seat(back, host, {p}) ELSE back
        /\ past' = IF peers[p].at = "pending" \/ ~HasHost
                   THEN [past EXCEPT !.unseated = @ \cup {p}] ELSE past
        /\ spawned' = IF seated THEN spawned + 1 ELSE spawned
  /\ KeepAll /\ Cuts
  /\ UNCHANGED <<apps, resolved, frame, drops, known, lost>>

Leave(p) ==
  /\ Call("leave") /\ ~peers[p].isHost
  /\ LET gone == [WithoutLobby(peers[p], "none") EXCEPT !.at = "left", !.believes = None]
     IN peers' = Unseat([peers EXCEPT ![p] = gone], p)
  /\ DropBoth(p) /\ Cuts
  /\ past' = Detached(p)
  /\ UNCHANGED lost /\ Unchanged

Rejoin(p) ==
  /\ Call("leave") /\ Seating /\ peers[p].at = "left"
  /\ peers' = Seat([peers EXCEPT ![p].at = "connected", ![p].lobby = "lobby", ![p].believes = host],
                   host, {p})
  /\ Spawned
  /\ KeepAll /\ Cuts
  /\ past' = Detached(p)
  /\ UNCHANGED <<apps, resolved, frame, drops, known, lost>>

\* A new lobby, which nobody else is in.
Rehost(new) ==
  /\ Call("rehost") /\ HasHost /\ new # host
  /\ peers' = [p \in Here |->
       IF p = new
       THEN [NewPeer("connected", "lobby", new) EXCEPT !.isHost = TRUE, !.hosts = TRUE, !.knows = peers[p].knows]
       ELSE [WithoutLobby(peers[p], "none") EXCEPT !.isHost = FALSE, !.at = "left", !.believes = None]]
  /\ flight' = {} /\ CutsAll
  /\ lastReliable' = [l \in Links |-> 0] /\ nextSeq' = [l \in Links |-> 0]
  /\ known' = {} /\ lost' = None
  /\ past' = [replaced |-> {}, unseated |-> {}]
  /\ UNCHANGED <<apps, resolved, frame, drops, spawned>>

Left(q) == [WithoutLobby(q, "none") EXCEPT !.at = "left", !.knows = FALSE, !.believes = None]
\* Every client's transport notices: it waits for a successor, or is out.
Noticed(p) ==
  LET q == peers[p]
  IN IF q.at = "left" \/ ~HasLobby(q) THEN q
     ELSE IF q.lobby = "lobby" /\ bounds.migratable THEN OnHostLost(q)
     ELSE Left(q)

LoseHost(how) ==
  /\ Call("lose" \o how) /\ HasHost
  /\ LET gone == CASE how = "Quits" -> [WithoutLobby(peers[host], "none") EXCEPT !.at = "left", !.isHost = FALSE]
                   [] how = "Crashes" -> [peers[host] EXCEPT !.at = "left", !.isHost = FALSE, !.crashed = TRUE]
                   [] how = "FallsSilent" -> [peers[host] EXCEPT !.at = "disconnected"]
     IN peers' = [p \in Here |-> IF p = host THEN gone
                                 ELSE IF how = "FallsSilent" THEN peers[p] ELSE Noticed(p)]
  /\ lost' = IF how = "FallsSilent" THEN lost ELSE host
  /\ DropBoth(host) /\ CutsBut(Here \ {host})
  /\ UNCHANGED past /\ Unchanged

\* A host that is still talking may be replaced too: it goes on hosting, in
\* its own world, and no client sends to it any more.
NameHost(new) ==
  /\ Call("name")
  /\ HasHost \/ lost # None
  /\ LET previous == IF HasHost THEN host ELSE lost
         members == Members \ {previous}
         told == [p \in Here |-> IF p \in members THEN OnNewHostNamed(peers[p], p, new) ELSE peers[p]]
         named == [p \in Here |-> [told[p] EXCEPT !.isHost = p = new]]
         seated == {p \in members \ {new} : peers[p].at = "connected"}
     IN /\ new # previous /\ new \in members /\ peers[new].lobby # "none"
        /\ peers' = Seat(named, new, seated)
        /\ past' = [replaced |-> past.replaced \cup {previous},
                    unseated |-> {p \in Here : peers[p].at \in {"pending", "halfOpen"}}]
  /\ lost' = None
  /\ Spawned
  /\ KeepAll /\ Cuts
  /\ UNCHANGED <<apps, resolved, frame, drops, known>>

\* drop_next
DropNext(from, to) ==
  /\ Call("dropNext")
  /\ drops' = [drops EXCEPT ![<<from, to>>] = @ + 1]
  /\ KeepAll
  /\ UNCHANGED <<peers, apps, resolved, frame, known, lost, trace, spawned, past>>

------------------------------------------------------------------------------
\* What the apps do in their updates

App(p) == ~peers[p].crashed
InApp == KeepAll /\ Cuts /\ UNCHANGED <<inbox, resolved, frame, drops, known, lost, spawned>>

Encodes == used.packets < bounds.packets /\ resolved = <<>>
Packet(address, mode, big) == [to |-> address, mode |-> mode, big |-> big]

\* A host addresses a seat it has, a client its lobby.
Encode(p, mode, big) ==
  /\ App(p) /\ HasLobby(peers[p])
  /\ Encodes /\ used' = [used EXCEPT !.packets = @ + 1]
  /\ UNCHANGED bounds
  /\ \E address \in IF peers[p].hosts THEN peers[p].seats ELSE {[nth |-> 0, of |-> p]} :
       outbox' = [outbox EXCEPT ![p] = Append(@, Packet(address, mode, big))]
  /\ UNCHANGED peers /\ UNCHANGED past /\ InApp

\* The seat goes, and its player is told so.
Kick(p, seat) ==
  /\ App(p) /\ peers[p].hosts /\ seat \in peers[p].seats
  /\ Call("kick")
  /\ peers' = [peers EXCEPT ![p].seats = @ \ {seat}]
  /\ outbox' = [outbox EXCEPT ![p] = Append(@, Packet(seat, "reliable", FALSE))]
  /\ past' = [past EXCEPT !.unseated = @ \cup {seat.of}]
  /\ InApp

\* leave_on_request: what it means for the network is the test's to say.
LeaveOnRequest(p) ==
  /\ App(p) /\ HasLobby(peers[p])
  /\ Call("request")
  /\ peers' = [peers EXCEPT ![p] = WithoutLobby(@, "over")]
  /\ UNCHANGED <<outbox, past>> /\ InApp

\* The core's wait for a host ends: it was reached and verified, or never was.
Resumes(p) ==
  /\ App(p) /\ peers[p].waits \in {"reconnect", "reach"} /\ Call("resume")
  /\ peers[p].at = "connected"
  /\ peers' = [peers EXCEPT ![p].waits = "no"]
  /\ UNCHANGED <<outbox, past>> /\ InApp
GivesUp(p) ==
  /\ App(p) /\ peers[p].waits # "no" /\ Call("giveUp")
  /\ peers' = [peers EXCEPT ![p] = EndSession(@)]
  /\ UNCHANGED <<outbox, past>> /\ InApp

------------------------------------------------------------------------------
\* The wire

\* A peer's role is its own world's, not the arbiter's.  A seat seen once is
\* known for good.
Collect ==
  LET seen == known \cup {<<p, s>> : p \in {q \in Here : peers[q].hosts}, s \in UNION {peers[q].seats : q \in Here}}
      knownNow == {k \in seen : k \in known \/ k[2] \in peers[k[1]].seats}
      Target(p, packet) ==
        IF peers[p].hosts THEN IF <<p, packet.to>> \in knownNow THEN packet.to.of ELSE None
        ELSE peers[p].believes
      Sent(p) == [i \in DOMAIN outbox[p] |->
                    [from |-> p, to |-> Target(p, outbox[p][i]), mode |-> outbox[p][i].mode,
                     big |-> outbox[p][i].big]]
      all == FlattenSeq([p \in Here |-> Sent(p)])
  IN /\ resolved = <<>> /\ \E p \in Here : outbox[p] # <<>>
     /\ known' = knownNow
     /\ resolved' = Retain(all, {packet \in ToSet(all) : packet.to # None})
     /\ outbox' = [p \in Ids |-> <<>>]
     /\ KeepAll
     /\ UNCHANGED <<peers, inbox, frame, drops, lost, trace, spawned, used, bounds, past>>

\* The order packets arrive in.
Before(a, b) ==
  \/ a.due < b.due
  \/ a.due = b.due /\ a.from < b.from
  \/ a.due = b.due /\ a.from = b.from /\ a.seq < b.seq

Later(n, m) == IF n < m THEN m ELSE n
Recorded(packet, fate) ==
  trace' = Append(trace, [from |-> packet.from, to |-> packet.to, mode |-> packet.mode, fate |-> fate,
                          cut |-> FALSE, missed |-> FALSE])
Lose(packet, fate) == Recorded(packet, fate) /\ KeepAll

InFlight(packet, seq, due) ==
  [id |-> Len(trace) + 1, from |-> packet.from, to |-> packet.to, mode |-> packet.mode,
   copy |-> FALSE, seq |-> seq, due |-> due]

ScheduleReliableAsItComes(packet, due) ==
  LET link == <<packet.from, packet.to>>
  IN /\ lastReliable' = [lastReliable EXCEPT ![link] = due]
     /\ nextSeq' = [nextSeq EXCEPT ![link] = @ + 1]
     /\ flight' = flight \cup {InFlight(packet, nextSeq'[link], due)}
     /\ Recorded(packet, "delivered")
ScheduleReliable(packet, due) ==
  LET link == <<packet.from, packet.to>>
      ordered == Later(due, lastReliable[link])
  IN /\ lastReliable' = [lastReliable EXCEPT ![link] = ordered]
     /\ nextSeq' = [nextSeq EXCEPT ![link] = @ + 1]
     /\ flight' = flight \cup {InFlight(packet, nextSeq'[link], ordered)}
     /\ Recorded(packet, "delivered")

\* One that overtakes swaps places, and frames, with the last sent before it;
\* a copy follows a frame later.
ScheduleUnreliable(packet, due, overtakes, copied) ==
  LET link == <<packet.from, packet.to>>
      mine == InFlight(packet, nextSeq[link] + 1, due)
      ahead == {p \in flight : p.mode = "unreliable" /\ <<p.from, p.to>> = link}
      previous == CHOOSE p \in ahead : \A q \in ahead : q.seq <= p.seq
      swapped == [previous EXCEPT !.seq = mine.seq, !.due = mine.due]
      now == IF overtakes THEN [mine EXCEPT !.seq = previous.seq, !.due = previous.due] ELSE mine
      copy == [now EXCEPT !.seq = mine.seq + 1, !.due = @ + 1, !.copy = TRUE]
  IN /\ overtakes => ahead # {}
     /\ flight' = (IF overtakes THEN (flight \ {previous}) \cup {swapped} ELSE flight)
                    \cup (IF copied THEN {now, copy} ELSE {now})
     /\ nextSeq' = [nextSeq EXCEPT ![link] = IF copied THEN @ + 2 ELSE @ + 1]
     /\ UNCHANGED lastReliable
     /\ Recorded(packet, IF copied THEN "duplicated" ELSE "delivered")

May(allowed) == IF allowed THEN BOOLEAN ELSE {FALSE}

Forced(packet) == packet.mode = "unreliable" /\ drops[packet.from, packet.to] > 0

\* Never in the frame it was sent in.
Transit(wait, again) == Later(wait + IF again THEN 2 * bounds.link.delay ELSE 0, 1)

\* The first packet with no fate yet.  A reliable one that is lost is sent
\* again, and takes a round trip longer.
Schedule ==
  /\ resolved # <<>> /\ resolved' = Tail(resolved)
  /\ LET packet == Head(resolved)
         link == bounds.link
         path == <<packet.from, packet.to>>
         reliable == packet.mode = "reliable"
         able == CanSend(peers[packet.from].at) /\ CanReceive(peers[packet.to].at)
         whole == reliable \/ ~(link.limit /\ packet.big)
         forced == Forced(packet)
     IN \/ /\ ~able
           /\ Lose(packet, "unreachable") /\ UNCHANGED drops
        \/ /\ able /\ ~whole
           /\ Lose(packet, "oversize") /\ UNCHANGED drops
        \/ /\ able /\ whole
           /\ drops' = IF forced THEN [drops EXCEPT ![path] = @ - 1] ELSE drops
           /\ \E wait \in link.delay..link.delay + link.jitter, again \in May(link.loss) :
                LET due == frame + Transit(wait, again)
                IN \/ reliable /\ ScheduleReliable(packet, due)
                   \/ ~reliable /\ (forced \/ again) /\ Lose(packet, "dropped")
                   \/ /\ ~reliable /\ ~forced /\ ~again
                      /\ \E overtakes \in May(link.reorder), copied \in May(link.duplicate) :
                           ScheduleUnreliable(packet, due, overtakes, copied)
  /\ UNCHANGED <<peers, apps, frame, known, lost, spawned, used, bounds, past>>

\* Straight into an inbox: the link and its order are not asked.
DeliverRaw(from, to) ==
  /\ used.raws < bounds.raws /\ used' = [used EXCEPT !.raws = @ + 1]
  /\ resolved = <<>>
  /\ nextSeq' = [nextSeq EXCEPT ![<<from, to>>] = @ + 1]
  /\ flight' = flight \cup {[id |-> 0, from |-> from, to |-> to, mode |-> "reliable", copy |-> FALSE,
                             seq |-> nextSeq'[<<from, to>>], due |-> frame + 1]}
  /\ UNCHANGED <<peers, apps, resolved, lastReliable, frame, drops, known, lost, trace, spawned, bounds, past>>

\* advance, with deliver_due_packets.
Due(n) == {p \in flight : p.due <= n}
Handed(n, to) ==
  LET mine == {p \in Due(n) : p.to = to /\ CanReceive(peers[to].at)}
  IN CHOOSE order \in [1..Cardinality(mine) -> mine] :
       /\ IsInjective(order)
       /\ \A i, j \in DOMAIN order : i < j => ~Before(order[j], order[i])
Advance(frames) ==
  /\ resolved = <<>> /\ frame + frames <= bounds.frames
  /\ frame' = frame + frames
  /\ flight' = flight \ Due(frame')
  /\ inbox' = [p \in Ids |-> IF p \in Here THEN inbox[p] \o Handed(frame', p) ELSE inbox[p]]
  /\ UNCHANGED <<peers, outbox, resolved, lastReliable, nextSeq, drops, known, lost, trace, spawned,
                 used, bounds, past>>

------------------------------------------------------------------------------
Init ==
  /\ bounds \in Instances
  /\ peers = <<>> /\ outbox = [p \in Ids |-> <<>>] /\ inbox = [p \in Ids |-> <<>>]
  /\ resolved = <<>> /\ flight = {} /\ known = {} /\ trace = <<>>
  /\ lastReliable = [l \in Links |-> 0] /\ nextSeq = [l \in Links |-> 0]
  /\ drops = [l \in Links |-> 0]
  /\ frame = 0 /\ lost = None /\ spawned = 0
  /\ used = [calls |-> 0, packets |-> 0, raws |-> 0]
  /\ past = [replaced |-> {}, unseated |-> {}]

Calls ==
  \/ AddHost \/ AddClient \/ AddPendingClient
  \/ \E p \in Here : \/ Promote(p) \/ Disconnect(p) \/ BreakLink(p) \/ HalfOpen(p) \/ Reconnect(p)
                     \/ Leave(p) \/ Rejoin(p) \/ Rehost(p) \/ NameHost(p)
  \/ \E how \in {"Quits", "Crashes", "FallsSilent"} : LoseHost(how)
  \/ \E from, to \in Here : DropNext(from, to)
Apps ==
  \E p \in Here : \/ \E mode \in Modes, big \in May(bounds.link.limit) : Encode(p, mode, big)
                  \/ \E seat \in peers[p].seats : Kick(p, seat)
                  \/ LeaveOnRequest(p) \/ Resumes(p) \/ GivesUp(p)
Wire ==
  \/ Collect \/ Schedule
  \/ \E from, to \in Here : DeliverRaw(from, to)
  \/ \E frames \in 1..2 : Advance(frames)

Next == Calls \/ Apps \/ Wire

Spec == Init /\ [][Next]_vars

------------------------------------------------------------------------------
\* Properties

\* The types of the variables.
TypeOK ==
  /\ bounds \in Instances
  /\ peers \in Seq(Peer) /\ Len(peers) <= bounds.peers
  /\ lost \in {None} \cup Here
  /\ DOMAIN outbox = Ids /\ DOMAIN inbox = Ids
  /\ \A p \in flight : p.from \in Here /\ p.to \in Here /\ p.mode \in Modes /\ p.id \in 0..Len(trace)
  /\ \A t \in ToSet(trace) : t.fate \in Fates
  /\ {lastReliable[l] : l \in Links} \cup {nextSeq[l] : l \in Links} \cup {drops[l] : l \in Links} \subseteq Nat

\* Whatever is delayed, sent again, swapped, duplicated or cut off: a packet
\* arrives in a later frame; what the trace says was delivered, once or twice, is
\* on its way or has arrived, exactly so often, unless an end of its way was cut
\* off since; and reliable packets of one peer arrive in the order they were sent.
ArrivesAsTraced ==
  /\ \A p \in flight : p.due > frame
  /\ \A id \in DOMAIN trace :
       LET t == trace[id]
           arrived == Cardinality({i \in DOMAIN inbox[t.to] : inbox[t.to][i].id = id})
           underWay == Cardinality({p \in flight : p.id = id})
           times == CASE t.fate = "delivered" -> 1 [] t.fate = "duplicated" -> 2 [] OTHER -> 0
       IN /\ arrived + underWay <= times
          /\ ~t.cut => arrived + underWay = times
  /\ \A to \in Here : \A i, j \in DOMAIN inbox[to] :
       LET a == inbox[to][i]
           b == inbox[to][j]
       IN i < j /\ a.from = b.from /\ a.mode = "reliable" /\ b.mode = "reliable" /\ a.id # 0 /\ b.id # 0
          => a.id < b.id

\* A packet never arrives at a peer that was cut off since it was sent: what
\* is handed over belongs to the attachment it was sent in.  A client that goes
\* out because its host is lost is the exception: lose_host drops the host's
\* packets only, and one from a host replaced before is under way still.
NothingFromBeforeTheCut ==
  [][\A p \in Here : \A i \in DOMAIN inbox'[p] :
       i > Len(inbox[p]) /\ inbox'[p][i].id # 0 => ~trace[inbox'[p][i].id].missed]_vars

\* One peer at most is named host; it hosts in its own world, unless it does not
\* know who it is or its lobby is over; and it has exactly one seat for every
\* client attached both ways, however that was added, lost, brought back, or came
\* to a new host.  Not one its app removed, or that could not be seated when the
\* host was named; and a host named a second time has the seats of its first.
HostSeatsEachOnce ==
  /\ Cardinality(try_host) <= 1
  /\ \A p \in try_host : peers[p].hosts \/ ~peers[p].knows \/ peers[p].lobby = "over"
  /\ HasHost /\ peers[host].hosts /\ host \notin past.replaced =>
       /\ \A p \in Here \ {host} : peers[p].at = "connected" /\ p \notin past.unseated \cup past.replaced
                                   => Cardinality(Seats(host, p)) = 1
       /\ \A p \in Here : Cardinality(Seats(host, p)) <= 1
       /\ \A s \in peers[host].seats : s.of = host \/ peers[s.of].at \in {"connected", "halfOpen"}

\* Contradicted: "the later one arrives first and nothing else moves".
OvertakingArrivesFirst ==
  [][\A p \in flight, q \in flight' :
       q.id = p.id /\ q.copy = p.copy /\ q # p =>
         \E new \in flight' \ flight : new.id = Len(trace) + 1 /\ ~new.copy /\ Before(new, q)]_vars

==============================================================================
