------------------------------ MODULE PlayerData ------------------------------
(***************************************************************************)
(* Per-player data: each owner asks its host to set its value, the host    *)
(* puts it on the owner's participant and tells every seat, over joins,    *)
(* broken links and changes of host (player_data.rs).                      *)
(*                                                                         *)
(* A frame of a peer is one step.  Its systems run in one of the orders    *)
(* the schedule leaves open, and a game's own system among them.  What a   *)
(* system queues is applied where the schedule applies commands, on the    *)
(* world of that moment.  Seats and lobbies appear between frames; links   *)
(* are reliable and ordered; protocols and how a host is named are         *)
(* MessagePath's, Roster's and PeerSession's matter.                       *)
(***************************************************************************)
EXTENDS Naturals, FiniteSets, SequencesExt

CONSTANTS Peers, Instances

Systems ==
  {"own", "seat", "announce", "roster", "clear", "apply", "republish", "publish", "broadcast", "sync"}
\* An order of the systems, of the game's and of the points where all that is
\* queued is applied, with what the plugins ask of it.
At(order, s) == SelectInSeq(order, LAMBDA r : r = s)
AppliedBefore(order, s, t) == \E i \in At(order, s)..At(order, t) : order[i] = "flush"
IsSchedule(order) ==
  /\ ToSet(order) = Systems \cup {"game", "flush"}
  /\ \A i, j \in DOMAIN order : order[i] = order[j] => i = j \/ order[i] = "flush"
  /\ AppliedBefore(order, "seat", "announce") /\ AppliedBefore(order, "broadcast", "sync")
  /\ AppliedBefore(order, "roster", "apply") /\ At(order, "clear") < At(order, "apply")
\* A run has a first host, peers that may join it, the orders a frame may take, so many
\* edits, joins, broken links and changes of host, and games that keep a local copy or not.
ASSUME InstanceAssumption ==
  \A i \in Instances :
    /\ (\A order \in i.orders : IsSchedule(order)) /\ i.host \in Peers /\ i.others \subseteq Peers \ {i.host}
    /\ i.persisted \in BOOLEAN
    /\ {i.edits, i.joins, i.breaks, i.changes} \subseteq Nat

VARIABLES app,      \* what each peer's world holds
          wire,     \* packets under way, by link
          host,     \* who hosts the session, or was named to
          left,     \* what bounds leave to happen
          bounds
vars == <<app, wire, host, left, bounds>>

\* news: systems that have not read the last HostChanged; reached: AwaitingHost
\* came off and republish has not seen it.  changed, joined, fresh: PlayerData,
\* participants and seats that the systems watching for them have not seen.
\* Values are numbered as their owners' games make them, local is the last; 0 is
\* none.  buffer: there is a PendingPlayerData, empty or not.  History: crossed,
\* this peer has said an older word behind a newer one; unheard, its last was
\* waiting on itself as host and was cleared or replaced, or put behind an older;
\* back, whose data this host took to an older value in its last frame.
NotInALobby ==
  [lobby |-> FALSE, hosting |-> FALSE, host |-> CHOOSE p \in Peers : TRUE, awaiting |-> FALSE,
   roster |-> {}, data |-> [p \in Peers |-> 0], pending |-> <<>>, requested |-> 0,
   local |-> 1, published |-> FALSE, seats |-> {}, fresh |-> {}, joined |-> {}, changed |-> {},
   news |-> {}, reached |-> FALSE, buffer |-> FALSE, crossed |-> FALSE, unheard |-> FALSE, back |-> {}]
Members == {p \in Peers : app[p].lobby}

SyncLobbyParticipant(x) == [kind |-> "sync", player |-> x, value |-> 0]
RemoveLobbyParticipant(x) == [kind |-> "remove", player |-> x, value |-> 0]
SyncPlayerData(x, v) == [kind |-> "data", player |-> x, value |-> v]

-----------------------------------------------------------------------------
(* What commands do; the record of a frame has what it sends, what it read   *)
(* and what is queued.                                                       *)

Everyone == SetToSeq(Peers)
InOrder(S) == SelectSeq(Everyone, LAMBDA p : p \in S)
SyncsOf(S) == LET of == InOrder(S) IN [i \in DOMAIN of |-> SyncLobbyParticipant(of[i])]
DataOf(w, S) == LET of == InOrder(S) IN [i \in DOMAIN of |-> SyncPlayerData(of[i], w.data[of[i]])]

encode_lobby_client_messages(w, seats, ms) ==
  [w EXCEPT !.out = [q \in Peers |-> IF q \in seats THEN @[q] \o ms ELSE @[q]]]
\* A client that is switching to a named host sends nothing.
encode_lobby_messages(w, ms) ==
  encode_lobby_client_messages(w, IF w.hosting THEN w.seats ELSE IF w.awaiting THEN {} ELSE {w.host}, ms)

Spawned(w, x) == [w EXCEPT !.roster = @ \cup {x}, !.joined = @ \cup ({x} \ w.roster)]
InsertData(w, x, v) ==
  IF x \notin w.roster THEN w
  ELSE [w EXCEPT !.data[x] = v, !.changed = @ \cup {x},
                 !.back = IF w.hosting /\ v < w.data[x] THEN @ \cup {x} ELSE @]
Despawn(w, x) ==
  [w EXCEPT !.roster = @ \ {x}, !.data[x] = 0, !.changed = @ \ {x}, !.joined = @ \ {x},
            !.back = @ \ {x}]

Buffered(sender, x, v) == [sender |-> sender, player |-> x, value |-> v]
OwnWaits(w) == w.hosting /\ \E i \in DOMAIN w.pending : w.pending[i].sender = w.me
SetOwn(w, v) ==
  IF ~w.hosting THEN encode_lobby_messages(w, <<SyncPlayerData(w.me, v)>>)
  ELSE IF w.me \in w.roster THEN InsertData(w, w.me, v)
  ELSE [w EXCEPT !.pending = Append(@, Buffered(w.me, w.me, v)), !.buffer = TRUE]
Said(w, v) == [w EXCEPT !.crossed = @ \/ v < w.requested, !.unheard = FALSE]
\* Not the code: only the first request is remembered.
remember_the_first(w, v) ==
  SetOwn([Said(w, v) EXCEPT !.requested = IF @ = 0 THEN v ELSE @], v)
\* Remembered on the lobby; set on the host's participant, or asked of the host.
handle_set_player_data(w, v) == SetOwn([Said(w, v) EXCEPT !.requested = v], v)

apply_roster(w, updates) ==
  LET applied[i \in 0..Len(updates)] ==
        IF i = 0 THEN w
        ELSE IF updates[i].kind = "remove" THEN Despawn(applied[i - 1], updates[i].player)
        ELSE [applied[i - 1] EXCEPT !.roster = @ \cup {updates[i].player}]
  IN applied[Len(updates)]

Do(w, c) ==
  CASE c.do = "spawn" -> Spawned(w, c.player)
    [] c.do = "roster" -> apply_roster(w, c.updates)
    [] c.do = "say" -> handle_set_player_data(w, c.value)
    [] c.do = "insert" -> [InsertData(w, c.player, c.value) EXCEPT
                             !.unheard = @ \/ (c.player = w.me /\ c.value < w.data[w.me])]
    [] c.do = "buffer" -> [w EXCEPT !.pending = c.entries, !.buffer = TRUE, !.unheard = @ \/ OwnWaits(w)]
    [] c.do = "tell" -> encode_lobby_client_messages(w, c.seats, c.messages)
    [] c.do = "tell all" -> encode_lobby_messages(w, c.messages)
flush(w) ==
  LET done[i \in 0..Len(w.queue)] == IF i = 0 THEN w ELSE Do(done[i - 1], w.queue[i])
  IN [done[Len(w.queue)] EXCEPT !.queue = <<>>]

Queue(w, cs) == [w EXCEPT !.queue = @ \o cs]
Say(v) == <<[do |-> "say", value |-> v]>>
Tell(seats, ms) == <<[do |-> "tell", seats |-> seats, messages |-> ms]>>
TellAll(ms) == <<[do |-> "tell all", messages |-> ms]>>

-----------------------------------------------------------------------------
(* The systems of Update: what each reads, does at once and queues. *)

add_host_lobby_participant(w) ==
  IF w.hosting /\ w.me \notin w.roster THEN Queue(w, <<[do |-> "spawn", player |-> w.me]>>) ELSE w

add_remote_lobby_participants(w) ==
  LET new == InOrder(w.fresh)
  IN Queue(w, [i \in DOMAIN new |-> [do |-> "spawn", player |-> new[i]]])
\* All participants are told to each new seat, the new ones to all.
announce_participants(w) ==
  [IF w.hosting THEN Queue(w, Tell(w.fresh, SyncsOf(w.roster)) \o TellAll(SyncsOf(w.joined))) ELSE w
     EXCEPT !.joined = {}]

apply_lobby_state(w) ==
  IF w.hosting THEN w ELSE Queue(w, <<[do |-> "roster", updates |-> w.updates]>>)

clear_pending_on_host_change(w) ==
  IF "clear" \notin w.news THEN w
  ELSE [w EXCEPT !.pending = <<>>, !.news = @ \ {"clear"}, !.unheard = @ \/ OwnWaits(w)]

\* Not the code: said again at a change of host, and not when it is reached.
republish_at_the_change(w) ==
  LET heard == [w EXCEPT !.news = @ \ {"republish"}, !.reached = FALSE]
  IN IF "republish" \in w.news /\ w.requested # 0 /\ ~w.awaiting
     THEN Queue(heard, Say(w.requested)) ELSE heard
republish_player_data_to_a_new_host(w) ==
  LET heard == [w EXCEPT !.news = @ \ {"republish"}, !.reached = FALSE]
  IN IF ("republish" \in w.news \/ w.reached) /\ w.requested # 0 /\ ~w.awaiting
     THEN Queue(heard, Say(w.requested)) ELSE heard

publish_local_player_data(w) ==
  IF w.published \/ ~bounds.persisted THEN w
  ELSE Queue([w EXCEPT !.published = TRUE], Say(w.local))

\* A game sets its player's data, or its local copy of it: the next value.
Edit(w) ==
  LET next == [w EXCEPT !.local = @ + 1]
  IN IF ~w.edits THEN w
     ELSE IF bounds.persisted THEN [next EXCEPT !.published = FALSE] ELSE Queue(next, Say(next.local))

\* The host takes from a client its own data only.  What finds no participant
\* waits; late: what already did is for somebody who is not coming.  Without a
\* buffer to put it in, the one that is queued replaces what comes meanwhile.
apply_received_player_data(w) ==
  LET all == SelectSeq(w.pending, LAMBDA e : w.late => e.player \in w.roster \cup w.coming) \o w.arrived
      allowed == SelectSeq(all, LAMBDA e : w.hosting => e.sender = e.player)
      found == SelectSeq(allowed, LAMBDA e : e.player \in w.roster)
      waiting == SelectSeq(allowed, LAMBDA e : e.player \notin w.roster)
      inserts == [i \in DOMAIN found |->
                    [do |-> "insert", player |-> found[i].player, value |-> found[i].value]]
  IN IF w.buffer THEN [Queue(w, inserts) EXCEPT !.pending = waiting]
     ELSE Queue(w, inserts \o IF waiting = <<>> THEN <<>> ELSE <<[do |-> "buffer", entries |-> waiting]>>)

broadcast_changed_player_data(w) ==
  [IF w.hosting THEN Queue(w, TellAll(DataOf(w, w.changed))) ELSE w EXCEPT !.changed = {}]

WithData(w) == {x \in w.roster : w.data[x] # 0}
\* Not the code: a new seat is told of the host's own data only.
sync_its_own(w) == Queue(w, Tell(w.fresh, DataOf(w, WithData(w) \cap {w.me})))
sync_existing_player_data_to_new_clients(w) == Queue(w, Tell(w.fresh, DataOf(w, WithData(w))))

RunSystem(w, s) ==
  CASE s = "own" -> add_host_lobby_participant(w)
    [] s = "seat" -> add_remote_lobby_participants(w)
    [] s = "announce" -> announce_participants(w)
    [] s = "roster" -> apply_lobby_state(w)
    [] s = "clear" -> clear_pending_on_host_change(w)
    [] s = "apply" -> apply_received_player_data(w)
    [] s = "republish" -> republish_player_data_to_a_new_host(w)
    [] s = "publish" -> publish_local_player_data(w)
    [] s = "broadcast" -> broadcast_changed_player_data(w)
    [] s = "sync" -> sync_existing_player_data_to_new_clients(w)
    [] s = "game" -> Edit(w)
    [] s = "flush" -> flush(w)

-----------------------------------------------------------------------------
(* Frames. *)

\* A client reads from its host alone (all of these are HostOnly).
Sources(p) == {q \in Peers \ {p} : app[p].hosting \/ q = app[p].host}
OfKind(messages, kinds) == SelectSeq(messages, LAMBDA m : m.kind \in kinds)

\* coming: whose participant the host has told or will tell of.  The code gives
\* them ten seconds, a frame or two and a network's delay (PENDING_PLAYER_DATA).
Coming(p) ==
  app[host].roster \cup app[host].fresh
    \cup {m.player : m \in UNION {ToSet(packet) : packet \in ToSet(wire[<<app[p].host, p>>])}}

\* What p reads in a frame: all there is from every peer but one, and some from that.
Readings(p) ==
  UNION {{[q \in Sources(p) |-> IF q = r THEN n ELSE Len(wire[<<q, p>>])] : n \in 0..Len(wire[<<r, p>>])} :
           r \in Sources(p)}

Working(p, n, late, edits) ==
  LET Read(q) == IF q \in Sources(p) THEN FlattenSeq(SubSeq(wire[<<q, p>>], 1, n[q])) ELSE <<>>
      Data(q) == LET got == OfKind(Read(q), {"data"})
                 IN [i \in DOMAIN got |-> Buffered(q, got[i].player, got[i].value)]
      data[i \in 0..Len(Everyone)] == IF i = 0 THEN <<>> ELSE data[i - 1] \o Data(Everyone[i])
  IN app[p] @@ [me |-> p, out |-> [q \in Peers |-> <<>>], queue |-> <<>>, late |-> late, edits |-> edits, coming |-> Coming(p),
                updates |-> OfKind(Read(app[p].host), {"sync", "remove"}), arrived |-> data[Len(Everyone)]]

\* What is still queued is applied when the schedule ends.
Update(order, w0) ==
  LET ran[i \in 0..Len(order)] == IF i = 0 THEN w0 ELSE RunSystem(ran[i - 1], order[i])
  IN flush(ran[Len(order)])

Frame(p) ==
  /\ app[p].lobby
  /\ \E n \in Readings(p), edits \in {FALSE, left.edits > 0}, late \in {FALSE, app[p].pending # <<>>},
       order \in bounds.orders :
     \E w \in {Update(order, [Working(p, n, late, edits) EXCEPT !.back = {}])} :
          /\ app' = [app EXCEPT ![p] = [[f \in DOMAIN @ |-> w[f]] EXCEPT !.fresh = {}]]
          /\ wire' = [l \in DOMAIN wire |->
               IF l[2] = p /\ l[1] \in Sources(p) THEN SubSeq(wire[l], n[l[1]] + 1, Len(wire[l]))
               ELSE IF l[1] = p /\ app[l[2]].lobby /\ w.out[l[2]] # <<>> THEN Append(wire[l], w.out[l[2]])
               ELSE wire[l]]
          /\ left' = [left EXCEPT !.edits = IF edits THEN @ - 1 ELSE @]
          /\ UNCHANGED <<host, bounds>>

-----------------------------------------------------------------------------
(* Joining, leaving, broken links and new hosts: what backends and the       *)
(* migration do between frames.                                              *)

Cut(q) == [l \in DOMAIN wire |-> IF q \in {l[1], l[2]} THEN <<>> ELSE wire[l]]
Hosting == app[host].lobby /\ app[host].hosting

Join(q) ==
  /\ Hosting /\ q \in bounds.others /\ ~app[q].lobby /\ left.joins > 0
  /\ app' = [app EXCEPT
       ![q] = [NotInALobby EXCEPT !.lobby = TRUE, !.host = host, !.local = app[q].local],
       ![host].seats = @ \cup {q}, ![host].fresh = @ \cup {q}]
  /\ wire' = Cut(q)
  /\ left' = [left EXCEPT !.joins = @ - 1]
  /\ UNCHANGED <<host, bounds>>

\* A client leaves; its seat, or the participant waiting for one, goes with it.
Leave(q) ==
  /\ Hosting /\ app[q].lobby /\ q # host
  /\ left.joins > 0
  /\ LET w == Despawn(app[host], q)
     IN app' = [app EXCEPT ![q] = [NotInALobby EXCEPT !.local = app[q].local],
                           ![host] = [w EXCEPT !.seats = @ \ {q}, !.fresh = @ \ {q}]]
  /\ wire' = [l \in DOMAIN wire |->
       IF q \in {l[1], l[2]} THEN <<>>
       ELSE IF l[1] = host /\ l[2] \in app[host].seats /\ q \in app[host].seats \cup app[host].roster
       THEN Append(wire[l], <<RemoveLobbyParticipant(q)>>) ELSE wire[l]]
  /\ UNCHANGED <<host, left, bounds>>

\* A link breaks: the seat is held for its player, who waits for the host.
BreakLink(q) ==
  /\ Hosting /\ q \in app[host].seats /\ q \in app[host].roster /\ left.breaks > 0
  /\ app' = [app EXCEPT ![q].awaiting = TRUE,
                        ![host].seats = @ \ {q}, ![host].fresh = @ \ {q}]
  /\ wire' = Cut(q)
  /\ left' = [left EXCEPT !.breaks = @ - 1]
  /\ UNCHANGED <<host, bounds>>

\* The host seats a client that waits for it, and the client reaches it.
Seat(q) ==
  /\ Hosting /\ app[q].lobby /\ app[q].awaiting /\ app[q].host = host
  /\ app' = [app EXCEPT ![q].awaiting = FALSE, ![q].reached = TRUE,
                        ![host].seats = @ \cup {q}, ![host].fresh = @ \cup {q}]
  /\ UNCHANGED <<wire, host, left, bounds>>

HostGone(successor) ==
  /\ Hosting /\ left.changes > 0 /\ successor \in Members \ {host}
  /\ app' = [app EXCEPT ![host] = NotInALobby]
  /\ host' = successor
  /\ left' = [left EXCEPT !.changes = @ - 1]
  /\ UNCHANGED <<wire, bounds>>

\* A peer is told of it, and is the new host or goes on to reach it.
new_host_named(p) ==
  /\ app[p].lobby /\ ~app[p].hosting /\ app[p].host # host
  /\ LET Gone == {x \in app[p].roster : x \notin Members \cup {p, host}}
         w == FoldSet(LAMBDA x, v : Despawn(v, x), app[p], Gone)
     IN app' = [app EXCEPT ![p] =
          [w EXCEPT !.host = host, !.hosting = (p = host), !.awaiting = (p # host),
                    !.joined = w.roster, !.news = {"clear", "republish"}]]
  /\ wire' = Cut(p)
  /\ UNCHANGED <<host, left, bounds>>

Init ==
  /\ bounds \in Instances
  /\ host = bounds.host
  /\ app = [p \in Peers |->
       IF p = host THEN [NotInALobby EXCEPT !.lobby = TRUE, !.hosting = TRUE, !.host = p] ELSE NotInALobby]
  /\ wire = [l \in Peers \X Peers |-> <<>>]
  /\ left = [edits |-> bounds.edits, joins |-> bounds.joins, breaks |-> bounds.breaks, changes |-> bounds.changes]

Next ==
  \/ \E p \in Peers : Frame(p)
  \/ \E q \in Peers : Join(q)
  \/ \E q \in Peers : Leave(q)
  \/ \E q \in Peers : BreakLink(q)
  \/ \E q \in Peers : Seat(q)
  \/ \E p \in Peers : HostGone(p)
  \/ \E p \in Peers : new_host_named(p)
Spec == Init /\ [][Next]_vars
-----------------------------------------------------------------------------
(* Properties. *)

\* The shape of the state; only hosts keep seats, for members.
TypeOK ==
  /\ bounds \in Instances /\ host \in Peers
  /\ \A p \in Peers :
       /\ app[p].roster \cup app[p].changed \cup app[p].joined \subseteq Peers
       /\ app[p].fresh \subseteq app[p].seats
       /\ app[p].seats \subseteq IF app[p].hosting THEN Members \ {p} ELSE {}
       /\ \A x \in Peers : app[p].data[x] # 0 => x \in app[p].roster

\* Nothing is under way, and no system has anything left to see.
Quiet ==
  /\ Hosting /\ host \in app[host].roster /\ \A l \in DOMAIN wire : wire[l] = <<>>
  /\ \A p \in Members :
       /\ app[p].host = host /\ ~app[p].awaiting /\ p \in app[host].seats \cup {host}
       /\ app[p].fresh = {} /\ app[p].joined = {} /\ app[p].changed = {}
       /\ app[p].news = {} /\ ~app[p].reached
       /\ \A e \in ToSet(app[p].pending) : e.player \notin app[p].roster
       /\ bounds.persisted => app[p].published

\* Whoever hosts, however often links broke or requests were dropped for want of
\* a host, the value a player has in the end is the last its owner asked for
\* (player_data.rs: the requested data is kept so that it can be said again).
\* Unless the owner said an older word behind it in a frame, or hosts, and a
\* buffer its word was waiting in was cleared, replaced or applied too late.
TheOwnersLastWordStands ==
  Quiet => \A x \in Members : app[x].requested # 0 =>
    /\ app[x].crossed \/ app[x].requested = app[x].local
    /\ app[x].unheard \/ app[host].data[x] = app[x].requested

\* In the end every member knows every other and has the host's value of its
\* data, though both were told in pieces: to all at a change and to a new seat on
\* arrival, the roster apart from the data and perhaps after it.
EveryoneHasTheHostsValue ==
  Quiet => \A p, x \in Members :
    x \in app[p].roster /\ (app[host].data[x] # 0 => app[p].data[x] = app[host].data[x])

\* A host takes another player's data back to an older value only if its owner
\* said that behind the newer: not at any moment of a frame, by what was buffered,
\* said again, or late.
HostNeverGoesBack ==
  \A p \in Peers : \A x \in app[p].back \ {p} : app[x].crossed

\* Contradicted: "a peer's last SetPlayerData<T> is kept on its lobby and said
\* again after a change of host" (docs/MIGRATION.md:174), for a client "once the
\* new host is reached": what its game says in that frame may be said first, and
\* the value before it is then said again over it.
TheLastIsSaidAgain ==
  Quiet /\ host # bounds.host =>
    \A x \in Members \ {host} : app[x].requested # 0 => app[host].data[x] = app[x].local
==============================================================================
