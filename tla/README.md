# bevy_ensemble: a verification project

TLA+ models of bevy_ensemble's lobby networking, TLC runs that check them on small instances, and
proofs that TLAPS checks. Paths below are those of the repository; `webrtc/`, `sockets/`, `steam/`
and `loopback/` are short for `src/crates/bevy_ensemble_<name>/src/`, `core/` for `src/`.

## Inventory

| component | state | operations | talks to | what makes it correct | module |
|---|---|---|---|---|---|
| signalling server, lobby registry (`webrtc/server/{lobby,state,ws_handler}.rs`) | three concurrent maps: lobbies, codes, connections | create, join by id or code, cancel, leave, close, rename, connection end | one task per connection; a channel to each client | member list and handles agree; what is queued for a member adds up to the roster; succession by join order; a migratable lobby survives its host | `SignallingServer` |
| core: host migration, a client's half (`core/migration.rs`, `handshake.rs`, `ping.rs`) with the WebRTC backend's session (`webrtc/{systems,handshake,session}.rs`) | `AwaitingHost`, verdicts, `HostUuid` | host lost, new host named, clocks, verdicts, every end of a session | backends, pings | every wait ends in time; nothing from a host that was not compared is read; an end is told | `PeerSession`, `LobbyStage` |
| core: participants, and a host's half of migration (`core/{systems,observers,migration}.rs`, `webrtc/{systems,handshake}.rs`) | seats, participants and `AwaitingSeat` on the host; a copy of the roster on each client | seat, promote, lose, hold, redial, remove; announce, apply | links, the server | the roster is the seats; clients' rosters follow it; a held player is held for as long as promised | `Roster` |
| core: messages (`core/{outbound,registry,handshake,broadcast,observers}.rs`, `sockets/inbox.rs`) | batches, packets held per sender, verified and matched marks, a backlog | encode, pack, flush, queue, decode, hold, compare, replay, relay | all message traffic | nothing is decoded before the protocols matched; nothing is lost, repeated or reordered on the way | `Outbound`, `MessagePath` |
| core: player data (`core/player_data.rs`) | a value on each participant; what an owner asked for; what found no participant yet | set, apply, tell all, tell the new, say again to a new host | participants, migration | the owner's last word stands; all have the host's value | `PlayerData` |
| sockets (`sockets/{lib,native,recovery}.rs`) | one WebRTC connection per peer, its queues, tasks and gate; recovery and its deadline | dial, offer, answer, candidates, ICE restart, drop | WebRTC backend | connections to one peer do not get mixed up; candidates can be applied; a lost path is given up in time | `Socket` |
| Steam backend (`steam/{lib,session}.rs`) | lobby entity, seats, host and lobby trusted | create, join, callbacks, follow the owner, handshakes, leave, close, kick | Steam, core | a peer is listed where it is; all end up in the owner's session; an end is told; a closed lobby ends | `Steam` |
| loopback backend (`loopback/lib.rs`) | peers with an app each, a wire in virtual time | add, cut off, bring back, name a host; send, delay, lose, overtake, deliver | tests | packets arrive as traced; the host seats each client once | `Loopback` |

### What is hard here

* The server's tasks interleave wherever a map entry is released. `depart` releases the lobby
  before removing it and before telling its members; `create_lobby` draws a code before inserting
  it; a join by code looks the code up first.
* A peer runs its systems in an order nobody fixed, and their commands are applied later. A verdict
  reached from the world at the start of a frame (a deadline passed, a host silent) is carried out
  after what other systems decided in the same frame.
* Host changes reach a peer from the arbiter, while packets, handshakes and link losses reach it
  from the wire: the two orders are independent.
* Links break and are made again at both ends at different times, under the same player.
* Descriptions, candidates and reports of a connection are made on the transport's own tasks, and
  arrive after the connection was replaced.
* What is said once (a handshake, a roster, a player's value) must reach peers whose seat or lobby
  appears before, in or after the frame it is read in.

## Modules

### SignallingServer

Models `lobby.rs`, `state.rs` and the handlers of `ws_handler.rs` that call them.

State: `lobbies` and `lobby_codes` are the two maps of that name; the third map, `connections`, is
one function per field of `ConnectionHandle` (`lobby_id`, `entered_by`, `migrates`, `game`,
`name`), and a connection is in the map while its `job` is neither "offline" nor "closed".
`job[c]` is where the task of connection c is within the frame it is handling, with what it has read
so far: the lobby, the code it drew, the kind of departure, the members still to be told.

Actions: one per stretch of code between two releases of a map entry. `join_lobby` is two
(`JoinLobby` or `JoinLobbyByCode`, which resolves the lobby, and `EnterLobby` or `RefuseJoin`,
which runs with the entry held). `depart` is one step when the lobby is gone, when the departing
connection is a member and when it hands the lobby over, all under one entry; ending a lobby is
`EmptyLobby`, `RemoveLobby`, `RemoveCode`, and then `TellDisconnected` and `ClearDisconnected` for
each member.

Messages: each connection has an unbounded FIFO channel, so the model keeps in `told[c]` what the
client believes once it has read all that is queued: sending a message is applying it. Order of
sends within one queue is thereby kept, and nothing is said of when the client reads.

History variables: `struck` holds connections hit by the late disconnect of a lobby they had left,
`clashed` codes that two creations drew at once. They appear in properties to say exactly where
these hold, and constrain no action.

Simplifications, and why they are sound:
* A critical section under a lobby entry is one step although it also takes connection entries one
  after another: what it reads there is whether a connection exists and what it declared, and a
  client declares both its capabilities and its game once, right after it authenticates
  (`webrtc/lib.rs`, `webrtc/protocol.rs`).
  `hand_over` asks a second time who can follow (`lobby.rs:305-309` and `:349`). A connection
  leaves the map only after it has left its lobby, so between the two only a `struck` one can go;
  a successor that does is named host of a lobby it is not listed in, and the model leaves that out.
* Lobby ids are drawn at most once in a run: they are random 64-bit numbers.
* A client of an older build that declares nothing is a connection with `migrates` FALSE.
* `list_lobbies` reads and changes nothing.

### JoinOrder

A lobby's members are a `Vec` in join order. `Retain` is `Vec::retain`, `Iterator::partition` and
`find`, written without recursion. `MCSignallingServer` checks it against the library's `SelectSeq`
on every list of up to three members; the proofs show for every sequence that it keeps exactly the
elements asked for.

### PeerSession

Models what one peer's session goes through from join to end, on the client's side and until it
takes over as host: `migration.rs` but for a host's seats, `verify_protocol` and
`verify_promoted_peers` of `handshake.rs`, the last words of a lobby (`systems.rs`), the silence of a
host (`ping.rs`), and the systems of the WebRTC backend that feed them.

State: `world` is what commands act on: the one lobby entity with its components, `HostUuid`, the
peers there are connections to, the last word decoded and not yet applied, the `LobbyLeft`s written.
`inbox` is what the frame read from the network and the server.

Systems and commands. A frame begins by reading (`BeginFrame`), then every system with something to
do runs once. The schedule fixes no order between the systems modelled, so `todo` is a set and any
member may be next; the one exception is `detect_lobby_leave`, which comes after
`apply_lobby_events`, sync point included. A system changes resources and components at once and
queues the rest: `Runs(s, effect)` does the first and fills `buffer[s]`. A sync point applies
every buffer there is, in any order, before a system runs again: `Apply(s)` carries out one command
of s and `applying` says whose buffer the sync point is at. Where sync points fall is the
executor's choice, so they may come after any system. Each command is judged against the world
it is applied to: `host_lost`, `new_host_named` and `reconnect_ran_out` look again, the plain
removals and inserts do not. This difference is where several of the findings below come from.
A system that has nothing to do in a frame changes nothing and is left out of `todo` (`Busy`).

Correspondence: the systems' operators are, in the order of `Update`,
`run_host_migration_clocks`, `take_back_a_silent_host`, `verify_protocol`, `verify_promoted_peers`,
`apply_lobby_state`, `detect_dead_peers`, `poll_socket_peers`, `apply_lobby_events`, `leave_lobby`,
`time_out_pending_lobbies`, `promote_client_lobby_on_host_handshake`, `publish_host_uuid` and
`detect_lobby_leave`. `Do` lists the commands.

Inputs: `Possible` says what may have arrived in a frame. Packets come only over a connection
there is, a pong only from a verified host, and a host is silent only in a frame without packets
from it: the silence is counted from the last packet. `Join` is a request and the server's answer
in one, after the last lobby was torn down. `Connect` is the host's offer answered.

Time is counted in frames. A client's clocks advance by the frame's delta and are compared with
limits; a frame is the unit here.

History variables: `compared` holds the hosts compared in this session, `overlink` those
compared over the connection now up, `unled` the frames that waiting has lasted since the host was
lost or one named. They constrain no action.

### LobbyStage

What a game sees of all that: out, joining, playing, waiting, hosting. Written from what the
components `PendingLobby`, `Lobby`, `Host` and `AwaitingHost` tell a game; `PeerSession` implements
it under `StageOf`.

### Roster

The other half of a session: a host's seats, its participants, and the copy of the participants
that clients keep. `host` is what the host's commands act on; `nth` names a seat entity, so that a
command queued for one that is gone is told apart from one for its successor. Each system runs at
most once in a frame. Those between two sync points read the host as it is (`Queued`), and the sync
point applies what they queued, system by system in any order (`Stretch`); the one order the
schedule fixes is that `redial_held_seats` comes after `poll_socket_peers`. What `Events`, `Sockets`
and `Redials` do to a link they do at once (`AtOnce`). `EndFrame` is `flush_outbound`: one packet per
seat, which arrives if the link is up.

Beside it go the server's words about a player (`news`, read in the order they were said), each
player's link, and each client's session: joining, in, waiting for the host again, gone.

History variables: `unheard` are the removals a client had no seat to be told of, `crossed` the
players announced behind their own removal, `overtaken` those whose wait ran out in the frame they
came back, or who were promoted by a handshake of an earlier link.

The host's own participant is left out: it is there as long as the lobby is. A player joins once. A
client takes in what has arrived, in order; what its session makes of it is `PeerSession`'s.

### Outbound, MessagePath

`Outbound` is `push` and `frame_packets`: messages with a mode and a size, packed into batches.
`MessagePath` is a host and its clients: `encode_*` put messages into the batches, `flush_outbound`
makes packets of them, an unreliable channel loses and reorders them, the socket's inbox queues them
and makes room (`arrive`), `decode_ensemble_packet` delivers, holds or refuses each message,
`verify_protocol`, `verify_promoted_peers` and `replay_held_packets` compare and replay, and
`relay_broadcast_envelopes` passes broadcasts on. A frame of a peer is one step, because nobody else
sees its inside: `Update` is every order of the systems that have none between them, and a game
sends before or after them. A handshake is a message like the others, said once when a seat or a
lobby appears (`Promote`).

A loop of the code is `InTurn`: a step for each element of a sequence, one after the other.

History: `owed` is every message put into a batch for somebody, `lost` those dropped since.

Left out: which messages a client takes from its host only (in this model there is nobody else to
take them from), the network simulator between socket and decoder, and the fields of a handshake
beyond whether it differs.

### PlayerData

The systems of `PlayerDataPlugin` with those of the roster they stand between, on every peer. A
frame of a peer is one step that runs the ten systems, and a game's own one, in an order the
plugins leave open (`IsSchedule` says which are; `bounds.orders` are the ones a run's frames take).
A system reads the world as it finds it and queues commands (`Queue`), with the values it captured;
`flush` applies all that is queued, at the points of the order where the schedule would and at its
end. So what is said again may be older than what is said before it, and a buffer may be put in
place, cleared or applied between what a system read and what it does. Values are numbered as
their owner makes them. History: `crossed` (a peer said an older word behind a newer one),
`unheard` (its last was waiting on itself as host and was cleared, replaced or put behind an older
one) and `back` (whose data a host took to an older value in this frame, at any moment of it).

What backends and migration do between frames is one step for both ends: `Join`, `Leave`,
`BreakLink`, `Seat` (a client that waited is seated and reaches its host), `HostGone` and
`new_host_named`. A value that finds no participant is kept for ten seconds
(`PENDING_PLAYER_DATA`); the model gives it up only when the host has not told and will not tell of
that player, which is that constant's purpose. Protocols are compared elsewhere (`MessagePath`).

### Socket

Two ends of one WebRTC connection on native: what `EnsembleSocket` is asked to do, the callbacks of
the transport, and the two tasks of a connection, one step from await to await: the one that makes
an offer (`spawned`, `making`, and perhaps aborted while it holds the gate), and the one that
applies the peer's signals. Of a description the model keeps which connection made it (its
certificate) and which gathering of candidates it announces (its round). ICE, DTLS and the data
channel are what webrtc-rs makes of that: a path can be found only if each agent has the other's
credentials (`Met`), a channel only if the certificates fit (`Acquainted`). `update_peers` reads the
reports of a connection, passes them on and gives up a peer that has been reconnecting for too long.

A connection that is dropped (`DisconnectPeer`, `UpdatePeers`, a superseding `ReceiveOffer`) is gone
in that step. In the code it closes a little later: the tasks aborted with it release the candidates
they held (`native.rs:84-98`, `:158-173`), and the transport may report more until `close()` is
through. What those stray candidates do at the other end is left out: they belong to a connection that is
given up, and the properties speak of the candidates of descriptions that were sent.

History (`past`): which descriptions were sent, which candidates left before theirs, which connection
the app was last told about, and for how long it has believed the peer lost.

### Steam

Peers, Steam's lobbies, each peer's cache of them, and the callbacks not read yet. `Service` is
Steam: it answers, names the next owner, updates caches one by one, drops and reconnects peers.

A frame of a peer is `Update`. It reads one piece of `News` (`read_messages`, in PreUpdate), and then
come `react_to_events`, `follow_lobby_owner` and `leave_lobby`, an order that `BevyEnsembleSteamPlugin`
fixes (`steam/lib.rs:246-251`). They queue commands and are ordered, so a sync point is behind each:
`Framed` goes through three stretches. The news concerns one more system: a handshake one of
`promote_*`, a host's last word `apply_lobby_state`, a wait that has run out
`run_host_migration_clocks`, a silence `detect_dead_peers`. No order ties that system to the three, so
it runs in any of the stretches (`at`), reads the world at the start of that stretch (`Ordered`), and
its commands are carried out at the sync point of the stretch, before those of the other system there
or behind them (`CarriedOut`, `first`). `Runs` is such a frame, `Leaves` one in which the game asks to
leave. Where a system takes two worlds, `w0` is what its queries see and `w` what its commands change:
so `leave_lobby` says that the session is over whether or not the lobby still stands when its despawn
is carried out, as the code does, and `end_client_session` looks again.

`lobby_owner`, `lobby_members` and `lobby_is_closed` read the peer's own cache. The owner in it
lags behind; what is made of a lobby's data may be heard at any time, and is there at the latest with
the news of who left after it was set: Steam sends one lobby's changes in order, which is what
`CLOSED_LOBBY_KEY` relies on (`steam/lib.rs:1298-1301`).

Abstractions: a frame reads one piece of news, whose races with the batch of callbacks and with the
game are what is at stake; handshakes are said every half second, so they may be read in any frame in which
they would be said, and are never under way; messages sessions are not kept; a lobby's member list in
the cache comes with the callbacks; hosts of other lobbies, the list of friends' lobbies and joins
from the overlay are left out, and so are builds that differ: the end `verify_protocol` makes of a
session is in `PeerSession`.

### Loopback

The network a test drives: a call of `LoopbackNetwork` is an action, and so is what an app does in
its update; `Promote` needs a lobby that is still there. `collect_outbound` resolves what the apps left in their outboxes (`Collect`), then
every packet gets its fate (`Schedule`: lost, delayed, sent again, swapped with an earlier one,
duplicated), and `Advance` delivers what is due. Inboxes are kept whole. The client's session is
cut down to what the network reads of it (`OnHostLost`, `OnNewHostNamed`).

History: `past` holds who was unseated or replaced; `trace` what became of each packet. One is
`missed` when its receiver was cut off meanwhile (`Cuts`); a client that goes out because its host is
lost does not count (`CutsBut`), since `lose_host` drops that host's packets only. `rehost` clears all that
is under way, also what the new host has sent itself (`CutsAll`).

Left out: link presets, corrupted packets (`corrupt_next`), the round trips it publishes, the
network simulator's clocks, the silence of frozen peers, observers.

## Runs

| run | instance | shows |
|---|---|---|
| `SignallingSafety` | 3 connections, 2 lobbies, one code | member lists and handles agree; succession is by seniority; the migration promise is kept |
| `SignallingPair` | 2 connections, 2 lobbies, 2 codes, sizes 0, 1 and 3 against a cap of 2, typed requests; fair tasks | what is queued for a member adds up to the roster and the request that entered it; hosts, sizes and codes stay right; every member of an ended lobby hears of it |
| `SessionFrames` | one session, two inputs in a frame, one host change | waits are for the host there is, bounded and not given up early; only a compared host is read; an end is told, and only an end; the stages are those of `LobbyStage` |
| `SessionAgain` | two sessions, two host changes; fair frames | every wait ends |
| `RosterFrames` | one player with three inputs in a frame; two players, in lobbies created or inherited, that hold seats or not | the roster is the seats; a client misses nobody, and shows only those it could not be told of; a held player is held for as long as promised |
| `RosterRemovalNeverPanics` | the same | violated: a seat despawned in the frame a handshake promotes it |
| `MessagePaths` | a host and one or two clients, perhaps of another build, up to three messages, small limits | broadcasts come in one order and as their authors'; nothing is forgotten, repeated or lost to what shares its way; only compared peers are read; nobody waits in vain |
| `MessageReliableArrivesInOrder` | one client, large and small messages | violated: a small message overtakes a large one in an earlier batch |
| `PlayerDataSync` | a host and one or two others, four schedules and any of them in each frame, edits, joins, a broken link, a change of host | the owner's last word stands; all have the host's value; a host never goes back |
| `SocketLinks` | two ends, one or both dialling, drops, restarts by hand, lost paths, failing steps | connections are kept apart; candidates follow their description; the deadline runs from the loss; only strangers are refused |
| `SteamLobbies` | 2 or 3 peers, 1 or 2 lobbies, up to four requests and three upsets | a peer is listed where it is; trust goes with the lobby; nobody is stuck; an end is told, and only an end; a closed lobby is not taken over |
| `LoopbackNetwork` | 2 peers over a wire with everything wrong, 3 peers through up to seven calls | packets arrive as traced; the host seats each client once; nothing from before a cut arrives after it |

The modules with an `Instances` constant are run on several instances at once: each is a member of
the set `Small` of the MC module, `bounds` is the one a behaviour is of, and no action changes it. A
hazard needs two or three of the bounded things, seldom all of them together, so several small
instances reach what one large instance could not in the time there is. `CHECK_DEADLOCK FALSE` is
said where a bound used up, or a command that panicked, leaves nothing to happen. `TypeOK` is run
where a proof rests on it; in the other modules it is there to say what the variables hold.

Bounds of the `Signalling` runs: three connections are a host, a member that can follow and one that
cannot, or a host, an heir and a joiner, which is every pair of tasks that share a lobby plus one
observer of both; two lobby ids are the lobby being ended and the next one; one code in the larger
run is reused after a lobby ends, two codes in the smaller run let lobbies stand side by side and
make clashes. `IdsToSpare` bounds creations by the ids left. Games and names are one each: that a
joiner's game is compared, and that a host's rename reaches the listing, is in the actions, and no
property is about it.

Bounds of the `Session` runs: two other players are the host and its successor, or the host and the
one it is confused with; they are symmetric except under liveness. `PerFrame` is the inputs that
land in one frame: every hazard listed is a race of two of them, or of one with a clock. `MaxNamings`
and `MaxSessions` are the host changes and the lobbies in a run. Two handshakes at most are read in a
frame: one more repeats the second. `unled` counts no further than past everything promised. In
`SessionFrames` the waits are three frames for a successor, two to reach it, two to reconnect and one
by default, so that each way from one wait into the next changes the deadline.

Bounds of `RosterFrames`: with one player every race of a seat with its own loss, departure,
handshake and deadline happens (three inputs in a frame, two troubles); the second player is the one
somebody else's roster is about, so one input in a frame and one copy followed (`Watched`) are
enough.

Bounds of `MessagePaths`: two clients are needed where one's broadcast is relayed to the other; two
messages for order and packing, three where a backlog or a held room runs full. Limits are of a few
bytes, so that two messages fill a batch and one too many fills the room (`datagram`, `held_bytes`,
`backlog`).

Bounds of `PlayerDataSync`: two edits are an older and a newer value, a third one is said while the
first two are under way; two joins let a player come back; four schedules: commands
applied as late as they may be and as soon as they can be, with pairs of systems in opposite orders; the
one where what is said again is buffered before the buffer is cleared; and the one where a game's word
is said before what is said again. Each alone, and any of the four in each frame.

Bounds of `SocketLinks`: up to four connections, which are a connection, the one it is dropped for and
the other end's of both; candidates of up to three rounds; one or two restarts until they are used
up, and a deadline of two ticks.

Bounds of `SteamLobbies`: three peers are an owner, the member Steam names next and one that follows;
an upset is a leave, a close, a kick, a failure, a dropped connection or a request given up.

Bounds of `LoopbackNetwork`: two or three packets, delays of one frame and one of jitter, so that
every pair may be swapped, sent again or due at once; calls of up to seven, in groups that act on
one another; one instance has a host that left its lobby, was named again, and sends itself a packet.

Fairness of `SignallingServer`: `FairSpec` has weak fairness of each task's `Continue`. A task in the middle of a frame
never awaits anything but map entries, each held for a bounded time, and the runtime polls every
ready task. No client is assumed to send anything.

Fairness of `PeerSession`: weak fairness of `BeginFrame` and of `Update`: the application goes on
running frames, and a frame runs each of its systems and sync points. Nothing is assumed to arrive:
a wait ends by its clock if by nothing else.

Elsewhere no fairness is assumed. What must come about in the end is stated of the states in which
nothing is under way or left to do (`Quiet`, `AtRest`, `Settled`): in such a state nothing further
will come of it, so it must hold there.

## Proofs

`SignallingServerProofs`:
* `TypeCorrect`: `Spec => []TypeOK`, one step per action.
* `MembersAndHandlesAgree`: `Spec => []MembershipAgrees`. `MembershipAgrees` is about standing
  lobbies and is not inductive: a departure trusts the lobby it read from its handle, a disconnect
  trusts that the lobby it speaks for is gone. `MembershipInv` adds both, and that a member's
  handle names its lobby also while the lobby is being emptied (`MembersPointBack`,
  `HandlesPointIn`, `FramesAimRight`). `QuietStep` deals with the steps that touch no member
  list, `FramesStep` and `StandingStep` with what other tasks have read.

The registry's promises, in the same module, go on from there. `SoundInv` is `MembershipInv` with
`LobbyIsSound`, `MembersDeclared` (only connections past their first two messages are in a lobby, so what they
declared is fixed) and `HostsEndLobbies` (a lobby is taken out of the map by its host's task alone).
* `LobbiesAreSound`: `Spec => []LobbyIsSound`; `SeniorityHolds`: `Spec => SeniorityDecides`, step by
  step from `SoundInv`: what `Retain` leaves of the members is a part in order, and the heir is first
  of those that can follow.
* `CodesStayRight`: `Spec => []CodesLeadHome`. `CodesInv` adds the converse (`CodesAreTheirs`: an
  entry names a lobby drawn, and one with that code), that a task about to remove a code still finds
  its own lobby behind it unless the code is in `clashed` (`RemoversOwnTheirCode`), and that no
  two tasks end one lobby (`OneRemoverEach`).
* `RostersAgree`: `Spec => []RosterAgrees`: for every member of a standing lobby, however many join,
  leave and hand over meanwhile, what is queued adds up to the roster. `RosterInv` adds `ToldOfDrawn`:
  nobody was told of a lobby not yet drawn, which a new lobby needs. `RosterByPairs` turns the property
  into one statement per connection and lobby, `ToldStep` says what each step sends to whom.
* `PromisesAreKept`: `Spec => PromiseKept`. `PromiseInv` says what a promise was given on
  (`PromisesAreMeant`) and why the two kinds of departure that end a lobby break none
  (`EndsBreakNoPromise`): either those left behind cannot follow, or the lobby was never one that
  survives; `EndingStep` carries this through the four stages of the end.
* `StageStep`, `LobbiesStep`, `DeclaredStep`, `CodesStep` say once which actions write which part of
  the state; `Inserting`, `Entering`, `DepartingMember`, `HandingOver` and `Emptying` what each of the
  five that change a member list does to it.

`SequenceProofs`, which the others extend: `RetainKeepsExactly`, from `RanksNumberThePlaces`: the
ranks of the kept indices count from one to their number, so the `CHOOSE` in `Retain` always has a witness. From it:
`RetainPicks` (what stays is in its order), `RetainShortens`, `RetainEverybody`, and `RetainTwice` (to
keep some, and some of those, is to keep what is in both), which the registry proofs cite. `Folds`:
a recursive function along a sequence has its values, as far as the sequence goes. It is by a least
number (`WFMin`), and serves the socket's reports and Steam's batches of callbacks.

`PeerSessionProofs`:
* `SessionTypeCorrect`, `WaitsOnlyForTheHost` and `ReadsOnlyTheCompared` are `Spec => []TypeOK`,
  `[]WaitsAreForTheHost` and `[]VerifiedMeansCompared`; `SessionKeepsItsStages` is the refinement of
  `LobbyStage`.
* All four rest on `SessionInv`. What is true of the world at a rest is not inductive, because
  queued commands act on a later world than they were queued in. So `SafeQueue` says of every
  queued command what makes it safe in any world it can meet: a host to verify was compared
  (`compared` never shrinks while commands are queued); only `apply_lobby_events` names hosts, so
  that a host's own lobby is never handed to another; and `HostUuid` is let go only behind the
  despawn of the lobby, or after it. `SafeFrame` ties the inbox to `compared`, and says that this
  peer does not become host before `apply_lobby_events` has run: a disconnect there is told to a
  client, or to nobody. `Sound` is the invariant of the world itself: a lobby that is gone has
  nothing verified or matched, a wait is a client's, and what is verified or matched was compared.
* `DoKeeps` shows that every command keeps `Sound` and moves the stage as `LobbyStage` allows
  (`Moves`), one lemma per command; `Harmless` says that a system changes no stage and queues only
  safe commands, one lemma per system; `RunsKeeps` and `ApplyKeeps` put them together.

The waits, in the same module:
* `WaitsAreBounded`: `Spec => []WaitIsBounded`; `NoWaitIsCutShort`: `Spec => NotGivenUpEarly`;
  `NobodyIsDroppedUntold`: `Spec => NobodyIsDroppedInSilence`, for any limits and any number of others.
* They rest on `LossInv`, which adds three parts to `SessionInv`. `WaitInv`: the frames waited are
  those the history counts, and the limit is the one due (`WaitSound`); a wait at its limit has
  its end queued by the clock, unless it is for a host to come back and the other command does so
  (`ClockQueue`); an end queued in a frame without news is of a wait at its limit (`EndIsDue`);
  and a wait begins only on news (`NewsQueue`). `FrameInv`: a system that has yet to run in this frame
  has nothing queued, and what gave it work is still there. `ToldInv`: who asks for a despawn has said
  that the session is over, and who has said so has asked.
* `Passes` is what a command may do to a wait, one lemma per command (`DoPasses`); `Patient` is what a
  system may queue, one lemma per system; `ApplyPasses` and `UpdateIsPatient` put them together.
* `Due`, which says which limit counts for the wait there is, came out of the attempt. The property
  used to allow the longer of two limits; where a host may take longer to come back than the server
  to name another, a wait for a successor then ended before it was due, and a wait might have lasted
  longer than it should.

`SocketProofs`:
* `LinksStayApart`, `DescriptionsGoFirst` and `DeadlinesRun`: `Spec => []P` for `ConnectionsAreKeptApart`,
  `CandidatesFollowTheirDescription` and `DeadlineRunsFromTheLoss`; `StrangersAlone`: `Spec =>
  OnlyStrangersAreRefused`; `TypesHold`: `Spec => []TypeOK`. All rest on `InvHolds`, for any number of
  connections, restarts, rounds, losses and failures.
* `Inv` has two halves. `LinkInv` is about the two ends and what is between them. Each connection is
  sound by itself (`ConnectionSound`): its gate counts those that hold it, what is held back is of its
  own rounds and nothing of a round being described has gone out, and an answerer with nothing applied has
  an offer first in its queue. Each offerer is linked to the other end (`LinkSound`): so long as it has
  offered nothing, nothing names it; and while it waits for its answer, every candidate addressed to it
  whose description was sent has an answer ahead of it, in its queue or on its way
  (`AnswersComeFirst`), and a peer that has answered it has that answer still on its way
  (`PeerSound`). This is what `OnlyStrangersAreRefused` needs and what no single connection knows.
  `ToldInv` says that what was reported and told is of the connection there is.
* The first half is about values: what a connection may say (`Says`), take in (`Queues`,
  `Applies`) and become (`Makes`, `Meets`), and that each keeps the parts. The second puts two of them
  together (`Pair`, the same from either end by `Symmetric`), shows which of these each action does, and
  concludes. `update_peers` reads any number of reports at once: `AllRead` is by `Folds`.

`SteamProofs`:
* `MembersAreListed` and `TrustIsTheLobbys`: `Spec => []P` for `ListedWhereItIs` and
  `TrustGoesWithTheLobby`; `EndsAreTold` and `ClosedStaysClosed`: `Spec => OverIsTold` and
  `Spec => ClosedIsNotTakenOver`; `TypesHold`: `Spec => []TypeOK`. All rest on `InvariantHolds`, for any
  number of peers, lobbies, requests and upsets.
* `IInv` ties four things together that different parties write. `Trusts` is the property. `Listed`
  says that Steam lists a peer only in the lobby its entity names, or in one an unread answer names.
  `Awaits` says why that answer will be taken: one request is under way at most, of the kind its
  entity waits for, and once it is answered the queue holds the one answer that this stage takes, with
  no other before it to spend the entity. `Whole` says which fields go with which stage. `Trusts`,
  `Awaits` and `Listed` are not required of a peer whose game gave a request up: with the late answer
  the code does take the trust of a lobby it holds no entity for (see below).
* A frame is three stretches, each a system and perhaps the order of another, each of which may end
  the session. `Goes` is what such a function keeps, one lemma per function, and `Onward` composes them:
  the lobby stays the same while there is one, a client becomes a host only of a lobby that its cache gives
  it and calls open (`MayTake`), an end is told as `Turns` allows, and a lobby that was held is still
  held or is left. `Ordered` is judged in the world its stretch began with and carried out in a later one
  (`Apt`, `OrderGoes`). A leave is not in `Goes`: it keeps `Lasts`, and may tell a second end where
  the other commands of its stretch have told one (`Twice`, `AfterLeaveGoes`). Callbacks of one batch are
  read against the world before it: `ReactOnce` and `ReactAlong` say that all but one of them keep `Goes`
  and that the one answer is taken (`AnswerReads`), so that the whole frame keeps `Brings`; `HandleReads`
  says what a batch keeps whatever is in it, which is all a peer that gave up a request can rely on.
* `CommitKeeps` lifts that to the system: the step's own peer by what it has come to, the others
  because they only hear of it (`Unmoved`). `OneLobby`, that a trusted peer is listed in one lobby
  at most, is what a lost connection needs.
* `NobodyStaysStuck`: `Spec => []NobodyIsStuck`, from a second invariant, `StayInv`, on top of `IInv`
  (`StaysAlways`). At rest, a peer that holds a lobby must be a member of it, and nothing in `IInv` says
  so: it goes from Steam's members to the entities, never back. `Belongs` is the way back. Whoever
  holds a lobby that does not list it is off line, or has a callback to read that it left (`Left`), or is a
  host whose cache names another owner, unless the lobby is empty; an answer not read yet names a
  lobby that lists the peer it is for; only a host closes a lobby (in `Whole`). `Owned` ties the lobbies to
  the caches: a lobby that has members is owned by one of them, and every member's cache holds
  these members. `Tame` says what the functions of a frame keep of that, `FrameLeft` that a client
  told that it left has no lobby after the frame, `DepartsKeeps` that Steam hands on what a departure
  leaves, and `CommitStays` concludes for any step of a peer. `RestsOn` to `SeatsAreMembers` then work out
  what rest means: caches and pins name the owner (`KnowsTheOwner`), the owner hosts (`OwnerHosts`), and a
  handshake it would say again has opened every other member (`OthersAreIn`). `StayInv` is claimed while no
  game gave a request up, which is what the property is about.
* `ClosedStaysClosed` rests on a third, `CloseInv` (`ClosesAlways`). A client reads its cache, and the
  property speaks of Steam's servers. `Aware` is the link: a cache that names its own peer the owner
  is right in that, and says that the lobby is closed if it is, unless this peer closed it and hosts it
  still. `Ruled` is why a departure cannot hand a lobby to somebody who would not know. `DepartsFresh` and
  `CommitCloses` carry both through a departure and through any step of a peer, `FramesClose` through the
  frames, in which a host never becomes a client.

`MessagePathProofs`, for any peers, builds, limits, channels and orders of the systems:
* `NothingUncomparedIsRead`: `Spec => []OnlyTheComparedAreRead`; `NobodyIsLeftWaiting`: `Spec =>
  []NobodyWaitsInVain`. Both rest on `PathsStayRight`, `Spec => []PathInv`.
* `PathInv` is about one peer's app, what is on its way, and the two together. What an app holds has
  the author that where it lies allows: a client's batches carry its own sayings, only a host's carry
  those of others, and what waits to be relayed came from somebody compared; what has been read is
  of a peer that was compared and is no different (`Right`, `Apps`). The same is said of the packets
  of every wire, queue and backlog (`Carried`, `Received`). That is what `OnlyTheComparedAreRead`
  needs, which looks at apps only.
* `NobodyWaitsInVain` is about a state in which nothing is left to do; `GreetInv` says why it will
  be right there. For every two peers of one build the handshake of the one is still unsaid (its
  seat or lobby is fresh), or on its way (`OnItsWay`: on the reliable wire or in the inbox, neither of
  which loses it), or it has arrived and is `Settled`: verified, or matched with the seat yet to
  come. The middle case is what a frame must not lose: a packet is decoded or kept, a batch becomes
  packets with the same messages (`FlushSends`), and what is evicted was never a handshake's
  (`GreetingsStay`). `Updated` puts the systems of a frame together for either order of the two that
  compare.
* What each system does is said once. `After` of two worlds says that the later one is right where
  the earlier was, hears no fewer greetings and forgets nobody it has verified (`Gains`), one lemma
  per function (`DispatchStays` to `FreshStays`). `StaysAlong` and `GrowsAlong` carry it through a loop, by
  `Folds`.
* `PushKeepsThePacking`, for any batches, messages and limit: pushing keeps every
  batch to one peer's one guarantee, a message without delay alone in its own, and the bytes of a
  batch of several within the limit less the allowance. `LastOfSome` gives the `CHOOSE` in `push` its
  witness; `AloneIsPacked` and `JoinedIsPacked` are the two things that can come of a message. It says
  nothing of the length of the frame, which is the batch's and the framing's (see below).

`RosterProofs`, for any number of players, inputs in a frame and orders of systems and commands:
* `RosterFollowsTheSeats`: `Spec => []RosterIsTheSeats`; `RosterTypesHold`: `Spec => []TypeOK`. Both rest on
  `RosterStaysRight`, `Spec => []RosterInv`. What is true between sync points is not inductive within
  one: commands queued on what was read are applied to what others have made of it. `Mid(g, unknown)`
  is what the host `g` may have come to by then: everyone listed has a seat or is waited for
  (`Backed`), and a seat is either as it was read, or gone, or a new one that has not been promoted
  (`Since`), so that what a command was queued for is recognised. `Orders` is what a system may queue;
  one lemma per command says it keeps `Mid`, one per system that its queue is `Ready` (a seat is
  despawned before another is spawned in its place). `StretchKeeps` adds that the
  systems which are to put something right have done so at the end, whatever came after them
  (`Served`). `Newcomers`, the third part of `RosterInv`, says that a player of whom the server's word
  has not been read has no seat.
* `NobodyIsGivenUpEarly`: `Spec => HeldUntilDue`. `Meant` says of every queued command why it was
  queued, `Says` what each may do to a player and to whom it speaks (`DoSays`, one lemma per
  command). `HeldOn` follows one player through a frame; it needs `LastWords`: whom the server says
  has left is gone, and a link that brought a handshake was not lost in that frame.
* `NobodyIsLeftOut` and `GhostsAreExplained`: `Spec => []P` for `NobodyIsMissing` and `GhostsWereMissed`,
  from `CopiesAreOwed`, `Spec => []Copies`. The properties speak of clients that have heard all there
  is to hear. `Copies` speaks of every client, and of what it will know when it has the batch
  that is on its way to it (`Copy`): nobody listed is lacking but those still to be announced as
  changed (`Owed`), and nobody is shown who is neither listed nor explained (`Explained`). Within a frame
  `Owed` is relaxed by what the systems to come will tell (`Paid`): `sync_existing_participants_to_new_lobby_clients`
  pays the roster it read, `broadcast_changed_lobby_participants` the changes, in any order, and whoever comes
  to be listed after they read is changed anew.

`LoopbackProofs`, for any number of peers, calls, packets and links:
* `EverySeatOnce`: `Spec => []HostSeatsEachOnce`, from `SeatsStayRight`: `Spec => []IInv`. The property
  speaks of the host of the moment. A seat must be right before there is a host to have it: whoever may be
  named has no seats (`NoSeatsYet`), a host that hosts for the first time has one for each that is
  attached, and for nobody else (`SettledSeats`), and there is one host at most, none while one is
  lost (`OneHost`, `LostIsNoHost`). Each call of the network is a lemma, most of them an instance
  of a few: a peer is put off (`OffKeeps`), given its seat (`GivenKeeps`), comes (`OneComes`), or changes with
  no seat at stake (`OneChanges`).
* `PacketsArriveAsTraced`: `Spec => []ArrivesAsTraced`, and `NothingComesFromBefore`:
  `Spec => NothingFromBeforeTheCut`, both from `WireStaysRight`: `Spec => [](IInv /\ WireInv)`. The properties
  count packets and compare two of one inbox. What carries that through a step is said of what is
  under way: nobody there was cut off (`FlightKnown`), no number is given twice on a link
  (`FlightNumbered`), reliable packets are numbered and due in the order they were sent, none after the
  link's last (`FlightOrdered`), and what has arrived comes before all of them (`ArrivedOrdered`). `Counted` adds up
  the places and the copies of each packet; where a cut may have lost some it is a bound, and a way
  that was never cut is open still (`WaysOpen`), so that what is due there is handed over. A packet
  that overtakes changes what is under way twice: the one it swaps with keeps its identity, so the
  counts stay. `Handed` chooses an order for what is due; `InOrder` shows that there is one, by counting what
  comes before each (`Before` is total where no number is given twice), and `AdvanceCounts` matches what
  lands in an inbox with what leaves the wire.
* The attempts corrected the model three times: `Promote` was possible with no lobby to promote;
  `NothingFromBeforeTheCut` was said of the packet of a replaced host, too, whose receiver goes out with
  the host that is lost next: the code leaves that packet under way; and `rehost` counted as a cut only
  for those it puts out, though it clears the wire of the new host's packets to itself as well.
  `WaysOpen` was what failed, and an instance that shows it is among the runs' now.

Assumed: the constants' assumptions in `SignallingServer` (`None` is none of the ids, sizes are
naturals, the connections are finitely many), in `PeerSession` (`Me`, `None` and the others are different,
waits are at least a frame, the bounds are naturals), and that the bounds are naturals in `Socket`,
`Steam`, `Loopback` and, with the builds and limits of an instance, `MessagePath`; in `Roster`, that the
clients are finitely many and a held seat is held for a frame at least.

Only model-checked:
* Liveness (`EveryMemberHearsTheEnd`, `EveryWaitEnds`), which is out of the prover's reach.
* `MessagePath`'s `AgreedOrder`, `AccountedFor` and `ReliableIsKept`. `AgreedOrder` is no theorem for every
  instance: it holds where the messages of one mode are of one size, and fails where they differ, because
  a small one is put into an earlier batch (see Findings). `AccountedFor` and `ReliableIsKept` add up the
  copies in several queues at once, which takes induction over the queues.
* `PlayerData`'s `TheOwnersLastWordStands`, `EveryoneHasTheHostsValue` and `HostNeverGoesBack`. They depend on
  the order in which the systems of one frame run and their commands are applied, and the first two
  speak of the moment when nothing is under way any more.

## Findings

With a run that shows it:

* `promote_host_client_on_client_handshake` inserts into a pending seat that another system's
  command may have despawned in the same frame (`webrtc/handshake.rs:184`), and panics, against
  `docs/MIGRATION.md:177-178`. Run `RosterRemovalNeverPanics`.
* A small reliable message is put into an earlier batch that still has room, ahead of the large one
  sent before it (`outbound.rs:63`), against `messages.rs:8` and `:11`, which promise order. Run
  `MessageReliableArrivesInOrder`.

TLC refutes the following statements as well. Each is a definition of its module, behind the
properties, with the words it is taken from; to see its counterexample, put it into the `cfg`
named as the only property, with the constants given where they differ.

| statement | cfg | what happens |
|---|---|---|
| `SignallingServer!NobodyJoinsALobbyWithNoHost` | `SignallingPair`, `Spec` | a join by id, or by a code looked up in time, enters a lobby between the release of its entry and its removal (`lobby.rs:319`); the joiner is told of a host that has left. `lobby.rs:317-318`: "nobody can join a lobby with no host from here on anyway, since its code goes with it" |
| `SignallingServer!MembersAreInTheLobby` | `SignallingPair`, `Spec`, `MaxPlayers = 3` | `disconnect` clears the handle of a connection that has joined another lobby meanwhile (`lobby.rs:387`); its own leave then finds nothing to leave. `state.rs:79`: members is "Everyone in the lobby, the host included" |
| `PeerSession!OneEndPerSession` | `SessionFrames` | a `LobbyLeft` written at once is written whether or not the session still stands when its despawn is applied (`handshake.rs:319`, `webrtc/systems.rs:544` and `:919`). `docs/MIGRATION.md:258-261`: "the client now hears `LobbyLeft` once" |
| `PeerSession!VerifiedOverThisLink` | `SessionFrames` | a verdict queued in the frame the link breaks is applied behind `forget_host_link`, and counts for the next connection (`handshake.rs:284`). `migration.rs:423-424`: "verified from scratch" |
| `PeerSession!GivesUpOnlyWhenDue` | `SessionFrames` | the end that `run_host_migration_clocks` queues does not look at the wait again (`migration.rs:716`): a host named or reached in that frame is thrown away with the lobby. `docs/lobbies.md:151-152`: the session ends "if nobody is named within" the limit or the new host "cannot be reached" |
| `PeerSession!ComingBackEndsTheWait` | `SessionFrames` | a host back after its seat's deadline, in a migratable lobby, is verified and still waited for, until the session ends with it there (`migration.rs:744`). `docs/backends.md:204-206`: the wait "is ended by the same handshake" |
| `Roster!NoGhosts` | `RosterFrames` | a player removed in the frame a new client is told of those present is announced behind its own removal and stays in that client's roster (`systems.rs:203`); and a removal is never told to a client that has no seat then. `docs/participants.md:62`: "clients despawn the corresponding participant entity" |
| `MessagePath!AFrameFits` | `MessageReliableArrivesInOrder`, `Instances <- Crowded` | a batch allows eight bytes for framing, and `frame_packets` adds up to three for each message (`outbound.rs:61`). `outbound.rs:21`: "A frame never exceeds" the limit |
| `Socket!ConnectedMeansOpen` | `SocketLinks` | a restart under way before the connection first opened ends in a report of Connected with the data channel still to come (`recovery.rs:108`). `sockets/lib.rs:69`: "The reliable data channel is open" |
| `Steam!OneEndPerSession` | `SteamLobbies` | a leave, and an end by the core or a callback in the same frame, tell of it twice: `leave_lobby` and `follow_lobby_owner` write `LobbyLeft` at once and only queue the despawn (`steam/session.rs:142-150`, `steam/lib.rs:925-928`). `docs/MIGRATION.md:258-261`: "the client now hears `LobbyLeft` once" |
| `Steam!StillListed` | `SteamLobbies` | a request given up before Steam answers leaves this peer a member of a lobby it has no entity for (`steam/lib.rs:601`). `steam/session.rs:110-111`: "abandoning the entity alone would leave this peer listed as a member of a session it is not in" |
| `Steam!NobodyIsItsOwnHost` | `SteamLobbies` | a peer that joins a lobby whose owner leaves meanwhile pins itself as its host, and stays a pending client |
| `PlayerData!TheLastIsSaidAgain` | `PlayerDataSync`, `Instances <- SaidAgain` | `republish_player_data_to_a_new_host` captures the value it says again (`player_data.rs:302`) and says it when its commands are applied: what a game says in the frame the new host is reached may be said first, and the value before it last. `docs/MIGRATION.md:174`: "A peer's last `SetPlayerData<T>` is kept on its lobby and said again" |
| `Loopback!OvertakingArrivesFirst` | `LoopbackNetwork`, `Instances <- Jittery` | under jitter the packet overtaken may have been due later, and the swap restores the order they were sent in (`loopback/lib.rs:1726`). `loopback/lib.rs:1723-1725`: "the later one arrives first and nothing else moves" |

Seen in the models, with no statement to hold them against:

* Two creations that draw the same code at once leave one of the lobbies without its code; the
  `clashed` variable marks it. With 26^4 codes this needs both luck and timing.
* The removal of `AwaitingHost` does not say which wait it ends, and ends the wait for a host named
  in the same frame (`core/handshake.rs:274`, `migration.rs:675`); a mismatch that arrives before the
  lobby is promoted does not end the join (`core/handshake.rs:309`), nor does one read before a host's
  seat is there; a client that waits for a successor goes on reading the host it lost
  (`migration.rs:401`, against the comment at `migration.rs:145`).
* A handshake that came over a dropped link promotes the seat of the next attempt, whose link is not
  up (`webrtc/handshake.rs:169`); `overtaken` marks the player.
* An answer names no offer: after two restarts in a row, or a redial, the answer to the first is taken
  for one to the last and the real one is refused (`native.rs:672`). The deadline bounds what comes
  of it.
* On Steam too, a handshake may promote a seat or a lobby that another command despawns in the same
  frame (`steam/lib.rs:1120` and `:1160`), and `follow_lobby_owner` inserts into a lobby that the core's own
  end may have despawned (`steam/lib.rs:887-904`). These inserts would panic as the one of
  `RosterRemovalNeverPanics` does; in the model such a command finds nothing and does nothing.
* Two `Entered` callbacks for one member in one batch spawn two seats, because the query sees the
  world as it was; a player that leaves and joins again within one batch has its new session ended by
  the word about its old one.
* A value buffered for a player who has left, or read in one frame with their removal and their
  return, is put on their next participant. The host's own early value, buffered before it has a
  participant, may overwrite a newer one, and a new host's, said again, is lost when the buffer is
  cleared for the same change (`player_data.rs:258` orders neither): `unheard` in
  `TheOwnersLastWordStands`.

## Not modelled

* The signal relay and the rate limits of the server: a check before a signal is passed on and a token
  bucket per connection. Neither changes the registry, and what late signals do is in `Socket`.
* The order of the map shards' locks: a critical section is one step, so a deadlock of two tasks that
  hold one entry and want another's cannot be seen in the model.
* The requests a client has open with the server, and its reconnection to it (`webrtc/connection/`);
  signals deferred until a lobby is there.
* The TURN endpoint, start-up and TLS, persistence, logs: I/O. The debug overlay, metrics, link
  reports, ping rounds and smoothing, cadence: numbers on one peer that no other component acts on,
  but for the silence that ends a session, which is an input of `PeerSession` and `Steam`.
* The network simulator: what it does to packets, the wires of `Loopback` and `MessagePath` do.
* The browser's half of the sockets (`wasm.rs`), the diagnosis of failed connections, routes.
* The registration of message types and what bytes they become.
