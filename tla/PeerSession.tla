----------------------------- MODULE PeerSession -----------------------------
(***************************************************************************)
(* One peer's session through the loss, the return and the change of its   *)
(* host: migration.rs, the verdicts of handshake.rs, systems.rs and        *)
(* ping.rs on a client, and the WebRTC backend's systems that feed them.   *)
(*                                                                         *)
(* A frame reads the network first (inbox), then runs every system once.   *)
(* The schedule fixes no order between the systems modelled here, but that *)
(* detect_lobby_leave comes after apply_lobby_events, and what a system    *)
(* queues as commands is applied at some later sync point of the frame.    *)
(* Runs(s, ..) is system s reading the world and filling its buffer;       *)
(* Apply(s) is a sync point at work, which carries out every buffer there  *)
(* is, one after the other, before any system runs again.                  *)
(*                                                                         *)
(* Time is counted in frames.                                              *)
(***************************************************************************)
EXTENDS Naturals, Sequences, FiniteSets

CONSTANTS Me,               \* LocalMultiplayerPlayerId
          Others,           \* the other players, any of which may host
          None,             \* Option::None
          SuccessorWithin,  \* HostMigratable::successor_within
          ReachWithin,      \* HostMigratable::reach_within
          DefaultReach,     \* DEFAULT_REACH_WITHIN
          ReconnectWithin,  \* Reconnectable::within
          PerFrame,         \* bound: inputs that land in one frame
          MaxNamings,       \* bound: host changes in all
          MaxSessions       \* bound: lobbies joined

ASSUME PlayersAssumption == Me \notin Others /\ None \notin Others \cup {Me}
ASSUME WaitsAssumption ==
  {SuccessorWithin, ReachWithin, DefaultReach, ReconnectWithin} \subseteq Nat \ {0}
ASSUME BoundsAssumption == {PerFrame, MaxNamings, MaxSessions} \subseteq Nat

VARIABLES world,     \* what commands act on: see Worlds
          inbox,     \* what this frame read: see Inboxes
          todo,      \* systems of this frame that have not run
          buffer,    \* commands queued and not applied, per system
          applying,  \* the system whose buffer a sync point is at, or None
          opened,    \* sessions so far
          namings,   \* host changes so far
          compared,  \* history: hosts compared in this session
          overlink,  \* history: hosts compared over the connection now up
          unled      \* history: frames since the host was lost or one named

vars == <<world, inbox, todo, buffer, applying, opened, namings, compared,
          overlink, unled>>

Players == Others \cup {Me}
Causes == {"Transport", "Silence"}
Reasons == {"Kicked", "HostGone", "PeerTimeout", "SignallingLost",
            "ProtocolMismatch"}
LastWords == {"none", "kicked", "closed"}
Systems == {"clocks", "pongs", "handshakes", "matches", "words", "silence",
            "sockets", "events", "leaving", "joining", "promotion", "publish",
            "teardown"}

\* AwaitingHost.
Waits == [on : BOOLEAN, previous : Players \cup {None},
          successor : Players \cup {None}, cause : Causes,
          waited : Nat, limit : Nat]
NotWaiting == [on |-> FALSE, previous |-> None, successor |-> None,
               cause |-> "Transport", waited |-> 0, limit |-> 0]
IsReconnect(wait) == wait.on /\ wait.successor = wait.previous

\* The lobby entity.  verified is HandshakeVerified with its VerifiedHost,
\* matched is ProtocolMatched, held is a last word kept in HeldUntilVerified,
\* fresh is Added<Lobby> until verify_promoted_peers has seen it.
Lobbies == [phase : {"none", "pending", "lobby"}, hosting : BOOLEAN,
            wait : Waits, verified : Players \cup {None},
            matched : SUBSET Players, held : LastWords, fresh : BOOLEAN,
            migratable : BOOLEAN, reconnectable : BOOLEAN]
NoLobby == [phase |-> "none", hosting |-> FALSE, wait |-> NotWaiting,
            verified |-> None, matched |-> {}, held |-> "none", fresh |-> FALSE,
            migratable |-> FALSE, reconnectable |-> FALSE]

\* host is HostUuid; links are the peers there is a connection to; said is a
\* last word decoded and not applied; left is every LobbyLeft of the session;
\* removed says a lobby went and detect_lobby_leave has not seen it;
\* panicked that a command found no entity to act on and had to have one.
Worlds == [lobby : Lobbies, host : Players \cup {None}, links : SUBSET Players,
           said : LastWords, left : Seq(Reasons), removed : BOOLEAN,
           panicked : BOOLEAN]

\* What a frame reads.  ready is the host's WebrtcReadyHandshake; shakes are
\* its protocol handshakes, TRUE for one that matches; word is the last it
\* says about the lobby; broken is its connection, over or superseded by a new
\* one; named and over are the signalling server's; from is HostUuid as the
\* packets are decoded.
Inboxes == [ready : BOOLEAN, pong : BOOLEAN,
            shakes : Seq(BOOLEAN), word : LastWords,
            silent : BOOLEAN, broken : {"no", "over", "superseded"},
            named : Players \cup {None}, over : {"no", "disconnected", "closed"},
            leave : BOOLEAN, overdue : BOOLEAN, from : Players \cup {None}]
NothingRead == [ready |-> FALSE, pong |-> FALSE, shakes |-> <<>>, word |-> "none",
                silent |-> FALSE, broken |-> "no", named |-> None, over |-> "no",
                leave |-> FALSE, overdue |-> FALSE, from |-> None]

Exists(w) == w.lobby.phase # "none"
Client(w) == Exists(w) /\ ~w.lobby.hosting
Promoted(w) == w.lobby.phase = "lobby"
\* peer_is_verified of the host, on a client.
HostIsVerifiedMutant(w) == Client(w) /\ w.host # None /\ w.lobby.verified # None
HostIsVerified(w) == Client(w) /\ w.host # None /\ w.lobby.verified = w.host

------------------------------------------------------------------------------
\* What the commands do, each judged against the world as it finds it

Wait(previous, successor, cause, limit) ==
  [on |-> TRUE, previous |-> previous, successor |-> successor, cause |-> cause,
   waited |-> 0, limit |-> limit]

Despawn(w) == IF Exists(w) THEN [w EXCEPT !.lobby = NoLobby, !.removed = TRUE] ELSE w
Tell(w, reason) == [w EXCEPT !.left = Append(@, reason)]

\* Only the first word that the session is over ends anything.
EndClientSession(w, reason) ==
  IF Exists(w) THEN Tell(Despawn(w), reason) ELSE w

\* The backend's own, which lets go of HostUuid as well.
EndClientLobbies(w, reason) ==
  IF Exists(w) THEN [Tell(Despawn(w), reason) EXCEPT !.host = None] ELSE w

GoneReason(cause) == IF cause = "Transport" THEN "HostGone" ELSE "PeerTimeout"

\* HostLinkState goes, and what was matched with or held from these hosts.
ForgetHostLink(w, hosts) ==
  [w EXCEPT !.lobby.verified = None,
            !.lobby.matched = @ \ hosts,
            !.lobby.held = IF w.host \in hosts THEN "none" ELSE @]

\* A client whose host went silent closes the connection as it starts to wait.
WaitForReconnect(w, cause) ==
  [ForgetHostLink(w, {w.host}) EXCEPT
     !.lobby.wait = Wait(w.host, w.host, cause, ReconnectWithin),
     !.links = IF cause = "Silence" THEN @ \ {w.host} ELSE @]

\* The wait for a successor after this loss, given the wait there was.
WaitForSuccessorMutant(w, cause) ==
  Wait(IF w.lobby.wait.on THEN w.lobby.wait.previous ELSE w.host, None, cause,
       SuccessorWithin)
WaitForSuccessor(w, cause) ==
  LET wait == w.lobby.wait
  IN IF ~wait.on THEN Wait(w.host, None, cause, SuccessorWithin)
     ELSE IF wait.successor = None
     THEN [wait EXCEPT !.cause = IF cause = "Transport" THEN cause ELSE @]
     ELSE Wait(wait.successor, None, cause, SuccessorWithin)

HostLostMutant(w, cause) ==
  IF ~Exists(w) \/ IsReconnect(w.lobby.wait) \/ w.host = None THEN w
  ELSE IF w.lobby.reconnectable /\ Promoted(w) /\ ~w.lobby.wait.on
  THEN WaitForReconnect(w, cause)
  ELSE IF ~w.lobby.migratable \/ ~Promoted(w)
  THEN EndClientSession(w, GoneReason(cause))
  ELSE [w EXCEPT !.lobby.wait = WaitForSuccessor(w, cause)]
HostLost(w, cause) ==
  LET wait == w.lobby.wait
  IN IF ~Client(w) \/ IsReconnect(wait) THEN w
     ELSE IF w.lobby.reconnectable /\ Promoted(w) /\ ~wait.on
     THEN IF w.host = None THEN EndClientSession(w, "HostGone")
          ELSE WaitForReconnect(w, cause)
     ELSE IF ~w.lobby.migratable \/ ~Promoted(w)
     THEN EndClientSession(w, GoneReason(cause))
     ELSE IF ~wait.on /\ w.host = None THEN EndClientSession(w, "HostGone")
     ELSE [w EXCEPT !.lobby.wait = WaitForSuccessor(w, cause)]

TakeOver(w) ==
  [w EXCEPT !.lobby.phase = "lobby", !.lobby.hosting = TRUE,
            !.lobby.wait = NotWaiting, !.host = Me]

FollowWithoutLimit(w, previous, new_host) ==
  [w EXCEPT !.host = new_host,
            !.lobby.wait = IF ~Promoted(w) THEN @
                           ELSE Wait(previous, new_host, "Transport", None)]
FollowOnTheOldClock(w, previous, new_host) ==
  [w EXCEPT !.host = new_host,
            !.lobby.wait = IF ~Promoted(w) THEN @
                           ELSE [Wait(previous, new_host, "Transport", ReachWithin)
                                   EXCEPT !.waited = w.lobby.wait.waited]]
FollowAtOnce(w, previous, new_host) ==
  [w EXCEPT !.host = new_host,
            !.lobby.wait = IF ~@.on THEN @
                           ELSE Wait(previous, new_host, @.cause, ReachWithin)]
Follow(w, previous, new_host) ==
  LET cause == IF w.lobby.wait.on THEN w.lobby.wait.cause ELSE "Transport"
      within == IF w.lobby.migratable THEN ReachWithin ELSE DefaultReach
  IN [w EXCEPT !.host = new_host,
               !.lobby.wait = IF ~Promoted(w) THEN @
                              ELSE Wait(previous, new_host, cause, within)]

NewHostNamed(w, previous, new_host) ==
  LET forgotten == ForgetHostLink(w, {previous, w.host} \ {new_host})
  IN IF ~Client(w) THEN w
     ELSE IF new_host = Me THEN TakeOver(forgotten)
     ELSE Follow(forgotten, previous, new_host)

\* Looks at the wait again: it may be over, or another one.
ReconnectRanOutMutant(w) ==
  IF ~IsReconnect(w.lobby.wait) \/ w.lobby.wait.waited < w.lobby.wait.limit THEN w
  ELSE Despawn(w)
ReconnectRanOut(w) ==
  LET wait == w.lobby.wait
  IN IF ~IsReconnect(wait) \/ wait.waited < wait.limit THEN w
     ELSE IF w.lobby.migratable /\ SuccessorWithin > wait.waited
     THEN [w EXCEPT !.lobby.wait.successor = None,
                    !.lobby.wait.limit = SuccessorWithin]
     ELSE EndClientSession(w, GoneReason(wait.cause))

\* try_remove::<AwaitingHost>
StopWaiting(w) == [w EXCEPT !.lobby.wait = NotWaiting]

\* try_insert of HandshakeVerified and VerifiedHost.  The first insert decodes
\* what was held.
Verify(w, host) ==
  IF ~Exists(w) THEN w
  ELSE LET replayed == w.lobby.verified = None /\ w.lobby.held # "none"
       IN [w EXCEPT !.lobby.verified = host,
                    !.lobby.held = IF replayed THEN "none" ELSE @,
                    !.said = IF replayed THEN w.lobby.held ELSE @]

\* Neither try_remove nor try_insert: without the entity the command panics.
Promote(w) ==
  IF Exists(w)
  THEN [w EXCEPT !.lobby.phase = "lobby", !.lobby.fresh = @ \/ ~Promoted(w)]
  ELSE [w EXCEPT !.panicked = TRUE]

Commands ==
  [do : {"end", "endLobbies"}, reason : Reasons]
    \cup [do : {"hostLost"}, cause : Causes]
    \cup [do : {"named"}, previous : Players \cup {None}, host : Players]
    \cup [do : {"verify"}, host : Players \cup {None}]
    \cup [do : {"ranOut", "stopWaiting", "promote", "despawn", "forgetHost"}]

Do(w, command) ==
  CASE command.do = "end" -> EndClientSession(w, command.reason)
    [] command.do = "endLobbies" -> EndClientLobbies(w, command.reason)
    [] command.do = "hostLost" -> HostLost(w, command.cause)
    [] command.do = "named" -> NewHostNamed(w, command.previous, command.host)
    [] command.do = "ranOut" -> ReconnectRanOut(w)
    [] command.do = "stopWaiting" -> StopWaiting(w)
    [] command.do = "verify" -> Verify(w, command.host)
    [] command.do = "promote" -> Promote(w)
    [] command.do = "despawn" -> Despawn(w)
    [] command.do = "forgetHost" -> [w EXCEPT !.host = None]

------------------------------------------------------------------------------
\* The systems.  A system is what it queues, and what it changes at once.

Bare(what) == [do |-> what]
Queues(commands) == [queues |-> commands, world |-> world]
QueuesIf(condition, command) == Queues(IF condition THEN <<command>> ELSE <<>>)

RanOut(wait) == wait.waited >= wait.limit
Expiry(wait) ==
  IF IsReconnect(wait) THEN Bare("ranOut")
  ELSE [do |-> "end",
        reason |-> IF wait.successor = None THEN GoneReason(wait.cause) ELSE "HostGone"]

ClocksMutant ==
  LET wait == [world.lobby.wait EXCEPT !.waited = @ + 1]
  IN IF ~wait.on \/ (wait.successor # None /\ ~IsReconnect(wait)) THEN Queues(<<>>)
     ELSE [QueuesIf(RanOut(wait), Expiry(wait)) EXCEPT !.world.lobby.wait = wait]
\* run_host_migration_clocks
Clocks ==
  LET wait == [world.lobby.wait EXCEPT !.waited = @ + 1]
  IN IF ~world.lobby.wait.on THEN Queues(<<>>)
     ELSE [QueuesIf(RanOut(wait), Expiry(wait)) EXCEPT !.world.lobby.wait = wait]

\* take_back_a_silent_host
Pongs ==
  LET wait == world.lobby.wait
  IN QueuesIf(/\ wait.on /\ wait.cause = "Silence" /\ wait.successor = None
              /\ inbox.pong /\ inbox.from = wait.previous,
              Bare("stopWaiting"))

\* verify_protocol.  A match with no promoted lobby is only noted.
Match ==
  (IF world.lobby.wait.on /\ world.lobby.wait.successor = inbox.from
   THEN <<Bare("stopWaiting")>> ELSE <<>>)
    \o <<[do |-> "verify", host |-> inbox.from]>>
Answer(n) ==
  IF n \notin DOMAIN inbox.shakes THEN <<>>
  ELSE IF inbox.shakes[n] THEN Match ELSE <<Bare("despawn")>>

Mismatches == {n \in DOMAIN inbox.shakes : ~inbox.shakes[n]}
Discard(w) ==
  [w EXCEPT !.lobby.held = IF inbox.from = w.host THEN "none" ELSE @]
Complain(w) ==
  [w EXCEPT !.left = @ \o [n \in 1..Cardinality(Mismatches) |-> "ProtocolMismatch"]]

Handshakes ==
  LET discarded == IF Mismatches = {} THEN world ELSE Discard(world)
  IN IF Client(world) /\ Promoted(world)
     THEN [queues |-> Answer(1) \o Answer(2), world |-> Complain(discarded)]
     ELSE [queues |-> <<>>,
           world |-> IF Exists(world) /\ Mismatches # DOMAIN inbox.shakes
                     THEN [discarded EXCEPT !.lobby.matched = @ \cup {inbox.from}]
                     ELSE discarded]

\* verify_promoted_peers
Matches ==
  IF ~world.lobby.fresh THEN Queues(<<>>)
  ELSE LET known == Client(world) /\ world.host \in world.lobby.matched
       IN [QueuesIf(known, [do |-> "verify", host |-> world.host]) EXCEPT
             !.world.lobby.fresh = FALSE,
             !.world.lobby.matched = IF known THEN @ \ {world.host} ELSE @]

\* apply_lobby_state, its last words.
Words ==
  [QueuesIf(world.said # "none" /\ Client(world),
            [do |-> "end",
             reason |-> IF world.said = "kicked" THEN "Kicked" ELSE "HostGone"])
     EXCEPT !.world.said = "none"]

\* detect_dead_peers
Silence ==
  QueuesIf(inbox.silent /\ Client(world) /\ ~world.lobby.wait.on,
           [do |-> "hostLost", cause |-> "Silence"])

\* poll_socket_peers: a lobby that can wait is the core's to judge, any other
\* ends here and now.
Sockets ==
  LET waits == Promoted(world) /\ (world.lobby.reconnectable \/ world.lobby.migratable)
  IN IF ~Client(world) \/ world.host # inbox.from THEN Queues(<<>>)
     ELSE IF waits THEN Queues(<<[do |-> "hostLost", cause |-> "Transport"]>>)
     ELSE [queues |-> <<Bare("despawn"), Bare("forgetHost")>>,
           world |-> Tell(world, "HostGone")]

\* apply_lobby_events: HostChanged, Disconnected and SignallingClosed, in the
\* order the server would send them.
ToldOfHost ==
  IF inbox.named = None \/ ~Exists(world) THEN <<>>
  ELSE <<[do |-> "named", previous |-> inbox.from, host |-> inbox.named]>>
ToldItIsOver ==
  CASE inbox.over = "no" -> <<>>
    [] inbox.over = "disconnected" /\ Client(world) ->
         <<[do |-> "endLobbies", reason |-> "HostGone"]>>
    [] inbox.over = "disconnected" /\ ~Client(world) -> <<Bare("forgetHost")>>
    [] inbox.over = "closed" -> <<Bare("despawn"), Bare("forgetHost")>>

LobbyEvents ==
  LET severed == IF ToldOfHost = <<>> THEN {} ELSE {inbox.from, inbox.named}
  IN [queues |-> ToldOfHost \o ToldItIsOver,
      world |-> [world EXCEPT
        !.links = IF inbox.over = "closed" THEN {} ELSE @ \ severed,
        !.left = IF inbox.over = "closed" /\ Exists(world)
                 THEN Append(@, "SignallingLost") ELSE @]]

\* leave_lobby
Leaving == QueuesIf(inbox.leave /\ Exists(world), Bare("despawn"))

\* time_out_pending_lobbies
Joining == QueuesIf(inbox.overdue /\ world.lobby.phase = "pending", Bare("despawn"))

\* promote_client_lobby_on_host_handshake
Promotion ==
  QueuesIf(/\ inbox.ready /\ Client(world) /\ ~Promoted(world)
           /\ inbox.from = world.host,
           Bare("promote"))

\* publish_host_uuid
Publish == QueuesIf(~Exists(world) /\ world.host # None, Bare("forgetHost"))

\* detect_lobby_leave
Teardown ==
  IF ~world.removed THEN Queues(<<>>)
  ELSE [Queues(<<Bare("forgetHost")>>) EXCEPT !.world.removed = FALSE,
                                              !.world.links = {}]

------------------------------------------------------------------------------
\* Frames

Resting == todo = {} /\ \A s \in Systems : buffer[s] = <<>>

\* Bound: the inputs that land in one frame.
Weight(i) ==
  Cardinality({k \in {"ready", "pong", "silent", "leave", "overdue"} : i[k]})
    + Cardinality({k \in {"word", "broken", "over"} : i[k] \notin {"none", "no"}})
    + (IF i.named = None THEN 0 ELSE 1) + Len(i.shakes)

\* What may have arrived by the start of a frame, for a peer in this world:
\* packets only over a connection to the host, a pong only from a verified
\* one, silence only when none arrived, and nothing of a session that is over.
Possible ==
  LET Flag(p) == IF p THEN BOOLEAN ELSE {FALSE}
      Among(p, others, nothing) == (IF p THEN others ELSE {}) \cup {nothing}
      client == Client(world)
      reads == client /\ world.host \in world.links
      unsaid == world.said = "none" /\ world.lobby.held = "none"
  IN {i \in [ready : Flag(reads /\ ~Promoted(world)),
             pong : Flag(reads /\ HostIsVerified(world) /\ world.lobby.wait.on),
             shakes : Among(reads, UNION {[1..n -> BOOLEAN] : n \in 1..2}, <<>>),
             word : Among(reads /\ unsaid, LastWords, "none"),
             silent : Flag(client /\ ~world.lobby.wait.on),
             broken : Among(reads, {"over", "superseded"}, "no"),
             named : Among(client /\ namings < MaxNamings, Players \ {world.host}, None),
             over : Among(client, {"disconnected"}, "no") \cup
                    Among(Exists(world), {"closed"}, "no"),
             leave : Flag(Exists(world)),
             overdue : Flag(client /\ ~Promoted(world)),
             from : {world.host}] :
        /\ Weight(i) <= PerFrame
        /\ i.silent => ~i.ready /\ i.shakes = <<>> /\ i.word = "none"}

\* The systems this frame gives work to: the others change nothing in it.
Busy(i) ==
  LET waiting == world.lobby.wait.on \/ i.broken # "no" \/ i.silent \/ i.named # None
      work == [clocks |-> waiting,
               pongs |-> i.pong,
               handshakes |-> i.shakes # <<>>,
               matches |-> world.lobby.fresh \/ i.ready,
               words |-> world.said # "none" \/ i.word # "none"
                           \/ (world.lobby.held # "none" /\ (i.shakes # <<>> \/ world.lobby.fresh)),
               silence |-> i.silent,
               sockets |-> i.broken # "no",
               events |-> i.named # None \/ i.over # "no",
               leaving |-> i.leave,
               joining |-> i.overdue,
               promotion |-> i.ready,
               publish |-> ~Exists(world) /\ world.host # None,
               teardown |-> world.removed]
  IN {s \in Systems : work[s]}

\* Decoding: a word from a host not yet verified is held, any other is said.
Heard(w, i) ==
  IF i.word = "none" THEN w
  ELSE IF HostIsVerified(w) THEN [w EXCEPT !.said = i.word]
  ELSE [w EXCEPT !.lobby.held = i.word]

BeginFrame ==
  /\ Resting
  /\ ~world.panicked
  /\ \E i \in Possible :
       LET met == IF \E n \in DOMAIN i.shakes : i.shakes[n] THEN {world.host} ELSE {}
           lost == IF i.broken = "no" THEN {} ELSE {world.host}
           cut == IF i.broken = "over" THEN lost ELSE {}
       IN /\ Busy(i) # {}
          /\ inbox' = i
          /\ todo' = Busy(i)
          /\ namings' = namings + (IF i.named = None THEN 0 ELSE 1)
          /\ world' = [Heard(world, i) EXCEPT !.links = @ \ cut]
          /\ compared' = compared \cup met
          /\ overlink' = (overlink \cup met) \ lost
  /\ UNCHANGED <<buffer, applying, opened, unled>>

\* A frame that is over has nothing left to read.
Finish == inbox' = IF Resting' THEN NothingRead ELSE inbox

\* Bound: unled is counted no further than past everything promised.
Promised == SuccessorWithin + ReachWithin + DefaultReach + ReconnectWithin

Runs(s, effect) ==
  /\ s \in todo
  /\ applying = None
  /\ todo' = todo \ {s}
  /\ world' = effect.world
  /\ buffer' = [buffer EXCEPT ![s] = effect.queues]
  /\ overlink' = overlink \cap world'.links
  /\ unled' = IF s = "clocks" /\ world.lobby.wait.on /\ unled <= Promised
              THEN unled + 1 ELSE unled
  /\ Finish
  /\ UNCHANGED <<applying, opened, namings, compared>>

\* Whether this step is the loss of a host, or the naming of one.
LosesOrNames ==
  \/ world'.host # world.host
  \/ world'.lobby.wait.on # world.lobby.wait.on
  \/ world'.lobby.wait.previous # world.lobby.wait.previous

\* A lobby that goes may still be seen to go by detect_lobby_leave this frame.
Apply(s) ==
  /\ buffer[s] # <<>>
  /\ applying \in Systems \ {s} => buffer[applying] = <<>>
  /\ world' = Do(world, Head(buffer[s]))
  /\ buffer' = [buffer EXCEPT ![s] = Tail(@)]
  /\ applying' = IF \A t \in Systems : buffer'[t] = <<>> THEN None ELSE s
  /\ \/ todo' = todo
     \/ ~world.removed /\ world'.removed /\ todo' = todo \cup {"teardown"}
  /\ overlink' = overlink \cap world'.links
  /\ unled' = IF LosesOrNames THEN 0 ELSE unled
  /\ UNCHANGED <<opened, namings, compared>>
  /\ Finish

------------------------------------------------------------------------------
\* Between frames: the player joins, the host opens a connection.

\* A lobby asked for and answered with LobbyJoined, the last one torn down.
Join ==
  /\ Resting
  /\ ~world.panicked /\ ~Exists(world)
  /\ ~world.removed /\ world.host = None /\ world.said = "none"
  /\ opened < MaxSessions
  /\ \E h \in Others, m \in BOOLEAN, r \in BOOLEAN :
       world' = [world EXCEPT !.lobby = [@ EXCEPT !.phase = "pending",
                                           !.migratable = m, !.reconnectable = r],
                              !.host = h, !.left = <<>>]
  /\ opened' = opened + 1
  /\ compared' = {} /\ overlink' = {} /\ unled' = 0
  /\ UNCHANGED <<inbox, todo, buffer, applying, namings>>

\* The host's offer is answered: at a join, after it was named, or after the
\* connection broke and the host holds the seat.
Connect ==
  /\ Resting
  /\ Client(world) /\ world.host # None
  /\ world.host \notin world.links
  /\ world.lobby.wait.on =>
       world.lobby.wait.successor = world.host \/ world.lobby.reconnectable
  /\ world' = [world EXCEPT !.links = @ \cup {world.host}]
  /\ UNCHANGED <<inbox, todo, buffer, applying, opened, namings, compared,
                 overlink, unled>>

Init ==
  /\ world = [lobby |-> NoLobby, host |-> None, links |-> {}, said |-> "none",
              left |-> <<>>, removed |-> FALSE, panicked |-> FALSE]
  /\ inbox = NothingRead
  /\ todo = {}
  /\ buffer = [s \in Systems |-> <<>>]
  /\ applying = None
  /\ opened = 0 /\ namings = 0
  /\ compared = {} /\ overlink = {} /\ unled = 0

Update ==
  \/ Runs("clocks", Clocks)
  \/ Runs("pongs", Pongs)
  \/ Runs("handshakes", Handshakes)
  \/ Runs("matches", Matches)
  \/ Runs("words", Words)
  \/ Runs("silence", Silence)
  \/ Runs("sockets", Sockets)
  \/ Runs("events", LobbyEvents)
  \/ Runs("leaving", Leaving)
  \/ Runs("joining", Joining)
  \/ Runs("promotion", Promotion)
  \/ Runs("publish", Publish)
  \/ "events" \notin todo /\ buffer["events"] = <<>> /\ Runs("teardown", Teardown)
  \/ \E s \in Systems : Apply(s)

Next == BeginFrame \/ Update \/ Join \/ Connect

Spec == Init /\ [][Next]_vars

\* Frames go on, and a frame that began runs to its end.
FairSpec == Spec /\ WF_vars(BeginFrame) /\ WF_vars(Update)

------------------------------------------------------------------------------
\* What must hold

TypeOK ==
  /\ world \in Worlds
  /\ inbox \in Inboxes
  /\ todo \subseteq Systems
  /\ buffer \in [Systems -> Seq(Commands)]
  /\ applying \in Systems \cup {None}
  /\ opened \in Nat /\ namings \in Nat /\ unled \in Nat
  /\ compared \subseteq Players
  /\ overlink \subseteq Players

\* Only a client in a promoted lobby waits for a host, and for nobody but the
\* one HostUuid names: a loss queued before this peer was promoted, a wait that
\* ran out or a host named meanwhile must not leave AwaitingHost on a lobby it
\* hosts, or for a host that has been replaced (host_lost, new_host_named).
WaitsAreForTheHost ==
  world.lobby.wait.on =>
    /\ Client(world) /\ Promoted(world)
    /\ world.lobby.wait.successor \in {None, world.host}

\* Nothing is read from a host whose protocol was not compared in this very
\* session: not one verified before it became host, nor one matched in a
\* session that is over (VerifiedHost, ProtocolMatched).
VerifiedMeansCompared == HostIsVerified(world) => world.host \in compared

\* Whether this step carries out one of s's commands and the lobby goes.
EndedBy(s) == Exists(world) /\ ~Exists(world') /\ buffer'[s] # buffer[s]

\* A session nobody here asked to leave, and no join that took too long, never
\* goes without a LobbyLeft, however its end was reached; and one it was written
\* for is over by the end of the frame, also where it is written before the
\* despawn is applied (verify_protocol, poll_socket_peers, SignallingClosed).
NobodyIsDroppedInSilence ==
  [][/\ \A s \in Systems \ {"leaving", "joining"} : EndedBy(s) => world'.left # <<>>
     /\ Resting' /\ world'.left # <<>> => ~Exists(world')]_vars

\* How long a lobby in this world may be without a host: what a host that comes
\* back used up of its time, the wait for a successor goes on from.
Due(w) ==
  IF w.lobby.wait.successor = None THEN SuccessorWithin
  ELSE IF IsReconnect(w.lobby.wait) THEN ReconnectWithin
  ELSE IF w.lobby.migratable THEN ReachWithin ELSE DefaultReach

\* However often a loss is reported, by whoever, and whatever is given up on in
\* between, a lobby waits no longer for one host than was promised: a second
\* word must not restart the clock (host_lost, reconnect_ran_out).
WaitIsBounded == world.lobby.wait.on => unled <= Due(world)

\* A wait that its clock ends, in a frame that brought no other news of a host,
\* has lasted as long as was promised since the host was lost or the last named.
NotGivenUpEarly ==
  [][/\ EndedBy("clocks") /\ world.lobby.wait.on
     /\ inbox.named = None /\ inbox.broken = "no" /\ ~inbox.silent
     => unled >= Due(world)]_vars

\* Every wait for a host ends: it is reached, this peer takes over, or the
\* session is over.
EveryWaitEnds == world.lobby.wait.on ~> ~world.lobby.wait.on

\* The stages a game sees.
StageOf(w) ==
  IF ~Exists(w) THEN "out"
  ELSE IF w.lobby.hosting THEN "hosting"
  ELSE IF ~Promoted(w) THEN "joining"
  ELSE IF w.lobby.wait.on THEN "waiting" ELSE "playing"
Stages == INSTANCE LobbyStage WITH stage <- StageOf(world), host <- world.host

\* A game sees no stage skipped and no host changed but by a host being named,
\* whatever order the systems and their commands take (see LobbyStage).
KeepsItsStages == Stages!Spec

------------------------------------------------------------------------------
\* What the documentation says, and the code does not do

\* docs/MIGRATION.md:258: LobbyLeft is written once for a session.
OneEndPerSession == Len(world.left) <= 1

\* migration.rs:423: a new connection to the same host is verified from
\* scratch.
VerifiedOverThisLink == HostIsVerified(world) /\ Resting => world.host \in overlink \/ world.host \notin world.links

\* docs/lobbies.md:151: a session ends when nobody is named in time, or the one
\* named cannot be reached in time.
GivesUpOnlyWhenDue ==
  [][EndedBy("clocks") => world.lobby.wait.on /\ unled >= Due(world)]_vars

\* docs/backends.md:204: a wait for a host to come back is ended by the
\* handshake with it.
ComingBackEndsTheWait ==
  Resting /\ HostIsVerified(world) /\ world.host \in overlink /\ world.lobby.reconnectable
    => ~world.lobby.wait.on
==============================================================================
